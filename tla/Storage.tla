-------------------------------- MODULE Storage --------------------------------
(***************************************************************************)
(* Where the data is: the storage settings an administrator saves, the boot  *)
(* that applies them, the batch files and catalog rows a server writes, and  *)
(* the two commands that rewrite the files behind its back                   *)
(* (services/app_settings.py, api/routers/settings.py, http_app.py, cli.py,  *)
(* the blob stores).                                                        *)
(*                                                                         *)
(* One server; an action is a file operation or a commit.  Each trace is one *)
(* export that is sent once.  The operator runs one command at a time and    *)
(* starts no server during a reset.                                         *)
(***************************************************************************)
EXTENDS Integers, FiniteSets

CONSTANTS Traces,
          Envs,         \* environments a server may be started with
          Forms,        \* storage settings that may be saved
          MaxBoots,     \* bound: starts of the server
          MaxSaves,     \* bound: saves of the settings
          MaxJobs,      \* bound: commands run
          MaxFaults,    \* bound: kills of the server or a command, failed writes
          None          \* no trace

ASSUME BoundsAssumption == {MaxBoots, MaxSaves, MaxJobs, MaxFaults} \subseteq Nat

Clouds    == {"s3", "azure", "gcs"}
\* <data_dir>/catalog.sqlite3, a second file, a Postgres somewhere, one on this host.
Catalogs  == {"catalog", "other", "postgres", "localhost"}
Places    == {"blob", "alt"} \cup Clouds        \* <data_dir>/blob, a second directory, the buckets
Formats   == {"jsonl", "parquet"}

\* The blob provider with its directory, the catalog's provider with sqlite_path and
\* pg_host; any of the last three may be left empty.
Settings ==
    [provider : {"local"} \cup Clouds, path : {"", "blob", "alt"},
     catalog : {"sqlite", "postgres"}, file : {"", "catalog", "other"}, host : {"", "postgres", "localhost"}]

\* db is what database_url names: the default file unless the operator says otherwise.
Environment == [provider : {"local", "hybrid"} \cup Clouds, format : Formats, duckdb : BOOLEAN, db : Catalogs]

ASSUME InputsAssumption == Forms \subseteq Settings /\ Envs \subseteq Environment

VARIABLES
    saved,      \* the storage entry of app_settings.json, Untouched if there is none
    proc,       \* down, boot or up
    env,        \* what the server was started with
    active,     \* what it uses: [provider, place, db, format, duckdb]
    seeded,     \* catalogs that have the default organization
    rows,       \* trace_index of all catalogs: [db, trace, place, format]
    files,      \* batch files: [place, trace, format, state]
    work,       \* of each trace: where its export stands
    cli,        \* the command that is running
    boots, saves, jobs, faults,
    wiped,      \* history: a reset was begun
    raced       \* history: traces whose unfinished file a migration took for finished

settings == <<saved, saves>>
server   == <<proc, env, active, boots>>
data     == <<seeded, rows, files>>
command  == <<cli, jobs, wiped, raced>>
vars     == <<settings, server, data, work, command, faults>>

Untouched == [provider |-> "local", path |-> "", catalog |-> "sqlite", file |-> "", host |-> ""]
NoCommand == [cmd |-> "none", step |-> "", left |-> {}, at |-> None, whole |-> TRUE, delete |-> FALSE, failed |-> FALSE]
NoServer  == [provider |-> "local", place |-> "blob", db |-> "catalog", format |-> "jsonl", duckdb |-> FALSE]

Row(db, t, place, format)      == [db |-> db, trace |-> t, place |-> place, format |-> format]
File(place, t, format, state)  == [place |-> place, trace |-> t, format |-> format, state |-> state]

Fault == faults < MaxFaults /\ faults' = faults + 1

Init ==
    /\ saved \in Forms \cup {Untouched}    \* what an earlier life has left
    /\ proc = "down" /\ env \in Envs /\ active = NoServer
    /\ seeded = {} /\ rows = {} /\ files = {}
    /\ work = [t \in Traces |-> "new"]
    /\ cli = NoCommand
    /\ boots = 0 /\ saves = 0 /\ jobs = 0 /\ faults = 0
    /\ wiped = FALSE /\ raced = {}
-------------------------------------------------------------------------------
(* Settings and boot.                                                      *)

\* put_storage, with a rename at its end: a kill leaves the old file or the new.
SaveStorage(cfg) ==
    /\ proc = "up"
    /\ saves < MaxSaves /\ saves' = saves + 1
    /\ saved' = cfg
    /\ UNCHANGED <<server, data, work, command, faults>>

\* _create_blob_store: only the local provider can write the legacy format.
StoreFormat(provider, e) == IF provider = "local" THEN e.format ELSE "parquet"
UsesDuckDB(e) == e.duckdb /\ e.format = "parquet"

\* CatalogConfig.to_async_url: a Postgres without a host is one on this host.
Url(cfg) ==
    IF cfg.catalog = "postgres" THEN IF cfg.host # "" THEN cfg.host ELSE "localhost"
    ELSE IF cfg.file # "" THEN cfg.file ELSE "catalog"

\* The settings choose a catalog only with the path or the host that goes with it.
Chooses(cfg) == IF cfg.catalog = "postgres" THEN cfg.host # "" ELSE cfg.file # ""

\* Mutant: a saved SQLite path is forgotten.
Effective_PostgresOnly(cfg, e) ==
    LET provider == IF cfg.provider = "local" THEN e.provider ELSE cfg.provider
    IN [provider |-> provider,
        place |-> IF provider \in Clouds THEN provider
                  ELSE IF provider = "local" /\ cfg.path # "" THEN cfg.path ELSE "blob",
        db |-> IF cfg.catalog = "postgres" /\ cfg.host # "" THEN cfg.host ELSE e.db,
        format |-> StoreFormat(provider, e), duckdb |-> UsesDuckDB(e)]

\* _resolve_storage: a provider of the environment beats "local" in the settings, a directory counts
\* only with "local", the hybrid store has its local half in the default one, and the environment's
\* catalog stays unless the settings choose one.
Effective(cfg, e) ==
    LET provider == IF cfg.provider = "local" THEN e.provider ELSE cfg.provider
    IN [provider |-> provider,
        place |-> IF provider \in Clouds THEN provider
                  ELSE IF provider = "local" /\ cfg.path # "" THEN cfg.path ELSE "blob",
        db |-> IF Chooses(cfg) THEN Url(cfg) ELSE e.db,
        format |-> StoreFormat(provider, e), duckdb |-> UsesDuckDB(e)]

\* configure_engine and init_db, which creates what is missing in one transaction.
Boot(e) ==
    /\ proc = "down" /\ cli.cmd # "reset"
    /\ boots < MaxBoots /\ boots' = boots + 1
    /\ proc' = "boot" /\ env' = e
    /\ active' = Effective(saved, e)
    /\ UNCHANGED <<settings, data, work, command, faults>>

\* ensure_default_org ends what can fail in a boot.
EnsureDefaultOrg ==
    /\ proc = "boot"
    /\ seeded' = seeded \cup {active.db}
    /\ proc' = "up"
    /\ UNCHANGED <<settings, env, active, boots, rows, files, work, command, faults>>

\* The exports in hand end with the server.
Stopped ==
    /\ proc' = "down"
    /\ work' = [t \in Traces |-> IF work[t] \in {"open", "written"} THEN "lost" ELSE work[t]]

Stop ==
    /\ proc # "down"
    /\ Stopped
    /\ UNCHANGED <<settings, env, active, boots, data, command, faults>>

ProviderOf(db) == IF db \in {"postgres", "localhost"} THEN "postgres" ELSE "sqlite"

\* _is_dirty, which raises the banner "restart required": the active provider is
\* reported as local, whichever it is.
Dirty ==
    \/ saved.provider # "local"
    \/ saved.path # "" /\ saved.path # active.place
    \/ saved.catalog # ProviderOf(active.db)
    \/ (saved.catalog = "postgres" \/ saved.file # "") /\ Url(saved) # active.db
-------------------------------------------------------------------------------
(* Ingest.                                                                 *)

InStore(t) == {f \in files : f.place = active.place /\ f.trace = t /\ f.format = active.format}

\* write_trace_batch creates a local file and fills it; an object of a bucket is
\* there only when it is complete.
OpenBatch(t) ==
    /\ proc = "up" /\ work[t] = "new"
    /\ work' = [work EXCEPT ![t] = "open"]
    /\ files' = IF active.place \in Clouds THEN files ELSE files \cup {File(active.place, t, active.format, "part")}
    /\ UNCHANGED <<settings, server, seeded, rows, command, faults>>

\* A file that was deleted meanwhile stays deleted.
CloseBatch(t) ==
    /\ proc = "up" /\ work[t] = "open"
    /\ work' = [work EXCEPT ![t] = "written"]
    /\ files' = IF active.place \in Clouds \/ InStore(t) # {}
                THEN (files \ InStore(t)) \cup {File(active.place, t, active.format, "whole")} ELSE files
    /\ UNCHANGED <<settings, server, seeded, rows, command, faults>>

PutRow(t) ==
    /\ proc = "up" /\ work[t] = "written"
    /\ work' = [work EXCEPT ![t] = "done"]
    /\ rows' = rows \cup {Row(active.db, t, active.place, active.format)}
    /\ UNCHANGED <<settings, server, seeded, files, command, faults>>

\* A write or the upsert raises; what there is of the file stays.
IngestRaises(t) ==
    /\ proc = "up" /\ work[t] \in {"open", "written"}
    /\ Fault
    /\ work' = [work EXCEPT ![t] = "lost"]
    /\ UNCHANGED <<settings, server, data, command>>
-------------------------------------------------------------------------------
(* migrate-parquet, on the default directory whatever the settings say.     *)

Ndjson == {f \in files : f.place = "blob" /\ f.format = "jsonl"}

Pick(t, whole, step) == cli' = [cli EXCEPT !.at = t, !.whole = whole, !.step = step]

\* On to the next file, which the one in hand may leave failed.
Onward(t, failed) ==
    cli' = [cli EXCEPT !.at = None, !.step = "pick", !.left = @ \ {t}, !.failed = @ \/ failed]

MigrateStart(delete) ==
    /\ cli.cmd = "none" /\ Ndjson # {}
    /\ jobs < MaxJobs /\ jobs' = jobs + 1
    /\ cli' = [NoCommand EXCEPT !.cmd = "migrate", !.step = "pick", !.left = {f.trace : f \in Ndjson}, !.delete = delete]
    /\ UNCHANGED <<settings, server, data, work, wiped, raced, faults>>

\* A file that is still being written, or was cut short, may look empty, have a
\* broken last line, or end with a line of its own.
MigrateRead(t) ==
    /\ cli.cmd = "migrate" /\ cli.step = "pick" /\ t \in cli.left
    /\ \E f \in Ndjson : f.trace = t /\
         \/ f.state = "whole" /\ Pick(t, TRUE, "write") /\ UNCHANGED <<files, raced>>
         \/ f.state = "part" /\ Pick(t, FALSE, "write") /\ UNCHANGED files /\ raced' = raced \cup {t}
         \/ f.state = "part" /\ Onward(t, TRUE) /\ UNCHANGED <<files, raced>>
         \/ f.state = "part" /\ Onward(t, FALSE) /\ raced' = raced \cup {t}
            /\ files' = IF cli.delete THEN files \ {f} ELSE files
    /\ UNCHANGED <<settings, server, seeded, rows, work, jobs, wiped, faults>>

Converted(t) == {f \in files : f.place = "blob" /\ f.trace = t /\ f.format = "parquet"}

\* Mutant: the source is deleted before the table is written.
MigrateWrite_DeletesFirst ==
    /\ cli.step = "write"
    /\ files' = ({f \in files : f.place # "blob" \/ f.trace # cli.at \/ (~cli.delete /\ f.format = "jsonl")})
                    \cup {File("blob", cli.at, "parquet", "torn")}
    /\ cli' = [cli EXCEPT !.step = "finish"]
    /\ UNCHANGED <<settings, server, seeded, rows, work, jobs, wiped, raced, faults>>

\* Mutant: a table that is there already is taken for the result.
MigrateWrite_SkipsExisting ==
    /\ cli.step = "write"
    /\ IF Converted(cli.at) # {} THEN Onward(cli.at, FALSE) /\ UNCHANGED files
       ELSE /\ files' = files \cup {File("blob", cli.at, "parquet", "torn")}
            /\ cli' = [cli EXCEPT !.step = "finish"]
    /\ UNCHANGED <<settings, server, seeded, rows, work, jobs, wiped, raced, faults>>

\* pq.write_table, in place.
MigrateWrite ==
    /\ cli.step = "write"
    /\ files' = (files \ Converted(cli.at)) \cup {File("blob", cli.at, "parquet", "torn")}
    /\ cli' = [cli EXCEPT !.step = "finish"]
    /\ UNCHANGED <<settings, server, seeded, rows, work, jobs, wiped, raced, faults>>

MigrateFinish ==
    /\ cli.step = "finish"
    /\ files' = (files \ Converted(cli.at)) \cup {File("blob", cli.at, "parquet", IF cli.whole THEN "whole" ELSE "part")}
    /\ IF cli.delete THEN Pick(cli.at, cli.whole, "unlink") ELSE Onward(cli.at, FALSE)
    /\ UNCHANGED <<settings, server, seeded, rows, work, jobs, wiped, raced, faults>>

MigrateUnlink ==
    /\ cli.step = "unlink"
    /\ files' = {f \in files : f \notin Ndjson \/ f.trace # cli.at}
    /\ Onward(cli.at, FALSE)
    /\ UNCHANGED <<settings, server, seeded, rows, work, jobs, wiped, raced, faults>>

\* Reading, writing or deleting raises: the file counts as failed.
MigrateRaises ==
    /\ cli.step \in {"write", "finish", "unlink"}
    /\ Fault
    /\ Onward(cli.at, TRUE)
    /\ UNCHANGED <<settings, server, data, work, jobs, wiped, raced>>

MigrateEnd ==
    /\ cli.cmd = "migrate" /\ cli.step = "pick" /\ cli.left = {}
    /\ cli' = NoCommand
    /\ UNCHANGED <<settings, server, data, work, jobs, wiped, raced, faults>>
-------------------------------------------------------------------------------
(* reset-data: the default catalog, then the default directory; --force     *)
(* stops the server first, without it the server must be down.              *)

ResetStart ==
    /\ cli.cmd = "none"
    /\ jobs < MaxJobs /\ jobs' = jobs + 1
    /\ Stopped
    /\ cli' = [NoCommand EXCEPT !.cmd = "reset", !.step = "catalog"]
    /\ wiped' = TRUE
    /\ UNCHANGED <<settings, env, active, boots, data, raced, faults>>

RemoveCatalog ==
    /\ cli.step = "catalog"
    /\ seeded' = seeded \ {"catalog"}
    /\ rows' = {r \in rows : r.db # "catalog"}
    /\ cli' = [cli EXCEPT !.step = "blob"]
    /\ UNCHANGED <<settings, server, files, work, jobs, wiped, raced, faults>>

RemoveBlob ==
    /\ cli.step = "blob"
    /\ files' = {f \in files : f.place # "blob"}
    /\ cli' = NoCommand
    /\ UNCHANGED <<settings, server, seeded, rows, work, jobs, wiped, raced, faults>>

\* A command is killed, or a reset gives up at a file it cannot remove.
CommandEnds ==
    /\ cli.cmd # "none"
    /\ Fault
    /\ cli' = NoCommand
    /\ UNCHANGED <<settings, server, data, work, jobs, wiped, raced>>

Next ==
    \/ \E cfg \in Forms : SaveStorage(cfg)
    \/ \E e \in Envs : Boot(e)
    \/ EnsureDefaultOrg \/ Stop
    \/ \E t \in Traces : OpenBatch(t) \/ CloseBatch(t) \/ PutRow(t) \/ IngestRaises(t) \/ MigrateRead(t)
    \/ \E delete \in BOOLEAN : MigrateStart(delete)
    \/ MigrateWrite \/ MigrateFinish \/ MigrateUnlink \/ MigrateRaises \/ MigrateEnd
    \/ ResetStart \/ RemoveCatalog \/ RemoveBlob \/ CommandEnds

Spec == Init /\ [][Next]_vars
-------------------------------------------------------------------------------
(* Properties.                                                             *)

ServerType  == [provider : {"local", "hybrid"} \cup Clouds, place : Places, db : Catalogs, format : Formats, duckdb : BOOLEAN]
RowType     == [db : Catalogs, trace : Traces, place : Places, format : Formats]
FileType    == [place : Places, trace : Traces, format : Formats, state : {"part", "torn", "whole"}]
CommandType == [cmd : {"none", "migrate", "reset"}, step : {"", "pick", "write", "finish", "unlink", "catalog", "blob"},
                left : SUBSET Traces, at : Traces \cup {None}, whole : BOOLEAN, delete : BOOLEAN, failed : BOOLEAN]

TypeOK ==
    /\ saved \in Settings
    /\ proc \in {"down", "boot", "up"} /\ env \in Environment /\ active \in ServerType
    /\ seeded \subseteq Catalogs /\ rows \subseteq RowType /\ files \subseteq FileType
    /\ work \in [Traces -> {"new", "open", "written", "done", "lost"}]
    /\ cli \in CommandType
    /\ {boots, saves, jobs, faults} \subseteq Nat
    /\ wiped \in BOOLEAN /\ raced \subseteq Traces

\* The spans of every row are where they were written, whatever was killed, failed
\* or run again: in the file the row names or, once a migration has deleted that, in
\* the table beside it.  A reset takes the catalog before the directory, so that
\* it leaves no row behind; another catalog keeps its rows and loses the spans.  A
\* migration that meets a file in the making may take it for empty or finished.
SpansKept ==
    \A r \in rows :
        \/ r.trace \in raced
        \/ wiped /\ r.db # "catalog" /\ r.place = "blob"
        \/ \E f \in files : f.place = r.place /\ f.trace = r.trace /\ f.state = "whole"
                              /\ (f.format = r.format \/ f.format = "parquet")

\* A migration that ends without a failed file has left no trace it listed without
\* a readable table, also if one before it was killed in the middle of a table.
MigrationRepairs ==
    [][cli.step \in {"write", "finish", "unlink"} /\ cli'.step = "pick" /\ cli'.failed = cli.failed /\ faults' = faults =>
          \E f \in files' : f.place = "blob" /\ f.trace = cli.at /\ f.format = "parquet" /\ f.state # "torn"]_vars

\* The settings show a catalog that no boot under e uses: they leave the choice to
\* the environment, which names one of the other kind, or another Postgres.
Unheeded(cfg, e) ==
    ~Chooses(cfg) /\ (cfg.catalog # ProviderOf(e.db) \/ (cfg.catalog = "postgres" /\ Url(cfg) # e.db))

\* A server works with the settings and the environment it was started with.  The
\* banner that asks for a restart, as long as neither names a cloud, is up when a
\* restart would move something, if the settings choose directory and catalog; and
\* where a restart would move nothing it is up just if the settings show a catalog
\* that is not used: then it stays up for good.
SettingsApply ==
    proc = "up" /\ saved.provider = "local" /\ env.provider = "local" =>
        LET next == Effective(saved, env)
            moves == next.place # active.place \/ next.db # active.db
        IN /\ moves /\ saved.path # "" /\ Chooses(saved) => Dirty
           /\ ~moves => (Dirty <=> Unheeded(saved, env))
===============================================================================
