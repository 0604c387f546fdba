------------------------------ MODULE TraceIngest ------------------------------
(***************************************************************************)
(* The ingest of OTLP exports: each trace of an export is written to the    *)
(* hybrid blob store, local disk and an S3 archive behind a circuit         *)
(* breaker, then upserted into the trace catalog, then handed to the        *)
(* auto-rule trigger, which evaluates one trace at a time                   *)
(* (easyobs/services/trace_ingest.py, adapters/blob_hybrid.py,             *)
(* adapters/catalog_sqlite.py, eval/auto_rule.py).                          *)
(*                                                                         *)
(* A batch is what one export holds of one trace; its file is named after   *)
(* the attempt that wrote it.  The blob store is synchronous code, so its   *)
(* two writes are one action; the catalog reads and commits in two.         *)
(***************************************************************************)
EXTENDS Integers, Sequences, FiniteSets, FiniteSetsExt

CONSTANTS Exports, Traces, Spans,
          TraceOf,      \* the trace of a span
          StartOf,      \* its start time
          Carries,      \* the spans an export carries
          Threshold,    \* _CIRCUIT_BREAKER_THRESHOLD
          Cooldown,     \* _CIRCUIT_BREAKER_COOLDOWN_SEC, in ticks
          MaxResends,   \* bound: exports sent again
          MaxS3Faults,  \* bound: archive writes that fail
          MaxFaults,    \* bound: other calls that raise
          MaxCrashes    \* bound: restarts of the process

Batch(x, t) == {s \in Carries[x] : TraceOf[s] = t}
TracesIn(x) == {TraceOf[s] : s \in Carries[x]}

ASSUME BoundsAssumption ==
    /\ {MaxResends, MaxS3Faults, MaxFaults, MaxCrashes} \subseteq Nat
    /\ {Threshold, Cooldown} \subseteq Nat \ {0}
ASSUME SpansAssumption ==
    /\ TraceOf \in [Spans -> Traces] /\ StartOf \in [Spans -> Nat]
    /\ Carries \in [Exports -> (SUBSET Spans) \ {{}}]     \* "no spans" answers 400
    /\ IsFiniteSet(Spans) /\ IsFiniteSet(Exports) /\ IsFiniteSet(Traces)

File   == [export : Exports, send : 1..MaxResends + 1, trace : Traces]
NoFile == [export |-> "none"]
NoRow  == [start |-> 0, count |-> 0, batch |-> NoFile]

VARIABLES
    onDisk,     \* files of the local store
    archived,   \* of them, those whose lines reached S3
    failures,   \* _s3_consecutive_failures
    closed,     \* _s3_circuit_open_until is 0.0
    remaining,  \* ticks until it passes
    quiet,      \* ticks since an archive write last failed
    catalog,    \* trace_index
    pc, req,    \* where the request of an export awaits, and its local variables
    hooks,      \* post-write hooks under way, by the file that caused them
    evaluated,  \* for each trace, the file the last automatic run of it read
    resends, s3Faults, faults, crashes

breaker == <<failures, closed, remaining, quiet>>
blob    == <<onDisk, archived, breaker>>
auto    == <<hooks, evaluated>>
bounds  == <<resends, s3Faults, faults, crashes>>
vars    == <<blob, catalog, pc, req, auto, bounds>>

NoReq == [send |-> 0, left |-> {}, file |-> NoFile, row |-> NoRow]

Init ==
    /\ onDisk = {} /\ archived = {}
    /\ failures = 0 /\ closed = TRUE /\ remaining = 0 /\ quiet = Cooldown
    /\ catalog = [t \in Traces |-> NoRow]
    /\ pc = [x \in Exports |-> "unsent"]
    /\ req = [x \in Exports |-> NoReq]
    /\ hooks = {} /\ evaluated = [t \in Traces |-> NoFile]
    /\ resends = 0 /\ s3Faults = 0 /\ faults = 0 /\ crashes = 0

Busy(x) == pc[x] \in {"write", "get", "commit"}

\* The request of x awaits at step with the local variables r; it is answered.
At(x, step, r) == pc' = [pc EXCEPT ![x] = step] /\ req' = [req EXCEPT ![x] = r]
Answer(x, status) == At(x, status, [NoReq EXCEPT !.send = req[x].send])
-------------------------------------------------------------------------------
(* The blob store.                                                         *)

\* Mutant: an open circuit never closes.
Available_Never == closed

\* _s3_is_available, which closes a circuit whose cool-down has passed.
Available == closed \/ remaining = 0

\* The count after _s3_is_available.
Failures == IF closed THEN failures ELSE 0

ArchiveWritten(f) ==
    /\ archived' = archived \cup {f}
    /\ failures' = 0 /\ closed' = TRUE /\ remaining' = 0
    /\ UNCHANGED <<quiet, s3Faults>>

ArchiveFailed ==
    /\ s3Faults < MaxS3Faults /\ s3Faults' = s3Faults + 1
    /\ failures' = Failures + 1
    /\ closed' = (failures' < Threshold)
    /\ remaining' = IF closed' THEN 0 ELSE Cooldown
    /\ quiet' = 0
    /\ UNCHANGED archived

\* A failed archive write is recorded and never fails the export.
Archive(f) ==
    \/ Available /\ (ArchiveWritten(f) \/ ArchiveFailed)
    \/ ~Available /\ UNCHANGED <<archived, breaker, s3Faults>>
-------------------------------------------------------------------------------
(* One export.                                                             *)

\* A client sends an export, or sends it again when the answer was an error or
\* got lost.
Send(x) ==
    /\ ~Busy(x)
    /\ IF pc[x] = "unsent" THEN UNCHANGED resends
       ELSE resends < MaxResends /\ resends' = resends + 1
    /\ At(x, "write", [NoReq EXCEPT !.send = req[x].send + 1, !.left = TracesIn(x)])
    /\ UNCHANGED <<blob, catalog, auto, s3Faults, faults, crashes>>

\* Mutant: what reached the archive is not kept locally.
Write_ArchiveOnly(x) ==
    /\ pc[x] = "write"
    /\ \E t \in req[x].left :
          LET f == [export |-> x, send |-> req[x].send, trace |-> t]
          IN /\ Archive(f)
             /\ onDisk' = IF f \in archived' THEN onDisk ELSE onDisk \cup {f}
             /\ At(x, "get", [req[x] EXCEPT !.file = f])
    /\ UNCHANGED <<catalog, auto, resends, faults, crashes>>

Write(x) ==
    /\ pc[x] = "write"
    /\ \E t \in req[x].left :
          LET f == [export |-> x, send |-> req[x].send, trace |-> t]
          IN /\ onDisk' = onDisk \cup {f}
             /\ Archive(f)
             /\ At(x, "get", [req[x] EXCEPT !.file = f])
    /\ UNCHANGED <<catalog, auto, resends, faults, crashes>>

\* upsert_trace loads the row.
Get(x) ==
    /\ pc[x] = "get"
    /\ At(x, "commit", [req[x] EXCEPT !.row = catalog[req[x].file.trace]])
    /\ UNCHANGED <<blob, catalog, auto, bounds>>

\* Mutant: the times of the batch replace those of the row.
Merge_Replaces(row, f) ==
    LET b == Batch(f.export, f.trace)
    IN [start |-> Min({StartOf[s] : s \in b}),
        count |-> Max({row.count, Cardinality(b)}),
        batch |-> f]

\* started_at and span_count keep their extremes, batch_relpath is the last one.
Merge(row, f) ==
    LET b == Batch(f.export, f.trace)
    IN [start |-> IF row = NoRow THEN Min({StartOf[s] : s \in b})
                  ELSE Min({row.start} \cup {StartOf[s] : s \in b}),
        count |-> Max({row.count, Cardinality(b)}),
        batch |-> f]

\* The UPDATE sets the columns whose value differs from the row as loaded.
Updated(row, read, new) ==
    [k \in DOMAIN new |-> IF new[k] = read[k] THEN row[k] ELSE new[k]]

\* A row inserted since the load makes the INSERT fail.
Duplicate(x) == req[x].row = NoRow /\ catalog[req[x].file.trace] # NoRow

\* Mutant: only a new row is handed to the hooks.
Commit_HooksNew(x) ==
    /\ pc[x] = "commit" /\ ~Duplicate(x)
    /\ LET r == req[x]  t == r.file.trace  new == Merge(r.row, r.file)
       IN /\ catalog' = [catalog EXCEPT ![t] = IF r.row = NoRow THEN new
                                               ELSE Updated(@, r.row, new)]
          /\ hooks' = IF r.row = NoRow THEN hooks \cup {r.file} ELSE hooks
          /\ IF r.left = {t} THEN Answer(x, "ok")
             ELSE At(x, "write", [r EXCEPT !.left = @ \ {t}])
    /\ UNCHANGED <<blob, evaluated, bounds>>

\* After a trace: its hook is dispatched, and the next trace is written.
Commit(x) ==
    /\ pc[x] = "commit" /\ ~Duplicate(x)
    /\ LET r == req[x]  t == r.file.trace  new == Merge(r.row, r.file)
       IN /\ catalog' = [catalog EXCEPT ![t] = IF r.row = NoRow THEN new
                                               ELSE Updated(@, r.row, new)]
          /\ hooks' = hooks \cup {r.file}
          /\ IF r.left = {t} THEN Answer(x, "ok")
             ELSE At(x, "write", [r EXCEPT !.left = @ \ {t}])
    /\ UNCHANGED <<blob, evaluated, bounds>>

\* Mutant: a trace that cannot be stored is skipped and the export answered 200.
IngestRaises_Skips(x) ==
    /\ Busy(x)
    /\ \/ faults < MaxFaults /\ faults' = faults + 1
       \/ pc[x] = "commit" /\ Duplicate(x) /\ UNCHANGED faults
    /\ Answer(x, "ok")
    /\ UNCHANGED <<blob, catalog, auto, resends, s3Faults, crashes>>

\* The disk or the database raises, the row is a duplicate: the request is
\* answered 500; the traces before this one stay.
IngestRaises(x) ==
    /\ Busy(x)
    /\ \/ faults < MaxFaults /\ faults' = faults + 1
       \/ pc[x] = "commit" /\ Duplicate(x) /\ UNCHANGED faults
    /\ Answer(x, "error")
    /\ UNCHANGED <<blob, catalog, auto, resends, s3Faults, crashes>>
-------------------------------------------------------------------------------
(* The auto-rule trigger.                                                  *)

\* Resolving the service or listing the profiles raises: logged, and dropped.
HookRaises(f) ==
    /\ f \in hooks /\ hooks' = hooks \ {f}
    /\ faults < MaxFaults /\ faults' = faults + 1
    /\ UNCHANGED <<blob, catalog, pc, req, evaluated, resends, s3Faults, crashes>>

\* A hook gets the lock, in the order in which the services were resolved, and
\* the run reads the trace as the catalog describes it by then.
AutoRun(f) ==
    /\ f \in hooks /\ hooks' = hooks \ {f}
    /\ evaluated' = [evaluated EXCEPT ![f.trace] = catalog[f.trace].batch]
    /\ UNCHANGED <<blob, catalog, pc, req, bounds>>
-------------------------------------------------------------------------------
Tick ==
    /\ quiet < Cooldown
    /\ quiet' = quiet + 1
    /\ remaining' = Max({remaining - 1, 0})
    /\ UNCHANGED <<onDisk, archived, failures, closed, catalog, pc, req, auto, bounds>>

\* The process restarts: files and rows stay, requests, hooks and breaker go.
Crash ==
    /\ crashes < MaxCrashes /\ crashes' = crashes + 1
    /\ failures' = 0 /\ closed' = TRUE /\ remaining' = 0
    /\ pc' = [x \in Exports |-> IF Busy(x) THEN "error" ELSE pc[x]]
    /\ req' = [x \in Exports |-> [NoReq EXCEPT !.send = req[x].send]]
    /\ hooks' = {}
    /\ UNCHANGED <<onDisk, archived, quiet, catalog, evaluated, resends, s3Faults, faults>>

Next ==
    \/ \E x \in Exports : Send(x) \/ Write(x) \/ Get(x) \/ Commit(x) \/ IngestRaises(x)
    \/ \E f \in hooks : HookRaises(f) \/ AutoRun(f)
    \/ Tick \/ Crash

Spec == Init /\ [][Next]_vars
-------------------------------------------------------------------------------
(* Properties.                                                             *)

RowType == [start : {StartOf[s] : s \in Spans}, count : 1..Cardinality(Spans), batch : File]
ReqType == [send : 0..MaxResends + 1, left : SUBSET Traces, file : File \cup {NoFile},
            row : RowType \cup {NoRow}]

TypeOK ==
    /\ onDisk \subseteq File /\ archived \subseteq onDisk
    /\ failures \in Nat /\ closed \in BOOLEAN
    /\ remaining \in 0..Cooldown /\ quiet \in 0..Cooldown
    /\ catalog \in [Traces -> RowType \cup {NoRow}]
    /\ pc \in [Exports -> {"unsent", "write", "get", "commit", "ok", "error"}]
    /\ req \in [Exports -> ReqType]
    /\ hooks \subseteq File /\ evaluated \in [Traces -> File \cup {NoFile}]
    /\ {resends, s3Faults, faults, crashes} \subseteq Nat

Rows == {t \in Traces : catalog[t] # NoRow}

\* An export answered 200 has every trace of it on disk and in the catalog,
\* whatever raised, raced or restarted before.
AcknowledgedLands ==
    \A x \in Exports : pc[x] = "ok" =>
        TracesIn(x) \subseteq Rows \cap {f.trace : f \in {g \in onDisk : g.export = x}}

\* The row of a trace points to a file that is on disk, and that holds spans of
\* this very trace.
RowIsReadable ==
    \A t \in Rows : catalog[t].batch \in onDisk /\ catalog[t].batch.trace = t

\* Sending an export again, or in parallel with another one, never makes a
\* trace look larger or older than the exports say.
NeverInflated ==
    \A t \in Rows :
        LET all == {s \in UNION {Carries[x] : x \in Exports} : TraceOf[s] = t}
        IN /\ catalog[t].count <= Cardinality(all)
           /\ catalog[t].start >= Min({StartOf[s] : s \in all})

\* An upsert only widens the row, unless it changed after the upsert had loaded it.
WidensRows ==
    \A t \in Rows :
        \/ /\ catalog'[t].start <= catalog[t].start
           /\ catalog'[t].count >= catalog[t].count
        \/ \E x \in Exports : pc[x] = "commit" /\ pc'[x] # "commit"
                              /\ req[x].file.trace = t /\ req[x].row # catalog[t]

\* A row grows towards its trace: it stays within what the exports carry, and
\* upserts only widen it.
RowsWiden == []NeverInflated /\ [][WidensRows]_vars

\* The archive misses a batch only when its write failed or another one did
\* within the last cool-down: the circuit never stays open by itself.
GapsOnlyAfterFailure ==
    [][\A f \in onDisk' \ onDisk : f \in archived' \/ quiet' < Cooldown]_vars

\* The batch a row points to has been read by an automatic run, or will be by a
\* hook under way; each hook that raised loses at most one trace.
LatestIsEvaluated ==
    LET missed == {t \in Rows : /\ catalog[t].batch # evaluated[t]
                                /\ \A f \in hooks : f.trace # t}
    IN crashes = 0 => Cardinality(missed) <= faults

===============================================================================
