----------------------------- MODULE StorageProofs -----------------------------
(***************************************************************************)
(* Proofs about Storage for every set of traces, settings and environments *)
(* and every value of the bounds.                                          *)
(***************************************************************************)
EXTENDS Storage, TLAPS

FilesOf(t) == {f \in files : f.trace = t}
RowsOf(t)  == {r \in rows : r.trace = t}
Sources(t) == {f \in Ndjson : f.trace = t}

\* The migration is past the reading of t's file and not yet done with it.
InHand(t) == cli.step \in {"write", "finish", "unlink"} /\ cli.at = t

\* Somebody who looks for t in a place finds all of it.
Readable(t, place, format) ==
    \E f \in files : f.place = place /\ f.trace = t /\ f.state = "whole"
                        /\ (f.format = format \/ f.format = "parquet")

\* What is in hand is a trace.
HandInv == cli.step \in {"write", "finish", "unlink"} => cli.at \in Traces

\* A reset has the data to itself, and takes the rows before the files.
CommandInv ==
    /\ cli.cmd = "none" <=> cli.step = ""
    /\ cli.cmd = "reset" <=> cli.step \in {"catalog", "blob"}
    /\ cli.cmd = "reset" => proc = "down" /\ wiped
    /\ cli.step = "blob" => \A r \in rows : r.db # "catalog"

\* Where the export of t stands, and what there is of it.
ExportInv(t) ==
    /\ work[t] \in {"open", "written"} => proc = "up"
    /\ work[t] = "new" => FilesOf(t) = {} /\ ~InHand(t)
    /\ work[t] \in {"new", "open", "written"} => RowsOf(t) = {}
    /\ work[t] = "open" => /\ \A f \in Sources(t) : f.state # "whole"
                           /\ InHand(t) => ~cli.whole
                           /\ active.place \notin Clouds /\ InStore(t) = {} => t \in raced
    /\ work[t] = "written" => t \in raced \/ Readable(t, active.place, active.format)

\* What the migration lists was written as a source and by nobody as a table.
SourceInv(t) ==
    Sources(t) # {} \/ InHand(t) =>
        /\ \A r \in RowsOf(t) : r.place = "blob" /\ r.format = "jsonl"
        /\ work[t] \in {"open", "written"} => active.place = "blob" /\ active.format = "jsonl"

\* The source stays until the table is whole.
TableInv(t) ==
    InHand(t) =>
        /\ ~cli.whole => t \in raced
        /\ cli.whole /\ cli.step # "unlink" => File("blob", t, "jsonl", "whole") \in files
        /\ cli.step = "unlink" => File("blob", t, "parquet", IF cli.whole THEN "whole" ELSE "part") \in files

TraceInv(t) == ExportInv(t) /\ SourceInv(t) /\ TableInv(t)

RowInv(r) ==
    \/ r.trace \in raced
    \/ wiped /\ r.db # "catalog" /\ r.place = "blob"
    \/ Readable(r.trace, r.place, r.format)

IInv ==
    /\ TypeOK /\ HandInv
    /\ CommandInv
    /\ \A t \in Traces : TraceInv(t)
    /\ \A r \in rows : RowInv(r)
--------------------------------------------------------------------------------
\* What is written is a file.
LEMMA Batches ==
    ASSUME NEW t \in Traces, NEW place \in Places, NEW format \in Formats, NEW state \in {"part", "torn", "whole"}
    PROVE  File(place, t, format, state) \in FileType
BY DEF File, FileType

\* The server works in a place, with a catalog and a format.
LEMMA InUse == ASSUME TypeOK PROVE /\ active.place \in Places /\ active.db \in Catalogs /\ active.format \in Formats
BY DEF TypeOK, ServerType

\* The fields of a command, after it picked a file and after it went on.
LEMMA CommandFields ==
    ASSUME TypeOK
    PROVE  /\ cli.whole \in BOOLEAN /\ cli.at \in Traces \cup {None}
           /\ \A t, whole, step : Pick(t, whole, step) => cli'.at = t /\ cli'.step = step /\ cli'.whole = whole /\ cli'.cmd = cli.cmd
           /\ \A t, failed : Onward(t, failed) => cli'.step = "pick" /\ cli'.cmd = cli.cmd
BY DEF CommandType, TypeOK, Pick, Onward

\* The names of the default place and of the table format.
LEMMA Spelled == "blob" \in Places /\ "parquet" \in Formats
BY DEF Places, Formats

\* No command is at no step.
LEMMA Idle == NoCommand.cmd = "none" /\ NoCommand.step = ""
BY DEF NoCommand

\* A command keeps its type.
LEMMA Commands ==
    ASSUME TypeOK
    PROVE  /\ NoCommand \in CommandType /\ cli.at \in Traces \cup {None}
           /\ \A t \in Traces, whole \in BOOLEAN : Pick(t, whole, "write") => cli' \in CommandType
           /\ \A t \in Traces, whole \in BOOLEAN : Pick(t, whole, "unlink") => cli' \in CommandType
           /\ \A t \in Traces \cup {None}, failed \in BOOLEAN : Onward(t, failed) => cli' \in CommandType
<1>1. NoCommand \in CommandType /\ cli.at \in Traces \cup {None}
    BY DEF NoCommand, CommandType, TypeOK
<1>2. ASSUME NEW t \in Traces, NEW whole \in BOOLEAN, NEW step \in {"write", "unlink"}, Pick(t, whole, step)
      PROVE  cli' \in CommandType
    BY <1>2 DEF Pick, CommandType, TypeOK
<1>3. ASSUME NEW t \in Traces \cup {None}, NEW failed \in BOOLEAN, Onward(t, failed)
      PROVE  cli' \in CommandType
  <2>1. cli.left \ {t} \in SUBSET Traces /\ (cli.failed \/ failed) \in BOOLEAN
      BY DEF CommandType, TypeOK
  <2>q. QED
      BY <1>3, <2>1 DEF Onward, CommandType, TypeOK
<1>q. QED
    BY <1>1, <1>2, <1>3

\* Every step keeps the types.
LEMMA Typed == Spec => [](TypeOK /\ HandInv)
<1>1. Init => TypeOK /\ HandInv
  <2> SUFFICES ASSUME Init PROVE TypeOK /\ HandInv
      OBVIOUS
  <2>1. saved \in Settings
    <3>1. Untouched \in Settings
        BY DEF Untouched, Settings
    <3>q. QED
        BY <3>1, InputsAssumption DEF Init
  <2>2. NoServer \in ServerType
      BY DEF NoServer, ServerType, Clouds, Places, Catalogs, Formats
  <2>3. NoCommand \in CommandType
      BY DEF NoCommand, CommandType
  <2>4. env \in Environment /\ work \in [Traces -> {"new", "open", "written", "done", "lost"}]
      BY InputsAssumption DEF Init
  <2>5. /\ proc = "down" /\ active = NoServer /\ cli = NoCommand /\ seeded = {} /\ rows = {} /\ files = {}
        /\ boots = 0 /\ saves = 0 /\ jobs = 0 /\ faults = 0 /\ wiped \in BOOLEAN /\ raced = {}
      BY DEF Init
  <2>q. QED
    <3>1. NoCommand.step = ""
        BY DEF NoCommand
    <3>2. HandInv
        BY <2>5, <3>1 DEF HandInv
    <3>3. {boots, saves, jobs, faults} \subseteq Nat /\ wiped \in BOOLEAN /\ raced \subseteq Traces
        BY <2>5
    <3>4. /\ proc \in {"down", "boot", "up"} /\ env \in Environment /\ active \in ServerType
          /\ seeded \subseteq Catalogs /\ rows \subseteq RowType /\ files \subseteq FileType
          /\ cli \in CommandType
        BY <2>2, <2>3, <2>4, <2>5
    <3>q. QED
        BY <2>1, <2>4, <3>2, <3>3, <3>4 DEF TypeOK
<1>2. TypeOK /\ HandInv /\ [Next]_vars => TypeOK' /\ HandInv'
  <2> SUFFICES ASSUME TypeOK, HandInv, [Next]_vars PROVE TypeOK' /\ HandInv'
      OBVIOUS
  <2> USE DEF TypeOK, HandInv, settings, server, data, command
  <2>1. CASE UNCHANGED vars
      BY <2>1 DEF vars
  <2>2. ASSUME NEW cfg \in Forms, SaveStorage(cfg) PROVE TypeOK' /\ HandInv'
      BY <2>2, InputsAssumption DEF SaveStorage
  <2>3. ASSUME NEW e \in Envs, Boot(e) PROVE TypeOK' /\ HandInv'
    <3>1. e \in Environment
        BY InputsAssumption
    <3>2. Effective(saved, e) \in ServerType
        BY <3>1 DEF Effective, Chooses, Url, StoreFormat, UsesDuckDB, ServerType, Settings, Environment, Clouds, Places,
            Catalogs, Formats
    <3>3. boots' \in Nat
        BY <2>3, BoundsAssumption DEF Boot
    <3>q. QED
        BY <2>3, <3>1, <3>2, <3>3 DEF Boot
  <2>4. CASE EnsureDefaultOrg
      BY <2>4, InUse DEF EnsureDefaultOrg
  <2>5. CASE Stop
      BY <2>5 DEF Stop, Stopped
  <2>6. ASSUME NEW t \in Traces, OpenBatch(t) PROVE TypeOK' /\ HandInv'
      BY <2>6, Batches, InUse DEF OpenBatch
  <2>7. ASSUME NEW t \in Traces, CloseBatch(t) PROVE TypeOK' /\ HandInv'
      BY <2>7, Batches, InUse DEF CloseBatch
  <2>8. ASSUME NEW t \in Traces, PutRow(t) PROVE TypeOK' /\ HandInv'
    <3>1. Row(active.db, t, active.place, active.format) \in RowType
        BY InUse DEF Row, RowType
    <3>q. QED
        BY <2>8, <3>1 DEF PutRow
  <2>9. ASSUME NEW t \in Traces, IngestRaises(t) PROVE TypeOK' /\ HandInv'
      BY <2>9 DEF IngestRaises, Fault
  <2>10. ASSUME NEW t \in Traces, MigrateRead(t) PROVE TypeOK' /\ HandInv'
    <3>1. cli' \in CommandType /\ HandInv'
      <4>1. \/ \E whole \in BOOLEAN : Pick(t, whole, "write")
            \/ \E failed \in BOOLEAN : Onward(t, failed)
          BY <2>10 DEF MigrateRead
      <4>2. ASSUME NEW whole \in BOOLEAN, Pick(t, whole, "write") PROVE cli' \in CommandType /\ HandInv'
          BY <4>2, Commands, CommandFields DEF Pick
      <4>3. ASSUME NEW failed \in BOOLEAN, Onward(t, failed) PROVE cli' \in CommandType /\ HandInv'
          BY <4>3, Commands, CommandFields DEF Onward
      <4>q. QED
          BY <4>1, <4>2, <4>3
    <3>2. files' \subseteq files /\ raced' \subseteq raced \cup {t}
        BY <2>10 DEF MigrateRead
    <3>q. QED
        BY <2>10, <3>1, <3>2 DEF MigrateRead
  <2>11. ASSUME NEW delete \in BOOLEAN, MigrateStart(delete) PROVE TypeOK' /\ HandInv'
    <3>1. {f.trace : f \in Ndjson} \in SUBSET Traces
        BY DEF Ndjson, FileType
    <3>2. cli' \in CommandType
        BY <2>11, <3>1 DEF MigrateStart, NoCommand, CommandType
    <3>q. QED
        BY <2>11, <3>2 DEF MigrateStart
  <2>12. CASE MigrateWrite
    <3>1. files' \subseteq FileType
        BY <2>12, Batches, Spelled DEF MigrateWrite
    <3>2. cli' = [cli EXCEPT !.step = "finish"] /\ cli.step = "write"
        BY <2>12 DEF MigrateWrite
    <3>3. cli' \in CommandType /\ HandInv'
        BY <3>2 DEF CommandType
    <3>q. QED
        BY <2>12, <3>1, <3>3 DEF MigrateWrite
  <2>13. CASE MigrateFinish
    <3>1. files' \subseteq FileType
        BY <2>13, Batches, Spelled DEF MigrateFinish
    <3>2. cli' \in CommandType /\ HandInv'
      <4>1. cli.at \in Traces /\ cli.whole \in BOOLEAN
          BY <2>13, CommandFields DEF MigrateFinish
      <4>2. Pick(cli.at, cli.whole, "unlink") \/ Onward(cli.at, FALSE)
          BY <2>13 DEF MigrateFinish
      <4>3. CASE Pick(cli.at, cli.whole, "unlink")
          BY <4>1, <4>3, Commands, CommandFields DEF Pick
      <4>4. CASE Onward(cli.at, FALSE)
          BY <4>1, <4>4, Commands, CommandFields DEF Onward
      <4>q. QED
          BY <4>2, <4>3, <4>4
    <3>q. QED
        BY <2>13, <3>1, <3>2 DEF MigrateFinish
  <2>14. ASSUME NEW failed \in BOOLEAN, Onward(cli.at, failed), files' \subseteq files,
                UNCHANGED <<settings, server, seeded, rows, work, jobs, wiped, raced>>, faults' \in Nat
         PROVE  TypeOK' /\ HandInv'
    <3>1. cli' \in CommandType /\ HandInv'
        BY <2>14, Commands, CommandFields DEF Onward
    <3>q. QED
        BY <2>14, <3>1
  <2>15. CASE MigrateUnlink
    <3>1. Onward(cli.at, FALSE) /\ files' \subseteq files
        BY <2>15 DEF MigrateUnlink
    <3>q. QED
        BY <2>14, <2>15, <3>1 DEF MigrateUnlink
  <2>16. CASE MigrateRaises
    <3>0. faults \in Nat
        OBVIOUS
    <3>1. Onward(cli.at, TRUE) /\ UNCHANGED <<settings, server, data, work, jobs, wiped, raced>>
        BY <2>16 DEF MigrateRaises
    <3>2. files' \subseteq files /\ faults' \in Nat
        BY <2>16, <3>0, <3>1 DEF MigrateRaises, Fault
    <3>q. QED
        BY <2>14, <3>1, <3>2 DEF server
  <2>17. CASE MigrateEnd \/ CommandEnds
    <3>1. cli' = NoCommand /\ NoCommand.step = ""
        BY <2>17 DEF MigrateEnd, CommandEnds, NoCommand
    <3>2. UNCHANGED <<settings, server, data, work, jobs, wiped, raced>> /\ faults' \in Nat
        BY <2>17 DEF MigrateEnd, CommandEnds, Fault
    <3>q. QED
        BY <3>1, <3>2, Commands
  <2>18. CASE ResetStart
    <3>1. cli' \in CommandType /\ HandInv'
        BY <2>18 DEF ResetStart, NoCommand, CommandType
    <3>q. QED
        BY <2>18, <3>1 DEF ResetStart, Stopped
  <2>19. CASE RemoveCatalog
    <3>1. cli' \in CommandType /\ HandInv'
        BY <2>19 DEF RemoveCatalog, CommandType
    <3>q. QED
        BY <2>19, <3>1 DEF RemoveCatalog
  <2>20. CASE RemoveBlob
      BY <2>20, Commands DEF RemoveBlob, NoCommand
  <2>q. QED
      BY <2>1, <2>2, <2>3, <2>4, <2>5, <2>6, <2>7, <2>8, <2>9, <2>10, <2>11, <2>12, <2>13, <2>14, <2>15,
         <2>16, <2>17, <2>18, <2>19, <2>20 DEF Next
<1>q. QED
    BY <1>1, <1>2, PTL DEF Spec

\* The variables keep their types: whatever is saved, the server works in a place
\* and a catalog there are, and a command stands at one of its steps.
THEOREM TypeCorrect == Spec => []TypeOK
BY Typed, PTL
--------------------------------------------------------------------------------
(* What a step leaves alone.                                                *)

\* With the files of a trace the same, its data is found as before.
LEMMA SameFiles ==
    ASSUME NEW t, FilesOf(t)' = FilesOf(t)
    PROVE  /\ Sources(t)' = Sources(t)
           /\ \A place, format : Readable(t, place, format)' <=> Readable(t, place, format)
           /\ \A place, format, state : File(place, t, format, state) \in files' <=> File(place, t, format, state) \in files
           /\ UNCHANGED active => InStore(t)' = InStore(t)
<1>1. \A f : f.trace = t => (f \in files' <=> f \in files)
    BY DEF FilesOf
<1>2. Sources(t)' = Sources(t)
    BY <1>1 DEF Sources, Ndjson
<1>3. \A place, format : Readable(t, place, format)' <=> Readable(t, place, format)
    BY <1>1 DEF Readable
<1>4. \A place, format, state : File(place, t, format, state) \in files' <=> File(place, t, format, state) \in files
    BY <1>1 DEF File
<1>5. UNCHANGED active => InStore(t)' = InStore(t)
    BY <1>1 DEF InStore
<1>q. QED
    BY <1>2, <1>3, <1>4, <1>5

\* What is known of a trace lasts while a step leaves its files, rows and export alone.
LEMMA Aside ==
    ASSUME NEW t \in Traces, TraceInv(t),
           work'[t] = work[t] \/ work'[t] = "lost",
           FilesOf(t)' = FilesOf(t), RowsOf(t)' \subseteq RowsOf(t), t \in raced => t \in raced',
           work'[t] \in {"open", "written"} => UNCHANGED <<proc, active>>,
           cli' = cli \/ ~InHand(t)'
    PROVE  TraceInv(t)'
<1>1. /\ Sources(t)' = Sources(t)
      /\ \A place, format : Readable(t, place, format)' <=> Readable(t, place, format)
      /\ \A place, format, state : File(place, t, format, state) \in files' <=> File(place, t, format, state) \in files
      /\ UNCHANGED active => InStore(t)' = InStore(t)
    BY SameFiles
<1>2. cli' = cli => InHand(t)' = InHand(t)
    BY DEF InHand
<1>3. ExportInv(t)'
    BY <1>1, <1>2 DEF TraceInv, ExportInv
<1>4. SourceInv(t)'
    BY <1>1, <1>2 DEF TraceInv, SourceInv
<1>5. TableInv(t)'
    BY <1>1, <1>2 DEF TraceInv, TableInv
<1>q. QED
    BY <1>3, <1>4, <1>5 DEF TraceInv

\* A row finds its spans as long as the files of its trace are left alone.
LEMMA RowAside ==
    ASSUME NEW r, RowInv(r), FilesOf(r.trace)' = FilesOf(r.trace), wiped => wiped',
           r.trace \in raced => r.trace \in raced'
    PROVE  RowInv(r)'
BY SameFiles DEF RowInv

\* A step that writes no file and adds no row keeps everything of the data.
LEMMA Quiet ==
    ASSUME IInv, files' = files, rows' \subseteq rows, raced' = raced, wiped => wiped',
           \A t \in Traces : work'[t] = work[t] \/ work'[t] = "lost",
           (\E t \in Traces : work'[t] \in {"open", "written"}) => UNCHANGED <<proc, active>>,
           cli' = cli \/ cli'.step \notin {"write", "finish", "unlink"}
    PROVE  (\A t \in Traces : TraceInv(t)') /\ (\A r \in rows' : RowInv(r)')
<1>1. \A t : FilesOf(t)' = FilesOf(t) /\ RowsOf(t)' \subseteq RowsOf(t)
    BY DEF FilesOf, RowsOf
<1>2. \A t \in Traces : cli' = cli \/ ~InHand(t)'
    BY DEF InHand
<1>3. ASSUME NEW t \in Traces PROVE TraceInv(t)'
  <2>1. TraceInv(t) /\ (work'[t] \in {"open", "written"} => UNCHANGED <<proc, active>>)
      BY DEF IInv
  <2>q. QED
      BY <1>1, <1>2, <2>1, Aside
<1>4. ASSUME NEW r \in rows' PROVE RowInv(r)'
  <2>1. RowInv(r)
      BY DEF IInv
  <2>q. QED
      BY <1>1, <2>1, RowAside
<1>q. QED
    BY <1>3, <1>4

\* Only one trace is concerned.
LEMMA Others ==
    ASSUME IInv, NEW u \in Traces, TraceInv(u)', \A r \in RowsOf(u)' : RowInv(r)',
           \A f : f.trace # u => (f \in files' <=> f \in files),
           \A r \in rows' : r.trace # u => r \in rows,
           \A t \in Traces \ {u} : work'[t] = work[t] /\ (t \in raced => t \in raced') /\ (cli' = cli \/ ~InHand(t)'),
           UNCHANGED <<proc, active, wiped>>, rows' \subseteq RowType
    PROVE  (\A t \in Traces : TraceInv(t)') /\ (\A r \in rows' : RowInv(r)')
<1>1. \A t : t # u => FilesOf(t)' = FilesOf(t) /\ RowsOf(t)' \subseteq RowsOf(t)
    BY DEF FilesOf, RowsOf
<1>2. ASSUME NEW t \in Traces, t # u PROVE TraceInv(t)'
  <2>1. TraceInv(t) /\ FilesOf(t)' = FilesOf(t) /\ RowsOf(t)' \subseteq RowsOf(t)
      BY <1>1, <1>2 DEF IInv
  <2>q. QED
      BY <1>2, <2>1, Aside
<1>3. ASSUME NEW r \in rows', r.trace # u PROVE RowInv(r)'
  <2>1. RowInv(r) /\ FilesOf(r.trace)' = FilesOf(r.trace) /\ r.trace \in Traces
      BY <1>1, <1>3 DEF IInv, RowType
  <2>q. QED
      BY <1>3, <2>1, RowAside
<1>4. ASSUME NEW r \in rows', r.trace = u PROVE RowInv(r)'
    BY <1>4 DEF RowsOf
<1>q. QED
    BY <1>2, <1>3, <1>4
--------------------------------------------------------------------------------
(* The export of one trace.                                                 *)

\* Rows have their type.
LEMMA RowTyped == ASSUME TypeOK' PROVE rows' \subseteq RowType
BY DEF TypeOK

\* Creating a batch file adds a file without spans.
LEMMA Opens ==
    ASSUME IInv, TypeOK', NEW t \in Traces, OpenBatch(t)
    PROVE  (\A u \in Traces : TraceInv(u)') /\ (\A r \in rows' : RowInv(r)')
<1>1. /\ proc = "up" /\ work[t] = "new" /\ work' = [work EXCEPT ![t] = "open"]
      /\ UNCHANGED <<proc, active, rows, cli, wiped, raced>>
    BY DEF OpenBatch, server, command
<1> DEFINE part == File(active.place, t, active.format, "part")
<1>2. files' = files \cup {part} \/ (active.place \in Clouds /\ files' = files)
    BY DEF OpenBatch
<1>3. FilesOf(t) = {} /\ RowsOf(t) = {} /\ ~InHand(t) /\ work \in [Traces -> {"new", "open", "written", "done", "lost"}]
    BY <1>1 DEF IInv, TraceInv, ExportInv, TypeOK
<1>4. part.trace = t /\ part.place = active.place /\ part.format = active.format /\ part.state = "part"
    BY DEF File
<1> HIDE DEF part
<1>5. RowsOf(t)' = {} /\ ~InHand(t)' /\ work'[t] = "open"
    BY <1>1, <1>3 DEF RowsOf, InHand
<1>6. \A f \in FilesOf(t)' : f = part
    BY <1>2, <1>3 DEF FilesOf
<1>7. active.place \notin Clouds => part \in InStore(t)'
    BY <1>1, <1>2, <1>4 DEF InStore
<1>8. \A f \in Sources(t)' : f = part /\ active.place = "blob" /\ active.format = "jsonl"
    BY <1>4, <1>6 DEF Sources, Ndjson, FilesOf
<1>9. ExportInv(t)'
    BY <1>1, <1>4, <1>5, <1>7, <1>8 DEF ExportInv
<1>10. TraceInv(t)'
    BY <1>1, <1>5, <1>8, <1>9 DEF TraceInv, SourceInv, TableInv
<1>q. QED
    BY <1>1, <1>2, <1>3, <1>4, <1>5, <1>10, Others, RowTyped

\* Filling it makes its spans readable.
LEMMA Closes ==
    ASSUME IInv, TypeOK', NEW t \in Traces, CloseBatch(t)
    PROVE  (\A u \in Traces : TraceInv(u)') /\ (\A r \in rows' : RowInv(r)')
<1>1. /\ proc = "up" /\ work[t] = "open" /\ work' = [work EXCEPT ![t] = "written"]
      /\ UNCHANGED <<proc, active, rows, cli, wiped, raced>>
    BY DEF CloseBatch, server, command
<1> DEFINE whole == File(active.place, t, active.format, "whole")
<1>2. \/ files' = (files \ InStore(t)) \cup {whole}
      \/ active.place \notin Clouds /\ InStore(t) = {} /\ files' = files
    BY DEF CloseBatch
<1>3. /\ TraceInv(t) /\ RowsOf(t) = {} /\ (InHand(t) => ~cli.whole)
      /\ active.place \notin Clouds /\ InStore(t) = {} => t \in raced
      /\ work \in [Traces -> {"new", "open", "written", "done", "lost"}]
    BY <1>1 DEF IInv, TraceInv, ExportInv, TypeOK
<1>4. whole.trace = t /\ whole.place = active.place /\ whole.format = active.format /\ whole.state = "whole"
    BY DEF File
<1>5. RowsOf(t)' = {} /\ (InHand(t)' <=> InHand(t)) /\ work'[t] = "written"
    BY <1>1, <1>3 DEF RowsOf, InHand
<1>6. t \in raced \/ whole \in files'
    BY <1>2, <1>3
<1> HIDE DEF whole
<1>7. t \in raced' \/ Readable(t, active.place, active.format)'
    BY <1>1, <1>4, <1>6 DEF Readable
<1>8. ExportInv(t)'
    BY <1>1, <1>5, <1>7 DEF ExportInv
<1>9. SourceInv(t)'
  <2>1. \A f \in Sources(t)' : f \in Sources(t) \/ f = whole
      BY <1>2 DEF Sources, Ndjson
  <2>2. \A f \in Sources(t)' : active.place = "blob" /\ active.format = "jsonl"
      BY <1>1, <1>3, <1>4, <2>1 DEF Sources, Ndjson, TraceInv, SourceInv
  <2>q. QED
      BY <1>1, <1>3, <1>5, <2>2 DEF TraceInv, SourceInv
<1>10. TableInv(t)'
  <2> SUFFICES ASSUME InHand(t) PROVE TableInv(t)'
      BY <1>5 DEF TableInv
  <2>1. ~cli.whole /\ t \in raced /\ active.format = "jsonl"
      BY <1>1, <1>3 DEF TraceInv, TableInv, SourceInv
  <2>2. cli.step = "unlink" => File("blob", t, "parquet", "part") \in files /\ File("blob", t, "parquet", "part") \notin InStore(t)
    <3>1. File("blob", t, "parquet", "part").format = "parquet"
        BY DEF File
    <3>q. QED
        BY <1>3, <2>1, <3>1 DEF TraceInv, TableInv, InStore
  <2>q. QED
      BY <1>1, <1>2, <2>1, <2>2 DEF TableInv
<1>11. TraceInv(t)'
    BY <1>8, <1>9, <1>10 DEF TraceInv
<1>12. \A f : f.trace # t => (f \in files' <=> f \in files)
    BY <1>2, <1>4 DEF InStore
<1>q. QED
    BY <1>1, <1>3, <1>5, <1>11, <1>12, Others, RowTyped

\* A row is put once its file is whole.
LEMMA Puts ==
    ASSUME IInv, TypeOK', NEW t \in Traces, PutRow(t)
    PROVE  (\A u \in Traces : TraceInv(u)') /\ (\A r \in rows' : RowInv(r)')
<1>1. /\ proc = "up" /\ work[t] = "written" /\ work' = [work EXCEPT ![t] = "done"]
      /\ UNCHANGED <<proc, active, files, cli, wiped, raced>>
    BY DEF PutRow, server, command
<1> DEFINE row == Row(active.db, t, active.place, active.format)
<1>2. rows' = rows \cup {row}
    BY DEF PutRow
<1>3. /\ TraceInv(t) /\ RowsOf(t) = {} /\ (t \in raced \/ Readable(t, active.place, active.format))
      /\ work \in [Traces -> {"new", "open", "written", "done", "lost"}]
    BY <1>1 DEF IInv, TraceInv, ExportInv, TypeOK
<1>4. row.trace = t /\ row.place = active.place /\ row.format = active.format
    BY DEF Row
<1> HIDE DEF row
<1>5. \A r \in RowsOf(t)' : r = row
    BY <1>2, <1>3 DEF RowsOf
<1>6. FilesOf(t)' = FilesOf(t) /\ (InHand(t)' <=> InHand(t)) /\ work'[t] = "done"
    BY <1>1, <1>3 DEF FilesOf, InHand
<1>7. Sources(t)' = Sources(t) /\ (\A place, format : Readable(t, place, format)' <=> Readable(t, place, format))
      /\ \A place, format, state : File(place, t, format, state) \in files' <=> File(place, t, format, state) \in files
    BY <1>6, SameFiles
<1>8. ExportInv(t)' /\ TableInv(t)'
    BY <1>1, <1>3, <1>6, <1>7 DEF ExportInv, TableInv, TraceInv
<1>9. SourceInv(t)'
    BY <1>1, <1>3, <1>4, <1>5, <1>6, <1>7 DEF SourceInv, TraceInv
<1>10. \A r \in RowsOf(t)' : RowInv(r)'
    BY <1>1, <1>3, <1>4, <1>5, <1>7 DEF RowInv
<1>11. TraceInv(t)'
    BY <1>8, <1>9 DEF TraceInv
<1>q. QED
    BY <1>1, <1>2, <1>3, <1>4, <1>10, <1>11, Others, RowTyped
--------------------------------------------------------------------------------
(* The commands.                                                            *)

\* The migration takes in hand what it read, whole unless it met a file in the making.
LEMMA Reads ==
    ASSUME IInv, TypeOK', NEW t \in Traces, MigrateRead(t)
    PROVE  (\A u \in Traces : TraceInv(u)') /\ (\A r \in rows' : RowInv(r)')
<1>1. UNCHANGED <<proc, active, rows, work, wiped>> /\ cli.step = "pick" /\ raced' \subseteq raced \cup {t} /\ raced \subseteq raced'
    BY DEF MigrateRead, server
<1>2. PICK f \in Ndjson :
        /\ f.trace = t
        /\ \/ f.state = "whole" /\ Pick(t, TRUE, "write") /\ UNCHANGED <<files, raced>>
           \/ f.state = "part" /\ Pick(t, FALSE, "write") /\ UNCHANGED files /\ t \in raced'
           \/ Onward(t, TRUE) /\ UNCHANGED <<files, raced>>
           \/ f.state = "part" /\ Onward(t, FALSE) /\ t \in raced' /\ files' \in {files, files \ {f}}
    BY DEF MigrateRead
<1>3. TraceInv(t) /\ ~InHand(t) /\ f \in Sources(t) /\ f \in FilesOf(t) /\ cli \in CommandType /\ files \subseteq FileType
    BY <1>1, <1>2 DEF IInv, InHand, Sources, FilesOf, Ndjson, TypeOK
<1>4. f.state = "whole" => f = File("blob", t, "jsonl", "whole") /\ work[t] # "open"
    BY <1>2, <1>3 DEF File, FileType, Ndjson, TraceInv, ExportInv
<1>5. work[t] # "new"
    BY <1>3 DEF TraceInv, ExportInv
<1>6. CASE \/ f.state = "whole" /\ Pick(t, TRUE, "write") /\ UNCHANGED <<files, raced>>
           \/ f.state = "part" /\ Pick(t, FALSE, "write") /\ UNCHANGED files /\ t \in raced'
  <2>1. cli'.at = t /\ cli'.step = "write" /\ (cli'.whole => f.state = "whole") /\ (~cli'.whole => t \in raced')
    <3>1. CASE f.state = "whole" /\ Pick(t, TRUE, "write")
        BY <1>3, <3>1 DEF Pick, CommandType
    <3>2. CASE Pick(t, FALSE, "write") /\ t \in raced'
        BY <1>3, <3>2 DEF Pick, CommandType
    <3>q. QED
        BY <1>6, <3>1, <3>2
  <2>2. files' = files /\ FilesOf(t)' = FilesOf(t) /\ RowsOf(t)' = RowsOf(t) /\ InHand(t)'
      BY <1>1, <1>6, <2>1 DEF FilesOf, RowsOf, InHand
  <2>3. /\ Sources(t)' = Sources(t) /\ InStore(t)' = InStore(t)
        /\ \A place, format : Readable(t, place, format)' <=> Readable(t, place, format)
      BY <1>1, <2>2, SameFiles
  <2>4. ExportInv(t)'
      BY <1>1, <1>3, <1>4, <1>5, <2>1, <2>2, <2>3 DEF ExportInv, TraceInv
  <2>5. SourceInv(t)'
      BY <1>1, <1>3, <2>2, <2>3 DEF SourceInv, TraceInv
  <2>6. TableInv(t)'
      BY <1>2, <1>4, <2>1, <2>2 DEF TableInv, Ndjson
  <2>7. TraceInv(t)' /\ \A u \in Traces \ {t} : ~InHand(u)'
      BY <2>1, <2>4, <2>5, <2>6 DEF TraceInv, InHand
  <2>8. \A r \in RowsOf(t)' : RowInv(r)'
    <3> SUFFICES ASSUME NEW r \in RowsOf(t) PROVE RowInv(r)'
        BY <2>2
    <3>1. r.trace = t /\ RowInv(r)
        BY DEF RowsOf, IInv
    <3>q. QED
        BY <1>1, <2>2, <3>1, RowAside
  <2>q. QED
      BY <1>1, <2>2, <2>7, <2>8, Others, RowTyped
<1>7. CASE Onward(t, TRUE) /\ UNCHANGED <<files, raced>>
  <2>1. cli'.step = "pick"
      BY <1>3, <1>7 DEF Onward, CommandType
  <2>q. QED
      BY <1>1, <1>7, <2>1, Quiet
<1>8. CASE f.state = "part" /\ Onward(t, FALSE) /\ t \in raced' /\ files' \in {files, files \ {f}}
  <2>1. cli'.step = "pick" /\ \A u : ~InHand(u)'
      BY <1>3, <1>8 DEF Onward, CommandType, InHand
  <2>2. Sources(t)' \subseteq Sources(t) /\ RowsOf(t)' = RowsOf(t)
      BY <1>1, <1>8 DEF Sources, Ndjson, RowsOf
  <2>3. ExportInv(t)'
      BY <1>1, <1>3, <1>5, <1>8, <2>1, <2>2 DEF ExportInv, TraceInv
  <2>4. SourceInv(t)' /\ TableInv(t)'
      BY <1>1, <1>3, <2>1, <2>2 DEF SourceInv, TableInv, TraceInv
  <2>5. TraceInv(t)' /\ \A r \in RowsOf(t)' : RowInv(r)'
      BY <1>8, <2>3, <2>4 DEF TraceInv, RowInv, RowsOf
  <2>6. \A g : g.trace # t => (g \in files' <=> g \in files)
      BY <1>2, <1>8
  <2>q. QED
      BY <1>1, <2>1, <2>5, <2>6, Others, RowTyped
<1>q. QED
    BY <1>2, <1>6, <1>7, <1>8

\* The table is begun or ended: in the meantime the source is what there is.
LEMMA Tables ==
    ASSUME IInv, TypeOK', NEW state \in {"torn", "whole", "part"}, cli.step \in {"write", "finish"},
           files' = (files \ Converted(cli.at)) \cup {File("blob", cli.at, "parquet", state)},
           UNCHANGED <<proc, active, rows, work, wiped, raced>>,
           cli'.step \in {"write", "finish", "unlink"} =>
                /\ cli'.whole = cli.whole
                /\ cli'.step = "unlink" => state = IF cli.whole THEN "whole" ELSE "part",
           \A u \in Traces : u # cli.at => ~InHand(u)'
    PROVE  (\A u \in Traces : TraceInv(u)') /\ (\A r \in rows' : RowInv(r)')
<1>1. PICK t \in Traces : t = cli.at /\ TraceInv(t) /\ InHand(t)
    BY DEF IInv, HandInv, InHand
<1> DEFINE new == File("blob", t, "parquet", state)
<1>2. new.trace = t /\ new.place = "blob" /\ new.format = "parquet"
    BY DEF File
<1>3. ~cli.whole => t \in raced
    BY <1>1 DEF TraceInv, TableInv
<1>4. cli.whole => File("blob", t, "jsonl", "whole") \in files'
  <2>1. File("blob", t, "jsonl", "whole").format = "jsonl"
      BY DEF File
  <2>q. QED
      BY <1>1, <2>1 DEF TraceInv, TableInv, Converted
<1>5. t \in raced' \/ \A format : format = "jsonl" => Readable(t, "blob", format)'
  <2>1. ASSUME NEW f, f = File("blob", t, "jsonl", "whole"), f \in files'
        PROVE  Readable(t, "blob", "jsonl")'
    <3>1. f.place = "blob" /\ f.trace = t /\ f.state = "whole" /\ f.format = "jsonl"
        BY <2>1 DEF File
    <3>q. QED
        BY <2>1, <3>1 DEF Readable
  <2>q. QED
      BY <1>3, <1>4, <2>1
<1>6. files' = (files \ Converted(t)) \cup {new}
    BY <1>1
<1> HIDE DEF new
<1>7. Sources(t)' = Sources(t) /\ RowsOf(t)' = RowsOf(t)
  <2>1. \A f : f \in Ndjson' /\ f.trace = t <=> f \in Ndjson /\ f.trace = t
      BY <1>2, <1>6 DEF Ndjson, Converted
  <2>q. QED
      BY <2>1 DEF Sources, RowsOf
<1>8. /\ work[t] # "new" /\ (work[t] = "open" => ~cli.whole) /\ (work[t] = "open" => \A f \in Sources(t) : f.state # "whole")
      /\ work[t] \in {"open", "written"} => active.place = "blob" /\ active.format = "jsonl"
      /\ \A r \in RowsOf(t) : r.place = "blob" /\ r.format = "jsonl"
      /\ work[t] \in {"open", "written"} => proc = "up" /\ RowsOf(t) = {}
    BY <1>1 DEF TraceInv, ExportInv, SourceInv
<1>9. ExportInv(t)'
    BY <1>1, <1>3, <1>5, <1>7, <1>8 DEF ExportInv, InHand
<1>10. SourceInv(t)'
    BY <1>1, <1>7, <1>8 DEF SourceInv
<1>11. TableInv(t)'
  <2>1. new = File("blob", t, "parquet", state) /\ new \in files'
      BY <1>6 DEF new
  <2>q. QED
      BY <1>1, <1>3, <1>4, <2>1 DEF TableInv, InHand
<1>12. ASSUME NEW r \in RowsOf(t)' PROVE RowInv(r)'
  <2>1. r.trace = t /\ r.place = "blob" /\ r.format = "jsonl"
      BY <1>7, <1>8 DEF RowsOf
  <2>q. QED
      BY <1>5, <2>1 DEF RowInv
<1>13. \A f : f.trace # t => (f \in files' <=> f \in files)
    BY <1>2, <1>6 DEF Converted
<1>14. TraceInv(t)' /\ t \in Traces /\ \A u \in Traces \ {t} : ~InHand(u)'
    BY <1>1, <1>9, <1>10, <1>11 DEF TraceInv
<1>q. QED
    BY <1>12, <1>13, <1>14, Others, RowTyped

\* A source is removed once its table is there.
LEMMA Unlinks ==
    ASSUME IInv, TypeOK', MigrateUnlink
    PROVE  (\A u \in Traces : TraceInv(u)') /\ (\A r \in rows' : RowInv(r)')
<1>1. /\ cli.step = "unlink" /\ cli'.step = "pick" /\ UNCHANGED <<proc, active, rows, work, wiped, raced>>
      /\ files' = {f \in files : f \notin Ndjson \/ f.trace # cli.at}
    BY CommandFields DEF MigrateUnlink, server, IInv
<1>2. PICK t \in Traces : t = cli.at /\ TraceInv(t) /\ InHand(t)
    BY <1>1 DEF IInv, HandInv, InHand
<1>3. (~cli.whole => t \in raced) /\ (cli.whole => File("blob", t, "parquet", "whole") \in files')
  <2>1. File("blob", t, "parquet", "whole").format = "parquet"
      BY DEF File
  <2>q. QED
      BY <1>1, <1>2, <2>1 DEF TraceInv, TableInv, Ndjson
<1>4. t \in raced' \/ \A format : Readable(t, "blob", format)'
  <2>1. ASSUME NEW f, f = File("blob", t, "parquet", "whole"), f \in files', NEW format
        PROVE  Readable(t, "blob", format)'
    <3>1. f.place = "blob" /\ f.trace = t /\ f.state = "whole" /\ f.format = "parquet"
        BY <2>1 DEF File
    <3>q. QED
        BY <2>1, <3>1 DEF Readable
  <2>q. QED
      BY <1>1, <1>3, <2>1
<1>5. Sources(t)' = {} /\ RowsOf(t)' = RowsOf(t) /\ \A u : ~InHand(u)'
    BY <1>1, <1>2 DEF Sources, Ndjson, RowsOf, InHand
<1>6. /\ work[t] # "new" /\ (work[t] = "open" => ~cli.whole)
      /\ work[t] \in {"open", "written"} => active.place = "blob"
      /\ \A r \in RowsOf(t) : r.place = "blob"
      /\ work[t] \in {"open", "written"} => proc = "up" /\ RowsOf(t) = {}
    BY <1>2 DEF TraceInv, ExportInv, SourceInv
<1>7. TraceInv(t)'
    BY <1>1, <1>3, <1>4, <1>5, <1>6 DEF TraceInv, ExportInv, SourceInv, TableInv
<1>8. \A r \in RowsOf(t)' : RowInv(r)'
    BY <1>4, <1>5, <1>6 DEF RowInv, RowsOf
<1>9. \A f : f.trace # t => (f \in files' <=> f \in files)
    BY <1>1, <1>2
<1>q. QED
    BY <1>1, <1>5, <1>7, <1>8, <1>9, Others, RowTyped

\* A reset removes files no row of its catalog names any more.
LEMMA Empties ==
    ASSUME IInv, RemoveBlob
    PROVE  (\A u \in Traces : TraceInv(u)') /\ (\A r \in rows' : RowInv(r)')
<1>1. /\ UNCHANGED <<proc, active, rows, work, wiped, raced>> /\ cli'.step = ""
      /\ files' = {f \in files : f.place # "blob"}
    BY DEF RemoveBlob, server, NoCommand
<1>2. proc = "down" /\ wiped /\ \A r \in rows : r.db # "catalog"
    BY DEF RemoveBlob, IInv, CommandInv
<1>3. ASSUME NEW t \in Traces PROVE TraceInv(t)'
  <2>1. TraceInv(t) /\ work[t] \notin {"open", "written"}
      BY <1>2 DEF IInv, TraceInv, ExportInv
  <2>2. ~InHand(t)' /\ Sources(t)' = {} /\ FilesOf(t)' \subseteq FilesOf(t) /\ RowsOf(t)' = RowsOf(t)
      BY <1>1 DEF InHand, Sources, Ndjson, FilesOf, RowsOf
  <2>q. QED
      BY <1>1, <2>1, <2>2 DEF TraceInv, ExportInv, SourceInv, TableInv
<1>4. ASSUME NEW r \in rows PROVE RowInv(r)'
  <2>1. RowInv(r) /\ r.db # "catalog"
      BY <1>2 DEF IInv
  <2>2. r.place # "blob" /\ Readable(r.trace, r.place, r.format) => Readable(r.trace, r.place, r.format)'
      BY <1>1 DEF Readable
  <2>q. QED
      BY <1>1, <1>2, <2>1, <2>2 DEF RowInv
<1>q. QED
    BY <1>1, <1>3, <1>4
--------------------------------------------------------------------------------
\* A command that runs keeps what it relies on.
LEMMA CommandKept == ASSUME IInv, Next PROVE CommandInv'
<1> USE DEF CommandInv, settings, server, data, command
<1>1. CommandInv /\ cli \in CommandType
    BY DEF IInv, TypeOK
<1>2. ASSUME NEW cfg \in Forms, SaveStorage(cfg) PROVE CommandInv'
    BY <1>1, <1>2 DEF SaveStorage
<1>3. ASSUME NEW e \in Envs, Boot(e) PROVE CommandInv'
    BY <1>1, <1>3 DEF Boot
<1>4. CASE EnsureDefaultOrg \/ Stop
    BY <1>1, <1>4 DEF EnsureDefaultOrg, Stop, Stopped
<1>5. ASSUME NEW t \in Traces, OpenBatch(t) \/ CloseBatch(t) \/ IngestRaises(t) PROVE CommandInv'
    BY <1>1, <1>5 DEF OpenBatch, CloseBatch, IngestRaises
<1>6. ASSUME NEW t \in Traces, PutRow(t) PROVE CommandInv'
    BY <1>1, <1>6 DEF PutRow
<1>7. ASSUME cli.step \in {"pick", "write", "finish", "unlink"}, cli'.step \in {"pick", "write", "finish", "unlink"},
             cli'.cmd = cli.cmd
      PROVE  CommandInv'
    BY <1>1, <1>7
<1>8. ASSUME NEW t \in Traces, MigrateRead(t) PROVE CommandInv'
  <2>1. /\ cli.step = "pick"
        /\ \/ \E whole \in BOOLEAN : Pick(t, whole, "write")
           \/ \E failed \in BOOLEAN : Onward(t, failed)
      BY <1>8 DEF MigrateRead
  <2>2. cli'.step \in {"write", "pick"} /\ cli'.cmd = cli.cmd
      BY <2>1, CommandFields DEF IInv
  <2>q. QED
      BY <1>7, <2>1, <2>2
<1>9. CASE MigrateWrite \/ MigrateFinish \/ MigrateUnlink \/ MigrateRaises
  <2>1. /\ cli.step \in {"write", "finish", "unlink"}
        /\ \/ cli' = [cli EXCEPT !.step = "finish"]
           \/ Pick(cli.at, cli.whole, "unlink")
           \/ \E failed \in BOOLEAN : Onward(cli.at, failed)
      BY <1>9 DEF MigrateWrite, MigrateFinish, MigrateUnlink, MigrateRaises
  <2>q. QED
      BY <1>1, <1>7, <2>1 DEF Pick, Onward, CommandType
<1>10. ASSUME NEW delete \in BOOLEAN, MigrateStart(delete) PROVE CommandInv'
    BY <1>1, <1>10 DEF MigrateStart, NoCommand
<1>11. CASE MigrateEnd \/ CommandEnds \/ RemoveBlob
  <2>1. cli' = NoCommand
      BY <1>11 DEF MigrateEnd, CommandEnds, RemoveBlob
  <2>q. QED
      BY <2>1, Idle
<1>12. CASE ResetStart
    BY <1>1, <1>12 DEF ResetStart, Stopped, NoCommand
<1>13. CASE RemoveCatalog
  <2>1. cli'.cmd = cli.cmd /\ cli'.step = "blob" /\ cli.step = "catalog" /\ \A r \in rows' : r.db # "catalog"
      BY <1>1, <1>13 DEF RemoveCatalog, CommandType
  <2>q. QED
      BY <1>1, <1>13, <2>1 DEF RemoveCatalog
<1>q. QED
    BY <1>2, <1>3, <1>4, <1>5, <1>6, <1>8, <1>9, <1>10, <1>11, <1>12, <1>13 DEF Next

\* Every step keeps what is known of the data.
LEMMA DataKept ==
    ASSUME IInv, TypeOK', Next
    PROVE  (\A t \in Traces : TraceInv(t)') /\ (\A r \in rows' : RowInv(r)')
<1> DEFINE Goal == (\A t \in Traces : TraceInv(t)') /\ (\A r \in rows' : RowInv(r)')
<1>1. TypeOK /\ (\A t \in Traces : work[t] \in {"open", "written"} => proc = "up")
    BY DEF IInv, TraceInv, ExportInv
<1>2. ASSUME NEW cfg \in Forms, SaveStorage(cfg) PROVE Goal
    BY <1>2, Quiet DEF SaveStorage, server, data, command
<1>3. ASSUME NEW e \in Envs, Boot(e) PROVE Goal
    BY <1>1, <1>3, Quiet DEF Boot, data, command
<1>4. CASE EnsureDefaultOrg
    BY <1>1, <1>4, Quiet DEF EnsureDefaultOrg, command
<1>5. CASE Stop \/ ResetStart
  <2>1. /\ Stopped /\ UNCHANGED <<active, rows, files, raced>> /\ (wiped => wiped')
        /\ cli' = cli \/ cli'.step = "catalog"
    <3>1. CASE Stop
        BY <3>1 DEF Stop, data, command
    <3>2. CASE ResetStart
        BY <3>2 DEF ResetStart, data, NoCommand
    <3>q. QED
        BY <1>5, <3>1, <3>2
  <2>2. \A t \in Traces : work'[t] \notin {"open", "written"} /\ (work'[t] = work[t] \/ work'[t] = "lost")
      BY <2>1 DEF Stopped
  <2>q. QED
      BY <2>1, <2>2, Quiet
<1>6. ASSUME NEW t \in Traces, IngestRaises(t) PROVE Goal
  <2>1. work' = [work EXCEPT ![t] = "lost"] /\ UNCHANGED <<proc, active, files, rows, cli, wiped, raced>>
      BY <1>6 DEF IngestRaises, server, data, command
  <2>2. \A u \in Traces : work'[u] = work[u] \/ work'[u] = "lost"
      BY <1>1, <2>1 DEF TypeOK
  <2>q. QED
      BY <2>1, <2>2, Quiet
<1>7. ASSUME NEW t \in Traces, OpenBatch(t) \/ CloseBatch(t) \/ PutRow(t) \/ MigrateRead(t) PROVE Goal
    BY <1>7, Opens, Closes, Puts, Reads
<1>8. ASSUME NEW delete \in BOOLEAN, MigrateStart(delete) PROVE Goal
  <2>1. cli'.step = "pick" /\ UNCHANGED <<proc, active, work, files, rows, wiped, raced>>
      BY <1>8 DEF MigrateStart, NoCommand, server, data
  <2>q. QED
      BY <2>1, Quiet
<1>9. CASE MigrateWrite
  <2>1. /\ cli.step = "write" /\ cli' = [cli EXCEPT !.step = "finish"]
        /\ files' = (files \ Converted(cli.at)) \cup {File("blob", cli.at, "parquet", "torn")}
        /\ UNCHANGED <<proc, active, rows, work, wiped, raced>>
      BY <1>9 DEF MigrateWrite, server
  <2>2. cli'.whole = cli.whole /\ cli'.at = cli.at /\ cli'.step = "finish"
      BY <1>1, <2>1 DEF TypeOK, CommandType
  <2>3. \A u \in Traces : u # cli.at => ~InHand(u)'
      BY <2>2 DEF InHand
  <2>q. QED
      BY <2>1, <2>2, <2>3, Tables
<1>10. CASE MigrateFinish
  <2>1. PICK state \in {"whole", "part"} :
          /\ state = IF cli.whole THEN "whole" ELSE "part"
          /\ files' = (files \ Converted(cli.at)) \cup {File("blob", cli.at, "parquet", state)}
      BY <1>10 DEF MigrateFinish
  <2>2. /\ cli.step = "finish" /\ (Pick(cli.at, cli.whole, "unlink") \/ Onward(cli.at, FALSE))
        /\ UNCHANGED <<proc, active, rows, work, wiped, raced>>
      BY <1>10 DEF MigrateFinish, server
  <2>3. \/ cli'.whole = cli.whole /\ cli'.at = cli.at /\ cli'.step = "unlink"
        \/ cli'.step = "pick"
      BY <1>1, <2>2, CommandFields
  <2>4. \A u \in Traces : u # cli.at => ~InHand(u)'
      BY <2>3 DEF InHand
  <2>5. cli'.step \in {"write", "finish", "unlink"} => cli'.whole = cli.whole
      BY <2>3
  <2>q. QED
      BY <2>1, <2>2, <2>4, <2>5, Tables
<1>11. CASE MigrateUnlink \/ RemoveBlob
    BY <1>11, Unlinks, Empties
<1>12. CASE MigrateRaises
  <2>1. cli'.step = "pick" /\ UNCHANGED <<proc, active, work, files, rows, wiped, raced>>
    <3>1. Onward(cli.at, TRUE) /\ UNCHANGED <<proc, active, work, files, rows, wiped, raced>>
        BY <1>12 DEF MigrateRaises, server, data
    <3>q. QED
        BY <1>1, <3>1, CommandFields
  <2>q. QED
      BY <2>1, Quiet
<1>13. CASE MigrateEnd \/ CommandEnds
  <2>1. cli'.step = "" /\ UNCHANGED <<proc, active, work, files, rows, wiped, raced>>
      BY <1>13, Idle DEF MigrateEnd, CommandEnds, server, data
  <2>q. QED
      BY <2>1, Quiet
<1>14. CASE RemoveCatalog
  <2>1. cli'.step = "blob" /\ rows' \subseteq rows /\ UNCHANGED <<proc, active, work, files, wiped, raced>>
      BY <1>1, <1>14 DEF RemoveCatalog, TypeOK, CommandType, server
  <2>q. QED
      BY <2>1, Quiet
<1>q. QED
    BY <1>2, <1>3, <1>4, <1>5, <1>6, <1>7, <1>8, <1>9, <1>10, <1>11, <1>12, <1>13, <1>14 DEF Next

\* So the invariant always holds.
LEMMA Inductive == Spec => []IInv
<1>1. Init => CommandInv /\ (\A t \in Traces : TraceInv(t)) /\ (\A r \in rows : RowInv(r))
  <2> SUFFICES ASSUME Init PROVE CommandInv /\ (\A t \in Traces : TraceInv(t)) /\ (\A r \in rows : RowInv(r))
      OBVIOUS
  <2>1. /\ cli.cmd = "none" /\ cli.step = "" /\ rows = {} /\ files = {}
        /\ \A t \in Traces : work[t] = "new"
      BY DEF Init, NoCommand
  <2>2. \A t : FilesOf(t) = {} /\ RowsOf(t) = {} /\ Sources(t) = {} /\ ~InHand(t)
      BY <2>1 DEF FilesOf, RowsOf, Sources, Ndjson, InHand
  <2>q. QED
      BY <2>1, <2>2 DEF CommandInv, TraceInv, ExportInv, SourceInv, TableInv
<1>2. IInv /\ TypeOK' /\ [Next]_vars
        => CommandInv' /\ (\A t \in Traces : TraceInv(t))' /\ (\A r \in rows : RowInv(r))'
  <2>1. CASE Next
      BY <2>1, CommandKept, DataKept
  <2>2. CASE UNCHANGED vars
    <3> SUFFICES ASSUME IInv PROVE CommandInv' /\ (\A t \in Traces : TraceInv(t))' /\ (\A r \in rows : RowInv(r))'
        BY <2>2
    <3>1. UNCHANGED <<proc, active, files, rows, work, cli, wiped, raced>>
        BY <2>2 DEF vars, settings, server, data, command
    <3>2. CommandInv'
        BY <3>1 DEF CommandInv, IInv
    <3>q. QED
        BY <3>1, <3>2, Quiet
  <2>q. QED
      BY <2>1, <2>2
<1>q. QED
    BY <1>1, <1>2, Typed, PTL DEF Spec, IInv
--------------------------------------------------------------------------------
\* The spans of every row are where they were written or in the table beside it:
\* whatever order exports, kills, failures, restarts and commands take, only a
\* migration that met a file in the making and a reset of another catalog lose any.
THEOREM RowsFindSpans == Spec => []SpansKept
<1>1. IInv => SpansKept
    BY DEF IInv, RowInv, Readable, SpansKept
<1>q. QED
    BY <1>1, Inductive, PTL

\* The banner that asks for a restart tells the truth (_is_dirty against
\* _resolve_storage) for every pair of settings and environments without a cloud, but for
\* settings that show a catalog the environment overrules.
THEOREM BannerIsTrue == Spec => []SettingsApply
<1>1. TypeOK => SettingsApply
  <2> SUFFICES ASSUME TypeOK, proc = "up", saved.provider = "local", env.provider = "local"
               PROVE  LET next == Effective(saved, env)
                          moves == next.place # active.place \/ next.db # active.db
                      IN /\ moves /\ saved.path # "" /\ Chooses(saved) => Dirty
                         /\ ~moves => (Dirty <=> Unheeded(saved, env))
      BY DEF SettingsApply
  <2>1. /\ Effective(saved, env).place = IF saved.path # "" THEN saved.path ELSE "blob"
        /\ Effective(saved, env).db = IF Chooses(saved) THEN Url(saved) ELSE env.db
      BY DEF Effective, Clouds
  <2>2. /\ saved.catalog \in {"sqlite", "postgres"} /\ saved.file \in {"", "catalog", "other"}
        /\ saved.host \in {"", "postgres", "localhost"}
      BY DEF TypeOK, Settings
  <2>3. CASE Chooses(saved)
    <3>1. saved.catalog = ProviderOf(Url(saved)) /\ (saved.catalog = "postgres" \/ saved.file # "")
        BY <2>2, <2>3 DEF Chooses, Url, ProviderOf
    <3>q. QED
        BY <2>1, <2>3, <3>1 DEF Dirty, Unheeded
  <2>4. CASE ~Chooses(saved)
    <3>1. saved.catalog = "postgres" \/ saved.file = ""
        BY <2>2, <2>4 DEF Chooses
    <3>q. QED
        BY <2>1, <2>4, <3>1, <2>2 DEF Dirty, Unheeded
  <2>q. QED
      BY <2>3, <2>4
<1>q. QED
    BY <1>1, TypeCorrect, PTL

\* A migration that goes on without a failure leaves a readable table, whatever an
\* earlier one that was killed in the middle of a table left.
THEOREM MigrationsRepair == Spec => MigrationRepairs
<1>1. IInv /\ [Next]_vars =>
        [cli.step \in {"write", "finish", "unlink"} /\ cli'.step = "pick" /\ cli'.failed = cli.failed /\ faults' = faults =>
            \E f \in files' : f.place = "blob" /\ f.trace = cli.at /\ f.format = "parquet" /\ f.state # "torn"]_vars
  <2> SUFFICES ASSUME IInv, Next, cli.step \in {"write", "finish", "unlink"}, cli'.step = "pick", faults' = faults
               PROVE  \E f \in files' : f.place = "blob" /\ f.trace = cli.at /\ f.format = "parquet" /\ f.state # "torn"
      OBVIOUS
  <2>1. ASSUME NEW state \in {"whole", "part"}, File("blob", cli.at, "parquet", state) \in files'
        PROVE  \E f \in files' : f.place = "blob" /\ f.trace = cli.at /\ f.format = "parquet" /\ f.state # "torn"
      BY <2>1 DEF File
  <2>2. cli.cmd \notin {"none", "reset"} /\ ~Fault /\ cli' # cli /\ cli \in CommandType
    <3>1. cli.cmd \notin {"none", "reset"} /\ cli \in CommandType /\ faults \in Nat
        BY DEF IInv, TypeOK, CommandInv
    <3>q. QED
        BY <3>1 DEF Fault
  <2>3. MigrateFinish \/ MigrateUnlink
    <3>1. cli.at \in Traces
        BY DEF IInv, HandInv
    <3>2. ~MigrateWrite
        BY <2>2 DEF MigrateWrite, CommandType
    <3>3. ~MigrateRaises /\ ~CommandEnds /\ \A t \in Traces : ~IngestRaises(t)
        BY <2>2 DEF MigrateRaises, CommandEnds, IngestRaises
    <3>4. ~MigrateEnd /\ ~ResetStart /\ ~RemoveCatalog /\ ~RemoveBlob /\ ~EnsureDefaultOrg /\ ~Stop
        BY <2>2 DEF MigrateEnd, ResetStart, RemoveCatalog, RemoveBlob, EnsureDefaultOrg, Stop, command
    <3>5. /\ \A cfg \in Forms : ~SaveStorage(cfg)
          /\ \A e \in Envs : ~Boot(e)
          /\ \A delete \in BOOLEAN : ~MigrateStart(delete)
        BY <2>2 DEF SaveStorage, Boot, MigrateStart, command
    <3>6. \A t \in Traces : ~OpenBatch(t) /\ ~CloseBatch(t) /\ ~PutRow(t) /\ ~MigrateRead(t)
        BY <2>2 DEF OpenBatch, CloseBatch, PutRow, MigrateRead, command
    <3>q. QED
        BY <3>2, <3>3, <3>4, <3>5, <3>6 DEF Next
  <2>4. CASE MigrateFinish
      BY <2>1, <2>4 DEF MigrateFinish
  <2>5. CASE MigrateUnlink
    <3>1. cli.step = "unlink" /\ cli.at \in Traces /\ InHand(cli.at)
        BY <2>5 DEF MigrateUnlink, IInv, HandInv, InHand
    <3>2. PICK state \in {"whole", "part"} : File("blob", cli.at, "parquet", state) \in files
        BY <3>1 DEF IInv, TraceInv, TableInv
    <3>3. File("blob", cli.at, "parquet", state).format = "parquet"
        BY DEF File
    <3>q. QED
        BY <2>1, <2>5, <3>2, <3>3 DEF MigrateUnlink, Ndjson
  <2>q. QED
      BY <2>3, <2>4, <2>5
<1>q. QED
    BY <1>1, Inductive, PTL DEF Spec, MigrationRepairs
================================================================================
