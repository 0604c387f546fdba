--------------------------- MODULE TraceIngestProofs ---------------------------
(***************************************************************************)
(* TraceIngest: what an export was acknowledged for is stored, rows point   *)
(* to what is there and only widen, the circuit closes by itself and the    *)
(* latest batch of a trace is evaluated, for any exports, spans and faults. *)
(***************************************************************************)
EXTENDS TraceIngest, FiniteSetTheorems, WellFoundedInduction, TLAPS

\* What the exports carry of a trace, and the times of spans.
All(t)   == {s \in UNION {Carries[x] : x \in Exports} : TraceOf[s] = t}
Times(S) == {StartOf[s] : s \in S}

\* The traces of an export that are on disk and in the catalog.
Landed(x) == Rows \cap {f.trace : f \in {g \in onDisk : g.export = x}}
-------------------------------------------------------------------------------
(* The inductive invariant.                                                *)

\* A row of a trace: its batch is on disk, its figures stay within the exports'.
Sound(row, t) ==
    /\ row.batch \in onDisk /\ row.batch.trace = t
    /\ row.count <= Cardinality(All(t)) /\ row.start >= Min(Times(All(t)))

CatalogInv == \A t \in Rows : Sound(catalog[t], t)

\* An export is sent once, and then again as often as the bound allows.
SendInv(x) ==
    /\ pc[x] = "unsent" => req[x].send = 0
    /\ req[x].send <= resends + 1

\* What a request has done of its export, the file it wrote, the row it read.
WorkInv(x) ==
    /\ Busy(x) =>
         /\ req[x].send > 0
         /\ req[x].left # {} /\ req[x].left \subseteq TracesIn(x)
         /\ TracesIn(x) \ req[x].left \subseteq Landed(x)
    /\ pc[x] = "ok" => TracesIn(x) \subseteq Landed(x)

FileInv(x) ==
    pc[x] \in {"get", "commit"} =>
        /\ req[x].file \in onDisk
        /\ req[x].file.export = x /\ req[x].file.trace \in req[x].left

RowInv(x) ==
    pc[x] = "commit" /\ req[x].row # NoRow =>
        /\ req[x].file.trace \in Rows
        /\ Sound(req[x].row, req[x].file.trace)

ExportInv(x) == SendInv(x) /\ WorkInv(x) /\ FileInv(x) /\ RowInv(x)

\* The cool-down of an open circuit started with the last archive write that failed.
BreakerInv == remaining <= Cooldown - quiet

IInv ==
    /\ TypeOK /\ resends <= MaxResends
    /\ CatalogInv /\ (\A x \in Exports : ExportInv(x))
    /\ BreakerInv /\ LatestIsEvaluated
-------------------------------------------------------------------------------
(* The operators.                                                          *)

\* A set of naturals has a least element.
LEMMA LeastNatural ==
    ASSUME NEW S \in SUBSET Nat, S # {}
    PROVE  \E m \in S : \A n \in S : m <= n
<1> DEFINE R == OpToRel(<, Nat)
<1>1. IsWellFoundedOn(R, Nat)
    BY NatLessThanWellFounded
<1>2. \E m \in S : \A n \in S : ~ (<<n, m>> \in R)
  <2> HIDE DEF R
  <2>q. QED
      BY <1>1, WFMin
<1>3. \A m, n \in Nat : ~ (<<n, m>> \in R) => m <= n
    BY DEF OpToRel
<1>q. QED
    BY <1>2, <1>3

\* It is the value of Min.
LEMMA Least ==
    ASSUME NEW S \in SUBSET Nat, S # {}
    PROVE  Min(S) \in S /\ Min(S) \in Nat /\ \A n \in S : Min(S) <= n
BY LeastNatural DEF Min

\* Max of two numbers.
LEMMA Greater ==
    ASSUME NEW a \in Int, NEW b \in Int
    PROVE  Max({a, b}) \in {a, b} /\ Max({a, b}) >= a /\ Max({a, b}) >= b
<1>1. \E m \in {a, b} : \A n \in {a, b} : m >= n
    OBVIOUS
<1>q. QED
    BY <1>1 DEF Max

\* The batch of an export and one of its traces is a nonempty part of the trace.
LEMMA Batches ==
    ASSUME NEW x \in Exports, NEW t \in TracesIn(x)
    PROVE  /\ Batch(x, t) # {} /\ Batch(x, t) \subseteq All(t)
           /\ IsFiniteSet(All(t)) /\ IsFiniteSet(Batch(x, t))
           /\ Cardinality(Batch(x, t)) \in 1..Cardinality(Spans)
           /\ Cardinality(Batch(x, t)) <= Cardinality(All(t)) /\ Cardinality(All(t)) \in Nat
           /\ Times(Batch(x, t)) \subseteq Times(All(t)) /\ Times(All(t)) \subseteq Times(Spans)
           /\ Times(Spans) \subseteq Nat
           /\ Times(Batch(x, t)) # {}
<1>1. Carries[x] \subseteq Spans /\ \A y \in Exports : Carries[y] \subseteq Spans
    BY SpansAssumption
<1>2. Batch(x, t) # {} /\ Batch(x, t) \subseteq All(t)
    BY DEF Batch, All, TracesIn
<1>3. All(t) \in SUBSET Spans /\ Batch(x, t) \in SUBSET All(t) /\ IsFiniteSet(Spans)
    BY <1>1, <1>2, SpansAssumption DEF All
<1>4. IsFiniteSet(All(t)) /\ Cardinality(All(t)) <= Cardinality(Spans)
    BY <1>3, FS_Subset
<1>5. IsFiniteSet(Batch(x, t)) /\ Cardinality(Batch(x, t)) <= Cardinality(All(t))
    BY <1>3, <1>4, FS_Subset
<1>6. Cardinality(Batch(x, t)) \in Nat /\ Cardinality(All(t)) \in Nat /\ Cardinality(Spans) \in Nat
    BY <1>3, <1>4, <1>5, FS_CardinalityType
<1>7. Cardinality(Batch(x, t)) # 0
    BY <1>2, <1>5, FS_EmptySet
<1>8. Times(Spans) \subseteq Nat
    BY SpansAssumption DEF Times
<1>9. /\ Times(Batch(x, t)) \subseteq Times(All(t)) /\ Times(All(t)) \subseteq Times(Spans)
      /\ Times(Batch(x, t)) # {}
    BY <1>2, <1>3 DEF Times
<1>q. QED
    BY <1>2, <1>4, <1>5, <1>6, <1>7, <1>8, <1>9

\* A merged row is within what the exports carry, and never narrower than the row it came from.
LEMMA Merged ==
    ASSUME NEW f \in File, f.trace \in TracesIn(f.export),
           NEW row \in RowType \cup {NoRow},
           row # NoRow => /\ row.count <= Cardinality(All(f.trace))
                          /\ row.start >= Min(Times(All(f.trace)))
    PROVE  /\ Merge(row, f) \in RowType /\ Merge(row, f).batch = f
           /\ Merge(row, f).count <= Cardinality(All(f.trace))
           /\ Merge(row, f).start >= Min(Times(All(f.trace)))
           /\ row # NoRow => /\ Merge(row, f).start <= row.start
                             /\ Merge(row, f).count >= row.count
<1> DEFINE b == Batch(f.export, f.trace)
           a == All(f.trace)
           start == IF row = NoRow THEN Min(Times(b)) ELSE Min({row.start} \cup Times(b))
           count == Max({row.count, Cardinality(b)})
<1>1. f.export \in Exports
    BY DEF File
<1>2. /\ Cardinality(b) \in 1..Cardinality(Spans)
      /\ Cardinality(b) <= Cardinality(a) /\ Cardinality(a) \in Nat
      /\ Times(b) \subseteq Times(a) /\ Times(a) \subseteq Times(Spans) /\ Times(Spans) \subseteq Nat
      /\ Times(b) # {}
    BY <1>1, Batches
<1>3. Merge(row, f) = [start |-> start, count |-> count, batch |-> f]
    BY DEF Merge, Times
<1>4. row # NoRow => row.start \in Times(Spans) /\ row.count \in 1..Cardinality(Spans)
    BY DEF RowType, Times
<1>5. IsFiniteSet(Spans) /\ Cardinality(Spans) \in Nat
    BY SpansAssumption, FS_CardinalityType
<1>6. /\ Min(Times(a)) \in Nat
      /\ \A n \in Times(a) : Min(Times(a)) <= n
    BY <1>2, Least
<1>7. /\ start \in Times(Spans) /\ start >= Min(Times(a))
      /\ row # NoRow => start <= row.start
  <2>1. CASE row = NoRow
    <3>1. Min(Times(b)) \in Times(b)
        BY <1>2, Least
    <3>q. QED
        BY <1>2, <1>6, <2>1, <3>1
  <2>2. CASE row # NoRow
    <3> DEFINE S == {row.start} \cup Times(b)
    <3>1. S \in SUBSET Nat /\ S # {} /\ row.start \in S
        BY <1>2, <1>4, <2>2
    <3>2. Min(S) \in S /\ Min(S) <= row.start
        BY <3>1, Least
    <3>3. \A n \in S : n \in Times(Spans) /\ n >= Min(Times(a))
        BY <1>2, <1>4, <1>6, <2>2
    <3>4. start = Min(S)
        BY <2>2
    <3>q. QED
        BY <2>2, <3>2, <3>3, <3>4
  <2>q. QED
      BY <2>1, <2>2
<1>8. /\ count \in 1..Cardinality(Spans) /\ count <= Cardinality(a)
      /\ row # NoRow => count >= row.count
  <2>1. row.count \in Int /\ (row = NoRow => row.count = 0)
      BY <1>4, <1>5 DEF NoRow
  <2>2. count \in {row.count, Cardinality(b)} /\ count >= row.count /\ count >= Cardinality(b)
    <3>1. Cardinality(b) \in Int
        BY <1>2, <1>5
    <3>q. QED
        BY <2>1, <3>1, Greater
  <2>q. QED
      BY <1>2, <1>4, <1>5, <2>1, <2>2
<1>9. RowType = [start : Times(Spans), count : 1..Cardinality(Spans), batch : File]
    BY DEF RowType, Times
<1>q. QED
  <2> HIDE DEF start, count
  <2>q. QED
      BY <1>3, <1>7, <1>8, <1>9

\* A row is not the absence of one.
LEMMA RowIsRow == NoRow \notin RowType
<1>1. NoRow.count = 0
    BY DEF NoRow
<1>2. \A row \in RowType : row.count \in 1..Cardinality(Spans)
    BY DEF RowType
<1>3. 0 \notin 1..Cardinality(Spans)
    BY SpansAssumption, FS_CardinalityType
<1>q. QED
    BY <1>1, <1>2, <1>3

\* An update takes each column from the row or from the merged one; it is the merged row
\* when the row is still as it was read.
LEMMA Columns ==
    ASSUME NEW row \in RowType, NEW read \in RowType, NEW new \in RowType
    PROVE  /\ Updated(row, read, new) \in RowType
           /\ Updated(row, read, new).start \in {row.start, new.start}
           /\ Updated(row, read, new).count \in {row.count, new.count}
           /\ Updated(row, read, new).batch \in {row.batch, new.batch}
           /\ row = read => /\ Updated(row, read, new).start = new.start
                            /\ Updated(row, read, new).count = new.count
<1>1. DOMAIN new = {"start", "count", "batch"}
    BY DEF RowType
<1>2. Updated(row, read, new) =
          [start |-> IF new.start = read.start THEN row.start ELSE new.start,
           count |-> IF new.count = read.count THEN row.count ELSE new.count,
           batch |-> IF new.batch = read.batch THEN row.batch ELSE new.batch]
    BY <1>1 DEF Updated
<1>q. QED
    BY <1>2 DEF RowType
-------------------------------------------------------------------------------
(* Types, and what only grows.                                             *)

\* What the steps make of a request's local variables are local variables of a request.
LEMMA Locals ==
    /\ \A n \in 0..MaxResends + 1, l \in SUBSET Traces :
          /\ [NoReq EXCEPT !.send = n] \in ReqType
          /\ [NoReq EXCEPT !.send = n, !.left = l] \in ReqType
    /\ \A r \in ReqType :
          /\ \A f \in File : [r EXCEPT !.file = f] \in ReqType
          /\ \A w \in RowType \cup {NoRow} : [r EXCEPT !.row = w] \in ReqType
          /\ \A l \in SUBSET Traces : [r EXCEPT !.left = l] \in ReqType
<1>1. ASSUME NEW n \in 0..MaxResends + 1, NEW l \in SUBSET Traces
      PROVE  /\ [NoReq EXCEPT !.send = n] \in ReqType
             /\ [NoReq EXCEPT !.send = n, !.left = l] \in ReqType
    BY DEF NoReq, ReqType
<1>2. ASSUME NEW r \in ReqType
      PROVE  /\ \A f \in File : [r EXCEPT !.file = f] \in ReqType
             /\ \A w \in RowType \cup {NoRow} : [r EXCEPT !.row = w] \in ReqType
             /\ \A l \in SUBSET Traces : [r EXCEPT !.left = l] \in ReqType
    BY DEF ReqType
<1>q. QED
    BY <1>1, <1>2

\* The types of what a request reads and writes.
LEMMA Known ==
    ASSUME IInv
    PROVE  /\ \A x \in Exports : /\ req[x] \in ReqType
                                 /\ req[x].send \in 0..MaxResends + 1
                                 /\ req[x].left \in SUBSET Traces
                                 /\ req[x].row \in RowType \cup {NoRow}
           /\ resends \in Nat /\ MaxResends \in Nat
           /\ \A t \in Traces : catalog[t] \in RowType \cup {NoRow}
           /\ \A t \in Rows : catalog[t] \in RowType
           /\ \A f \in onDisk : /\ f \in File /\ f.export \in Exports /\ f.trace \in Traces
           /\ \A f \in hooks : f \in File /\ f.trace \in Traces
<1>1. /\ req \in [Exports -> ReqType] /\ catalog \in [Traces -> RowType \cup {NoRow}]
      /\ onDisk \subseteq File /\ hooks \subseteq File /\ resends \in Nat
    BY DEF IInv, TypeOK
<1>2. MaxResends \in Nat
    BY BoundsAssumption
<1>3. \A r \in ReqType : /\ r.send \in 0..MaxResends + 1 /\ r.left \in SUBSET Traces
                         /\ r.row \in RowType \cup {NoRow}
    BY DEF ReqType
<1>4. \A f \in File : f.export \in Exports /\ f.trace \in Traces
    BY DEF File
<1>q. QED
    BY <1>1, <1>2, <1>3, <1>4 DEF Rows

\* The row a commit leaves: a sound one, wider than the row it replaces if that was read.
LEMMA Committed ==
    ASSUME IInv, NEW x \in Exports, Commit(x)
    PROVE  \E w \in RowType :
              LET t == req[x].file.trace
              IN /\ catalog' = [catalog EXCEPT ![t] = w]
                 /\ Sound(w, t)
                 /\ t \in Rows /\ req[x].row = catalog[t] =>
                       w.start <= catalog[t].start /\ w.count >= catalog[t].count
<1> DEFINE f == req[x].file
           t == req[x].file.trace
           row == req[x].row
           new == Merge(row, f)
<1>1. /\ pc[x] = "commit" /\ ~Duplicate(x)
      /\ catalog' = [catalog EXCEPT ![t] = IF row = NoRow THEN new ELSE Updated(catalog[t], row, new)]
    BY DEF Commit
<1>2. FileInv(x) /\ WorkInv(x) /\ RowInv(x) /\ CatalogInv
    BY DEF IInv, ExportInv
<1>3. f \in onDisk /\ f.export = x /\ t \in TracesIn(x) /\ f \in File /\ t \in Traces
    BY <1>1, <1>2, Known DEF FileInv, WorkInv, Busy
<1>4. row \in RowType \cup {NoRow}
    BY Known
<1>5. row # NoRow => t \in Rows /\ Sound(row, t)
    BY <1>1, <1>2 DEF RowInv
<1>6. /\ new \in RowType /\ new.batch = f
      /\ new.count <= Cardinality(All(t)) /\ new.start >= Min(Times(All(t)))
      /\ row # NoRow => new.start <= row.start /\ new.count >= row.count
  <2> HIDE DEF new, row, f
  <2>1. f.trace \in TracesIn(f.export) /\ f.trace = t
      BY <1>3 DEF f
  <2>2. row # NoRow => row.count <= Cardinality(All(f.trace)) /\ row.start >= Min(Times(All(f.trace)))
      BY <1>5, <2>1 DEF Sound
  <2>3. /\ Merge(row, f) \in RowType /\ Merge(row, f).batch = f
        /\ Merge(row, f).count <= Cardinality(All(f.trace))
        /\ Merge(row, f).start >= Min(Times(All(f.trace)))
        /\ row # NoRow => Merge(row, f).start <= row.start /\ Merge(row, f).count >= row.count
      BY <1>3, <1>4, <2>1, <2>2, Merged
  <2>q. QED
      BY <2>1, <2>3 DEF new
<1>7. CASE row = NoRow
  <2>1. t \notin Rows
      BY <1>1, <1>7 DEF Duplicate, Rows
  <2>2. catalog' = [catalog EXCEPT ![t] = new]
      BY <1>1, <1>7
  <2>3. Sound(new, t)
      BY <1>3, <1>6 DEF Sound
  <2> HIDE DEF new
  <2>q. QED
      BY <1>6, <2>1, <2>2, <2>3
<1>8. CASE row # NoRow
  <2> DEFINE w == Updated(catalog[t], row, new)
  <2>1. catalog' = [catalog EXCEPT ![t] = w]
      BY <1>1, <1>8
  <2>2. /\ catalog[t] \in RowType /\ row \in RowType
        /\ Sound(catalog[t], t)
      BY <1>2, <1>4, <1>5, <1>8, Known DEF CatalogInv
  <2>3. /\ w \in RowType /\ w.start \in {catalog[t].start, new.start}
        /\ w.count \in {catalog[t].count, new.count} /\ w.batch \in {catalog[t].batch, new.batch}
        /\ catalog[t] = row => w.start = new.start /\ w.count = new.count
    <3> HIDE DEF new, row
    <3>q. QED
        BY <1>6, <2>2, Columns
  <2> HIDE DEF w, new
  <2>4. Sound(w, t)
      BY <1>3, <1>6, <2>2, <2>3 DEF Sound
  <2>5. row = catalog[t] => w.start <= catalog[t].start /\ w.count >= catalog[t].count
      BY <1>6, <1>8, <2>3
  <2>q. QED
      BY <2>1, <2>3, <2>4, <2>5
<1>q. QED
    BY <1>7, <1>8

\* Nothing that was stored goes away.
LEMMA Grows ==
    ASSUME IInv, Next
    PROVE  onDisk \subseteq onDisk' /\ Rows \subseteq Rows' /\ resends <= resends' /\ resends' \in Nat
<1>1. onDisk \subseteq onDisk'
    BY DEF Next, Send, Write, Get, Commit, IngestRaises, HookRaises, AutoRun, Tick, Crash, blob
<1>2. Rows \subseteq Rows'
  <2>1. CASE \E x \in Exports : Commit(x)
    <3>1. PICK x \in Exports : Commit(x)
        BY <2>1
    <3>2. PICK w \in RowType : catalog' = [catalog EXCEPT ![req[x].file.trace] = w]
        BY <3>1, Committed
    <3>3. catalog \in [Traces -> RowType \cup {NoRow}]
        BY DEF IInv, TypeOK
    <3>q. QED
        BY <3>2, <3>3, RowIsRow DEF Rows
  <2>2. CASE ~ \E x \in Exports : Commit(x)
    <3>1. catalog' = catalog
        BY <2>2 DEF Next, Send, Write, Get, IngestRaises, HookRaises, AutoRun, Tick, Crash
    <3>q. QED
        BY <3>1 DEF Rows
  <2>q. QED
      BY <2>1, <2>2
<1>3. resends <= resends' /\ resends' \in Nat
  <2>1. resends \in Nat
      BY Known
  <2>2. resends' = resends \/ resends' = resends + 1
      BY DEF Next, Send, Write, Get, Commit, IngestRaises, HookRaises, AutoRun, Tick, Crash, bounds
  <2>q. QED
      BY <2>1, <2>2
<1>q. QED
    BY <1>1, <1>2, <1>3

\* So what has landed stays landed, and a sound row stays sound.
LEMMA Stays ==
    ASSUME IInv, Next
    PROVE  /\ \A x \in Exports : Landed(x) \subseteq Landed(x)'
           /\ \A row, t : Sound(row, t) => Sound(row, t)'
BY Grows DEF Landed, Sound, All, Times

\* A request that does not move keeps what it has done.
LEMMA Rests ==
    ASSUME IInv, Next, NEW x \in Exports, pc'[x] = pc[x], req'[x] = req[x]
    PROVE  ExportInv(x)'
<1>1. ExportInv(x)
    BY DEF IInv
<1>2. SendInv(x)'
  <2>1. resends' \in Nat /\ resends <= resends'
      BY Grows
  <2>2. req[x].send \in Nat /\ resends \in Nat
      BY Known
  <2>q. QED
      BY <1>1, <2>1, <2>2 DEF ExportInv, SendInv
<1>3. WorkInv(x)'
    BY <1>1, Stays DEF ExportInv, WorkInv, Busy
<1>4. FileInv(x)'
    BY <1>1, Grows DEF ExportInv, FileInv
<1>5. RowInv(x)'
  <2>1. \A row, t : Sound(row, t) => Sound(row, t)'
      BY Stays
  <2>q. QED
      BY <1>1, <2>1, Grows DEF ExportInv, RowInv
<1>q. QED
    BY <1>2, <1>3, <1>4, <1>5 DEF ExportInv

\* A request that has been answered holds nothing.
LEMMA Answered ==
    ASSUME IInv, Next, NEW x \in Exports, pc'[x] \in {"ok", "error"}, req'[x].send = req[x].send,
           pc'[x] = "ok" => TracesIn(x) \subseteq Landed(x)'
    PROVE  ExportInv(x)'
<1>1. SendInv(x)
    BY DEF IInv, ExportInv
<1>2. SendInv(x)'
  <2>1. resends' \in Nat /\ resends <= resends'
      BY Grows
  <2>2. req[x].send \in Nat /\ resends \in Nat
      BY Known
  <2>q. QED
      BY <1>1, <2>1, <2>2 DEF SendInv
<1>q. QED
    BY <1>2 DEF ExportInv, WorkInv, FileInv, RowInv, Busy
-------------------------------------------------------------------------------
(* The steps.                                                              *)

\* The requests: each step of one of them, and a restart of the process.
LEMMA ExportStep ==
    ASSUME IInv, Next, NEW x \in Exports
    PROVE  ExportInv(x)'
<1>1. ExportInv(x) /\ req[x] \in ReqType
    BY Known DEF IInv
<1>2. pc \in [Exports -> {"unsent", "write", "get", "commit", "ok", "error"}] /\ req \in [Exports -> ReqType]
    BY DEF IInv, TypeOK
<1>3. resends' \in Nat /\ resends <= resends' /\ resends \in Nat /\ req[x].send \in Nat
    BY Known, Grows
<1>4. CASE Send(x)
  <2>1. /\ pc'[x] = "write"
        /\ req'[x] = [NoReq EXCEPT !.send = req[x].send + 1, !.left = TracesIn(x)]
      BY <1>2, <1>4 DEF Send, At
  <2>2. req'[x].send = req[x].send + 1 /\ req'[x].left = TracesIn(x)
      BY <2>1 DEF NoReq
  <2>3. req[x].send = 0 \/ (req[x].send <= resends + 1 /\ resends' = resends + 1)
    <3>1. CASE pc[x] = "unsent"
        BY <1>1, <3>1 DEF ExportInv, SendInv
    <3>2. CASE pc[x] # "unsent"
        BY <1>1, <1>4, <3>2 DEF Send, ExportInv, SendInv
    <3>q. QED
        BY <3>1, <3>2
  <2>4. req[x].send + 1 <= resends' + 1
    <3>1. \A m, n, k \in Nat : m = 0 \/ (m <= n + 1 /\ k = n + 1) => m + 1 <= k + 1
        BY SMT
    <3>q. QED
        BY <1>3, <2>3, <3>1
  <2>5. TracesIn(x) # {}
      BY SpansAssumption DEF TracesIn
  <2>q. QED
      BY <1>3, <2>1, <2>2, <2>4, <2>5 DEF ExportInv, SendInv, WorkInv, FileInv, RowInv
<1>5. CASE Write(x)
  <2>1. PICK t \in req[x].left :
            LET f == [export |-> x, send |-> req[x].send, trace |-> t]
            IN /\ onDisk' = onDisk \cup {f}
               /\ pc'[x] = "get" /\ req'[x] = [req[x] EXCEPT !.file = f]
      BY <1>2, <1>5 DEF Write, At
  <2>2. /\ req'[x].send = req[x].send /\ req'[x].left = req[x].left
        /\ req'[x].file = [export |-> x, send |-> req[x].send, trace |-> t]
      BY <1>1, <2>1 DEF ReqType
  <2>3. pc[x] = "write" /\ Busy(x)
      BY <1>5 DEF Write, Busy
  <2>4. SendInv(x)'
      BY <1>1, <1>3, <2>1, <2>2 DEF ExportInv, SendInv
  <2>5. WorkInv(x)'
      BY <1>1, <2>1, <2>2, <2>3, Stays DEF ExportInv, WorkInv
  <2>6. FileInv(x)'
      BY <2>1, <2>2 DEF FileInv
  <2>q. QED
      BY <2>1, <2>4, <2>5, <2>6 DEF ExportInv, RowInv
<1>6. CASE Get(x)
  <2>1. /\ pc[x] = "get" /\ pc'[x] = "commit" /\ onDisk' = onDisk /\ catalog' = catalog
        /\ req'[x] = [req[x] EXCEPT !.row = catalog[req[x].file.trace]]
      BY <1>2, <1>6 DEF Get, At, blob
  <2>2. /\ req'[x].send = req[x].send /\ req'[x].left = req[x].left /\ req'[x].file = req[x].file
        /\ req'[x].row = catalog[req[x].file.trace]
      BY <1>1, <2>1 DEF ReqType
  <2>3. SendInv(x)'
      BY <1>1, <1>3, <2>1, <2>2 DEF ExportInv, SendInv
  <2>4. WorkInv(x)'
      BY <1>1, <2>1, <2>2, Stays DEF ExportInv, WorkInv, Busy
  <2>5. FileInv(x) /\ FileInv(x)'
      BY <1>1, <2>1, <2>2 DEF ExportInv, FileInv
  <2>6. RowInv(x)'
    <3>1. req[x].file.trace \in Traces
        BY <2>1, <2>5, Known DEF FileInv
    <3>2. catalog[req[x].file.trace] # NoRow => /\ req[x].file.trace \in Rows
                                                /\ Sound(catalog[req[x].file.trace], req[x].file.trace)
        BY <3>1 DEF Rows, IInv, CatalogInv
    <3>3. \A row, t : Sound(row, t) => Sound(row, t)'
        BY Stays
    <3>4. Rows \subseteq Rows'
        BY Grows
    <3>q. QED
        BY <2>2, <3>2, <3>3, <3>4 DEF RowInv
  <2>q. QED
      BY <2>3, <2>4, <2>5, <2>6 DEF ExportInv
<1>7. CASE Commit(x)
  <2> DEFINE t == req[x].file.trace
  <2>1. pc[x] = "commit" /\ onDisk' = onDisk
      BY <1>7 DEF Commit, blob
  <2>2. /\ req[x].file \in onDisk /\ req[x].file.export = x /\ t \in req[x].left /\ t \in Traces
        /\ req[x].left \subseteq TracesIn(x) /\ TracesIn(x) \ req[x].left \subseteq Landed(x)
        /\ req[x].send > 0
      BY <1>1, <2>1, Known DEF ExportInv, FileInv, WorkInv, Busy
  <2>3. t \in Landed(x)'
    <3>1. PICK w \in RowType : catalog' = [catalog EXCEPT ![t] = w]
        BY <1>7, Committed
    <3>2. catalog \in [Traces -> RowType \cup {NoRow}]
        BY DEF IInv, TypeOK
    <3>3. t \in Rows'
        BY <2>2, <3>1, <3>2, RowIsRow DEF Rows
    <3>q. QED
        BY <2>1, <2>2, <3>3 DEF Landed
  <2>4. TracesIn(x) \ (req[x].left \ {t}) \subseteq Landed(x)'
      BY <2>2, <2>3, Stays
  <2>5. CASE req[x].left = {t}
    <3>1. pc'[x] = "ok" /\ req'[x] = [NoReq EXCEPT !.send = req[x].send]
        BY <1>2, <1>7, <2>5 DEF Commit, Answer, At
    <3>2. req'[x].send = req[x].send
        BY <3>1 DEF NoReq
    <3>q. QED
        BY <2>4, <2>5, <3>1, <3>2, Answered
  <2>6. CASE req[x].left # {t}
    <3>1. pc'[x] = "write" /\ req'[x] = [req[x] EXCEPT !.left = @ \ {t}]
        BY <1>2, <1>7, <2>6 DEF Commit, At
    <3>2. req'[x].send = req[x].send /\ req'[x].left = req[x].left \ {t}
        BY <1>1, <3>1 DEF ReqType
    <3>3. SendInv(x)'
        BY <1>1, <1>3, <3>1, <3>2 DEF ExportInv, SendInv
    <3>4. WorkInv(x)'
        BY <2>2, <2>4, <2>6, <3>1, <3>2 DEF WorkInv
    <3>q. QED
        BY <3>1, <3>3, <3>4 DEF ExportInv, FileInv, RowInv
  <2>q. QED
      BY <2>5, <2>6
<1>8. CASE IngestRaises(x)
  <2>1. pc'[x] = "error" /\ req'[x] = [NoReq EXCEPT !.send = req[x].send]
      BY <1>2, <1>8 DEF IngestRaises, Answer, At
  <2>2. req'[x].send = req[x].send
      BY <2>1 DEF NoReq
  <2>q. QED
      BY <2>1, <2>2, Answered
<1>9. CASE Crash
  <2>1. /\ pc'[x] = IF Busy(x) THEN "error" ELSE pc[x]
        /\ req'[x] = [NoReq EXCEPT !.send = req[x].send]
      BY <1>9 DEF Crash
  <2>2. req'[x].send = req[x].send
      BY <2>1 DEF NoReq
  <2>3. CASE Busy(x) \/ pc[x] = "error" \/ pc[x] = "ok"
    <3>1. pc[x] = "ok" => TracesIn(x) \subseteq Landed(x)'
        BY <1>1, Stays DEF ExportInv, WorkInv
    <3>q. QED
        BY <2>1, <2>2, <2>3, <3>1, Answered DEF Busy
  <2>4. CASE pc[x] = "unsent"
      BY <1>1, <1>3, <2>1, <2>2, <2>4 DEF ExportInv, SendInv, WorkInv, FileInv, RowInv, Busy
  <2>q. QED
      BY <1>2, <2>3, <2>4 DEF Busy
<1>10. CASE ~ (Send(x) \/ Write(x) \/ Get(x) \/ Commit(x) \/ IngestRaises(x) \/ Crash)
  <2>1. CASE \E y \in Exports : Send(y) \/ Write(y) \/ Get(y) \/ Commit(y) \/ IngestRaises(y)
    <3>1. PICK y \in Exports : Send(y) \/ Write(y) \/ Get(y) \/ Commit(y) \/ IngestRaises(y)
        BY <2>1
    <3>2. y # x
        BY <1>10, <3>1
    <3>3. \E step, r : pc' = [pc EXCEPT ![y] = step] /\ req' = [req EXCEPT ![y] = r]
        BY <3>1 DEF Send, Write, Get, Commit, IngestRaises, Answer, At
    <3>q. QED
        BY <1>2, <3>2, <3>3, Rests
  <2>2. CASE ~ \E y \in Exports : Send(y) \/ Write(y) \/ Get(y) \/ Commit(y) \/ IngestRaises(y)
    <3>1. pc' = pc /\ req' = req
        BY <1>10, <2>2 DEF Next, HookRaises, AutoRun, Tick
    <3>q. QED
        BY <3>1, Rests
  <2>q. QED
      BY <2>1, <2>2
<1>q. QED
    BY <1>4, <1>5, <1>6, <1>7, <1>8, <1>9, <1>10

\* The rows: a commit leaves a sound one.
LEMMA CatalogStep ==
    ASSUME IInv, Next
    PROVE  CatalogInv'
<1>1. catalog \in [Traces -> RowType \cup {NoRow}] /\ CatalogInv
    BY DEF IInv, TypeOK
<1>2. \A row, t : Sound(row, t) => Sound(row, t)'
    BY Stays
<1>3. CASE \E x \in Exports : Commit(x)
  <2>1. PICK x \in Exports : Commit(x)
      BY <1>3
  <2>2. PICK w \in RowType : /\ catalog' = [catalog EXCEPT ![req[x].file.trace] = w]
                             /\ Sound(w, req[x].file.trace)
      BY <2>1, Committed
  <2>q. QED
      BY <1>1, <1>2, <2>2 DEF CatalogInv, Rows
<1>4. CASE ~ \E x \in Exports : Commit(x)
  <2>1. catalog' = catalog
      BY <1>4 DEF Next, Send, Write, Get, IngestRaises, HookRaises, AutoRun, Tick, Crash
  <2>q. QED
      BY <1>1, <1>2, <2>1 DEF CatalogInv, Rows
<1>q. QED
    BY <1>3, <1>4

\* What an archive write makes of the breaker.
LEMMA ArchiveStep ==
    ASSUME IInv, NEW f, Archive(f)
    PROVE  /\ archived' \subseteq archived \cup {f} /\ archived \subseteq archived'
           /\ failures' \in Nat /\ closed' \in BOOLEAN
           /\ remaining' \in 0..Cooldown /\ quiet' \in 0..Cooldown
           /\ remaining' <= Cooldown - quiet'
           /\ s3Faults' \in Nat
           /\ f \in archived' \/ quiet' < Cooldown
<1>1. /\ failures \in Nat /\ closed \in BOOLEAN /\ s3Faults \in Nat
      /\ remaining \in 0..Cooldown /\ quiet \in 0..Cooldown /\ remaining <= Cooldown - quiet
    BY DEF IInv, TypeOK, BreakerInv
<1>2. Cooldown \in Nat /\ Cooldown > 0 /\ Threshold \in Nat
    BY BoundsAssumption
<1>3. CASE ArchiveWritten(f)
    BY <1>1, <1>2, <1>3 DEF ArchiveWritten
<1>4. CASE ArchiveFailed
  <2>1. failures' \in Nat /\ s3Faults' \in Nat
      BY <1>1, <1>4 DEF ArchiveFailed, Failures
  <2>2. closed' \in BOOLEAN
      BY <1>4 DEF ArchiveFailed
  <2>3. remaining' \in {0, Cooldown} /\ quiet' = 0 /\ archived' = archived
      BY <1>4 DEF ArchiveFailed
  <2>q. QED
      BY <1>2, <2>1, <2>2, <2>3
<1>5. CASE ~Available /\ UNCHANGED <<archived, breaker, s3Faults>>
    BY <1>1, <1>2, <1>5 DEF Available, breaker
<1>q. QED
    BY <1>3, <1>4, <1>5 DEF Archive

\* The circuit opens with a failed write and closes with the cool-down after it.
LEMMA BreakerStep ==
    ASSUME IInv, Next
    PROVE  /\ archived' \subseteq onDisk'
           /\ failures' \in Nat /\ closed' \in BOOLEAN
           /\ remaining' \in 0..Cooldown /\ quiet' \in 0..Cooldown
           /\ BreakerInv'
           /\ s3Faults' \in Nat
           /\ \A f \in onDisk' \ onDisk : f \in archived' \/ quiet' < Cooldown
<1>1. /\ failures \in Nat /\ closed \in BOOLEAN /\ s3Faults \in Nat
      /\ remaining \in 0..Cooldown /\ quiet \in 0..Cooldown /\ remaining <= Cooldown - quiet
      /\ archived \subseteq onDisk
    BY DEF IInv, TypeOK, BreakerInv
<1>2. Cooldown \in Nat /\ Cooldown > 0
    BY BoundsAssumption
<1>3. CASE \E x \in Exports : Write(x)
  <2>1. PICK f : onDisk' = onDisk \cup {f} /\ Archive(f)
      BY <1>3 DEF Write
  <2>q. QED
      BY <1>1, <2>1, ArchiveStep DEF BreakerInv
<1>4. CASE Tick
  <2>1. /\ quiet < Cooldown /\ quiet' = quiet + 1 /\ remaining' = Max({remaining - 1, 0})
        /\ UNCHANGED <<onDisk, archived, failures, closed, s3Faults>>
      BY <1>4 DEF Tick, bounds
  <2>2. /\ remaining' \in {remaining - 1, 0} /\ remaining' >= remaining - 1 /\ remaining' >= 0
    <3>1. remaining - 1 \in Int /\ 0 \in Int
        BY <1>1
    <3>q. QED
        BY <2>1, <3>1, Greater
  <2>3. quiet' \in 0..Cooldown
      BY <1>1, <1>2, <2>1
  <2>4. remaining' \in 0..Cooldown /\ remaining' <= Cooldown - quiet'
      BY <1>1, <1>2, <2>1, <2>2
  <2>q. QED
      BY <1>1, <2>1, <2>3, <2>4 DEF BreakerInv
<1>5. CASE Crash
    BY <1>1, <1>2, <1>5 DEF Crash, BreakerInv
<1>6. CASE ~ ((\E x \in Exports : Write(x)) \/ Tick \/ Crash)
  <2>1. UNCHANGED <<onDisk, archived, failures, closed, remaining, quiet, s3Faults>>
      BY <1>6 DEF Next, Send, Get, Commit, IngestRaises, HookRaises, AutoRun, blob, breaker, bounds
  <2>q. QED
      BY <1>1, <2>1 DEF BreakerInv
<1>q. QED
    BY <1>3, <1>4, <1>5, <1>6

\* Local variables stay local variables.
LEMMA RequestTypes ==
    ASSUME IInv, Next
    PROVE  /\ pc' \in [Exports -> {"unsent", "write", "get", "commit", "ok", "error"}]
           /\ req' \in [Exports -> ReqType]
           /\ onDisk' \subseteq File
           /\ resends' <= MaxResends
<1> DEFINE Steps == {"unsent", "write", "get", "commit", "ok", "error"}
<1>1. /\ pc \in [Exports -> Steps] /\ req \in [Exports -> ReqType] /\ onDisk \subseteq File
      /\ resends <= MaxResends /\ resends \in Nat /\ MaxResends \in Nat
    BY Known DEF IInv, TypeOK
<1>2. ASSUME NEW x \in Exports, NEW r \in ReqType, NEW step \in Steps, At(x, step, r)
      PROVE  pc' \in [Exports -> Steps] /\ req' \in [Exports -> ReqType]
  <2>1. pc' = [pc EXCEPT ![x] = step] /\ req' = [req EXCEPT ![x] = r]
      BY <1>2 DEF At
  <2>q. QED
      BY <1>1, <1>2, <2>1
<1>3. \A x \in Exports : /\ [NoReq EXCEPT !.send = req[x].send] \in ReqType
                         /\ \A f \in File : [req[x] EXCEPT !.file = f] \in ReqType
    BY Known, Locals
<1>4. ASSUME NEW x \in Exports, Send(x)
      PROVE  /\ pc' \in [Exports -> Steps] /\ req' \in [Exports -> ReqType]
             /\ onDisk' = onDisk /\ resends' <= MaxResends
  <2>1. onDisk' = onDisk /\ resends' <= MaxResends
      BY <1>1, <1>4 DEF Send, blob
  <2>2. req[x].send + 1 \in 0..MaxResends + 1
    <3>1. ExportInv(x)'
        BY ExportStep
    <3>2. req'[x].send = req[x].send + 1
        BY <1>1, <1>4 DEF Send, At, NoReq
    <3>3. req[x].send + 1 <= resends' + 1
        BY <3>1, <3>2 DEF ExportInv, SendInv
    <3>4. resends' \in Nat /\ req[x].send \in 0..MaxResends + 1
        BY Known, Grows
    <3>q. QED
        BY <1>1, <2>1, <3>3, <3>4
  <2>3. TracesIn(x) \in SUBSET Traces
      BY SpansAssumption DEF TracesIn
  <2>4. [NoReq EXCEPT !.send = req[x].send + 1, !.left = TracesIn(x)] \in ReqType
      BY <2>2, <2>3, Locals
  <2>q. QED
      BY <1>2, <1>4, <2>1, <2>4 DEF Send
<1>5. ASSUME NEW x \in Exports, Write(x)
      PROVE  /\ pc' \in [Exports -> Steps] /\ req' \in [Exports -> ReqType]
             /\ onDisk' \subseteq File
  <2>1. PICK t \in req[x].left :
            LET f == [export |-> x, send |-> req[x].send, trace |-> t]
            IN /\ onDisk' = onDisk \cup {f}
               /\ At(x, "get", [req[x] EXCEPT !.file = f])
      BY <1>5 DEF Write
  <2>2. req[x].send \in 1..MaxResends + 1 /\ t \in Traces
    <3>1. req[x].send > 0
        BY <1>5 DEF IInv, ExportInv, WorkInv, Busy, Write
    <3>2. req[x].send \in 0..MaxResends + 1 /\ req[x].left \in SUBSET Traces
        BY Known
    <3>q. QED
        BY <1>1, <2>1, <3>1, <3>2
  <2>3. [export |-> x, send |-> req[x].send, trace |-> t] \in File
      BY <2>2 DEF File
  <2>4. [req[x] EXCEPT !.file = [export |-> x, send |-> req[x].send, trace |-> t]] \in ReqType
      BY <1>3, <2>3
  <2>q. QED
      BY <1>1, <1>2, <2>1, <2>3, <2>4
<1>6. ASSUME NEW x \in Exports, Get(x)
      PROVE  pc' \in [Exports -> Steps] /\ req' \in [Exports -> ReqType]
  <2>1. req[x].file.trace \in Traces
      BY <1>6, Known DEF IInv, ExportInv, FileInv, Get
  <2>2. catalog[req[x].file.trace] \in RowType \cup {NoRow} /\ req[x] \in ReqType
      BY <2>1, Known
  <2>3. [req[x] EXCEPT !.row = catalog[req[x].file.trace]] \in ReqType
      BY <2>2, Locals
  <2>q. QED
      BY <1>2, <1>6, <2>3 DEF Get
<1>7. ASSUME NEW x \in Exports, Commit(x)
      PROVE  pc' \in [Exports -> Steps] /\ req' \in [Exports -> ReqType]
  <2>1. \/ At(x, "ok", [NoReq EXCEPT !.send = req[x].send])
        \/ At(x, "write", [req[x] EXCEPT !.left = @ \ {req[x].file.trace}])
      BY <1>7 DEF Commit, Answer
  <2>2. req[x].left \ {req[x].file.trace} \in SUBSET Traces /\ req[x] \in ReqType
      BY Known
  <2>3. [req[x] EXCEPT !.left = req[x].left \ {req[x].file.trace}] \in ReqType
      BY <2>2, Locals
  <2>q. QED
      BY <1>2, <1>3, <2>1, <2>3
<1>8. ASSUME NEW x \in Exports, IngestRaises(x)
      PROVE  pc' \in [Exports -> Steps] /\ req' \in [Exports -> ReqType]
    BY <1>2, <1>3, <1>8 DEF IngestRaises, Answer
<1>9. ASSUME Crash
      PROVE  pc' \in [Exports -> Steps] /\ req' \in [Exports -> ReqType]
    BY <1>1, <1>3, <1>9 DEF Crash
<1>10. (\E f \in hooks : HookRaises(f) \/ AutoRun(f)) \/ Tick => pc' = pc /\ req' = req
    BY DEF HookRaises, AutoRun, Tick
<1>11. ~ (\E x \in Exports : Write(x)) => onDisk' = onDisk
    BY DEF Next, Send, Get, Commit, IngestRaises, HookRaises, AutoRun, Tick, Crash, blob
<1>12. ~ (\E x \in Exports : Send(x)) => resends' = resends
    BY DEF Next, Write, Get, Commit, IngestRaises, HookRaises, AutoRun, Tick, Crash, bounds
<1>13. pc' \in [Exports -> Steps] /\ req' \in [Exports -> ReqType]
  <2> HIDE DEF Steps
  <2>q. QED
      BY <1>1, <1>4, <1>5, <1>6, <1>7, <1>8, <1>9, <1>10 DEF Next
<1>q. QED
    BY <1>1, <1>4, <1>5, <1>11, <1>12, <1>13

\* The types of a next state.
LEMMA TypeStep ==
    ASSUME IInv, Next
    PROVE  TypeOK'
<1>1. /\ catalog \in [Traces -> RowType \cup {NoRow}] /\ hooks \subseteq File
      /\ evaluated \in [Traces -> File \cup {NoFile}]
      /\ faults \in Nat /\ crashes \in Nat
    BY DEF IInv, TypeOK
<1>2. catalog' \in [Traces -> RowType \cup {NoRow}]
  <2>1. CASE \E x \in Exports : Commit(x)
    <3>1. PICK x \in Exports : Commit(x)
        BY <2>1
    <3>2. PICK w \in RowType : catalog' = [catalog EXCEPT ![req[x].file.trace] = w]
        BY <3>1, Committed
    <3>q. QED
        BY <1>1, <3>2
  <2>2. CASE ~ \E x \in Exports : Commit(x)
      BY <1>1, <2>2 DEF Next, Send, Write, Get, IngestRaises, HookRaises, AutoRun, Tick, Crash
  <2>q. QED
      BY <2>1, <2>2
<1>3. hooks' \subseteq File
  <2>1. \A x \in Exports : Commit(x) => hooks' = hooks \cup {req[x].file} /\ req[x].file \in File
      BY Known DEF Commit, IInv, ExportInv, FileInv
  <2>2. ~ (\E x \in Exports : Commit(x)) => hooks' \subseteq hooks
      BY DEF Next, Send, Write, Get, IngestRaises, HookRaises, AutoRun, Tick, Crash, auto
  <2>q. QED
      BY <1>1, <2>1, <2>2
<1>4. evaluated' \in [Traces -> File \cup {NoFile}]
  <2>1. \A t \in Traces : catalog[t].batch \in File \cup {NoFile}
    <3>1. \A row \in RowType : row.batch \in File
        BY DEF RowType
    <3>2. NoRow.batch = NoFile
        BY DEF NoRow
    <3>q. QED
        BY <1>1, <3>1, <3>2
  <2>2. ASSUME NEW f \in hooks, AutoRun(f) PROVE evaluated' \in [Traces -> File \cup {NoFile}]
    <3>1. f.trace \in Traces
        BY Known
    <3>2. evaluated' = [evaluated EXCEPT ![f.trace] = catalog[f.trace].batch]
        BY <2>2 DEF AutoRun
    <3>3. catalog[f.trace].batch \in File \cup {NoFile}
        BY <2>1, <3>1
    <3>q. QED
        BY <1>1, <3>2, <3>3
  <2>3. ~ (\E f \in hooks : AutoRun(f)) => evaluated' = evaluated
      BY DEF Next, Send, Write, Get, Commit, IngestRaises, HookRaises, Tick, Crash, auto
  <2>q. QED
      BY <1>1, <2>2, <2>3
<1>5. faults' \in Nat /\ crashes' \in Nat
  <2>1. (faults' = faults \/ faults' = faults + 1) /\ (crashes' = crashes \/ crashes' = crashes + 1)
      BY DEF Next, Send, Write, Get, Commit, IngestRaises, HookRaises, AutoRun, Tick, Crash, bounds
  <2>q. QED
      BY <1>1, <2>1
<1>6. resends' \in Nat /\ archived' \subseteq onDisk' /\ failures' \in Nat /\ closed' \in BOOLEAN
      /\ remaining' \in 0..Cooldown /\ quiet' \in 0..Cooldown /\ s3Faults' \in Nat
    BY Grows, BreakerStep
<1>7. /\ pc' \in [Exports -> {"unsent", "write", "get", "commit", "ok", "error"}]
      /\ req' \in [Exports -> ReqType] /\ onDisk' \subseteq File
    BY RequestTypes
<1>q. QED
    BY <1>2, <1>3, <1>4, <1>5, <1>6, <1>7 DEF TypeOK

\* The traces whose row points to a batch no run has read and no hook will.
Missed == {t \in Rows : catalog[t].batch # evaluated[t] /\ \A f \in hooks : f.trace # t}

\* Only a hook that raises adds a trace to them, the one it was for.
LEMMA MissedStep ==
    ASSUME IInv, Next, crashes' = 0
    PROVE  \/ Missed' \subseteq Missed /\ faults <= faults'
           \/ \E f \in hooks : Missed' \subseteq Missed \cup {f.trace} /\ faults' = faults + 1
<1>1. /\ catalog \in [Traces -> RowType \cup {NoRow}] /\ evaluated \in [Traces -> File \cup {NoFile}]
      /\ faults \in Nat /\ crashes \in Nat
    BY DEF IInv, TypeOK
<1>2. ASSUME NEW x \in Exports, Commit(x) PROVE Missed' \subseteq Missed /\ faults <= faults'
  <2>1. PICK w : catalog' = [catalog EXCEPT ![req[x].file.trace] = w]
      BY <1>2 DEF Commit
  <2>2. hooks' = hooks \cup {req[x].file} /\ evaluated' = evaluated /\ faults' = faults
      BY <1>2 DEF Commit, bounds
  <2>3. \A t \in Traces : t # req[x].file.trace => catalog'[t] = catalog[t]
      BY <1>1, <2>1
  <2>q. QED
      BY <1>1, <2>2, <2>3 DEF Missed, Rows
<1>3. ASSUME NEW f \in hooks, HookRaises(f)
      PROVE  Missed' \subseteq Missed \cup {f.trace} /\ faults' = faults + 1
    BY <1>3 DEF HookRaises, Missed, Rows
<1>4. ASSUME NEW f \in hooks, AutoRun(f) PROVE Missed' \subseteq Missed /\ faults <= faults'
  <2>1. /\ hooks' = hooks \ {f} /\ catalog' = catalog /\ faults' = faults
        /\ evaluated' = [evaluated EXCEPT ![f.trace] = catalog[f.trace].batch]
      BY <1>4 DEF AutoRun, bounds
  <2>2. \A t \in Traces : evaluated'[t] = IF t = f.trace THEN catalog[t].batch ELSE evaluated[t]
      BY <1>1, <2>1
  <2>q. QED
      BY <1>1, <2>1, <2>2 DEF Missed, Rows
<1>5. ~Crash
    BY <1>1 DEF Crash
<1>6. CASE ~ (\/ \E x \in Exports : Commit(x)
              \/ \E f \in hooks : HookRaises(f) \/ AutoRun(f))
  <2>1. UNCHANGED <<catalog, hooks, evaluated>>
      BY <1>5, <1>6 DEF Next, Send, Write, Get, IngestRaises, Tick, auto
  <2>2. faults' = faults \/ faults' = faults + 1
      BY <1>5, <1>6 DEF Next, Send, Write, Get, IngestRaises, Tick, bounds
  <2>q. QED
      BY <1>1, <2>1, <2>2 DEF Missed, Rows
<1>q. QED
    BY <1>2, <1>3, <1>4, <1>6

\* Each of them has a hook that raised.
LEMMA LatestStep ==
    ASSUME IInv, Next
    PROVE  LatestIsEvaluated'
<1> SUFFICES ASSUME crashes' = 0 PROVE Cardinality(Missed') <= faults'
    BY DEF LatestIsEvaluated, Missed
<1>1. IsFiniteSet(Missed) /\ Cardinality(Missed) \in Nat
  <2>1. Missed \in SUBSET Traces
      BY DEF Missed, Rows
  <2>2. IsFiniteSet(Missed)
      BY <2>1, SpansAssumption, FS_Subset
  <2>q. QED
      BY <2>2, FS_CardinalityType
<1>2. Cardinality(Missed) <= faults
  <2>1. crashes = 0
    <3>1. crashes \in Nat
        BY DEF IInv, TypeOK
    <3>2. crashes' = crashes \/ crashes' = crashes + 1
        BY DEF Next, Send, Write, Get, Commit, IngestRaises, HookRaises, AutoRun, Tick, Crash, bounds
    <3>q. QED
        BY <3>1, <3>2
  <2>q. QED
      BY <2>1 DEF IInv, LatestIsEvaluated, Missed
<1>3. faults \in Nat /\ faults' \in Nat
    BY TypeStep DEF IInv, TypeOK
<1>4. CASE Missed' \subseteq Missed /\ faults <= faults'
  <2>1. Cardinality(Missed') <= Cardinality(Missed) /\ IsFiniteSet(Missed')
      BY <1>1, <1>4, FS_Subset
  <2>2. Cardinality(Missed') \in Nat
      BY <2>1, FS_CardinalityType
  <2>q. QED
      BY <1>1, <1>2, <1>3, <1>4, <2>1, <2>2
<1>5. CASE \E f \in hooks : Missed' \subseteq Missed \cup {f.trace} /\ faults' = faults + 1
  <2>1. PICK t : Missed' \subseteq Missed \cup {t} /\ faults' = faults + 1
      BY <1>5
  <2>2. /\ IsFiniteSet(Missed \cup {t})
        /\ Cardinality(Missed \cup {t}) = IF t \in Missed THEN Cardinality(Missed) ELSE Cardinality(Missed) + 1
      BY <1>1, FS_AddElement
  <2>3. Cardinality(Missed') <= Cardinality(Missed \cup {t}) /\ IsFiniteSet(Missed')
      BY <2>1, <2>2, FS_Subset
  <2>4. Cardinality(Missed') \in Nat
      BY <2>3, FS_CardinalityType
  <2>q. QED
      BY <1>1, <1>2, <1>3, <2>1, <2>2, <2>3, <2>4
<1>q. QED
    BY <1>4, <1>5, MissedStep
-------------------------------------------------------------------------------
(* The theorems.                                                           *)

\* The invariant holds at the start.
LEMMA Starts == Init => IInv
<1> SUFFICES ASSUME Init PROVE IInv
    OBVIOUS
<1>1. MaxResends \in Nat /\ Cooldown \in Nat
    BY BoundsAssumption
<1>2. NoReq \in ReqType
    BY <1>1 DEF NoReq, ReqType
<1>3. TypeOK
    BY <1>1, <1>2 DEF Init, TypeOK
<1>4. Rows = {}
    BY DEF Init, Rows
<1>5. CatalogInv /\ BreakerInv /\ resends <= MaxResends
    BY <1>1, <1>4 DEF Init, CatalogInv, BreakerInv
<1>6. \A x \in Exports : ExportInv(x)
    BY DEF Init, ExportInv, SendInv, WorkInv, FileInv, RowInv, Busy, NoReq
<1>7. LatestIsEvaluated
  <2>1. Missed = {} /\ faults = 0
      BY <1>4 DEF Missed, Init
  <2>q. QED
      BY <2>1, FS_EmptySet DEF LatestIsEvaluated, Missed
<1>q. QED
    BY <1>3, <1>5, <1>6, <1>7 DEF IInv

\* Every step preserves it.
LEMMA Steps == IInv /\ [Next]_vars => IInv'
<1> SUFFICES ASSUME IInv, [Next]_vars PROVE IInv'
    OBVIOUS
<1>1. CASE Next
  <2>1. TypeOK'
      BY <1>1, TypeStep
  <2>2. resends' <= MaxResends
      BY <1>1, RequestTypes
  <2>3. CatalogInv'
      BY <1>1, CatalogStep
  <2>4. (\A x \in Exports : ExportInv(x))'
      BY <1>1, ExportStep
  <2>5. BreakerInv'
      BY <1>1, BreakerStep
  <2>6. LatestIsEvaluated'
      BY <1>1, LatestStep
  <2>q. QED
      BY <2>1, <2>2, <2>3, <2>4, <2>5, <2>6 DEF IInv
<1>2. CASE UNCHANGED vars
  <2>1. /\ UNCHANGED <<onDisk, archived, failures, closed, remaining, quiet, catalog, pc, req>>
        /\ UNCHANGED <<hooks, evaluated, resends, s3Faults, faults, crashes>>
      BY <1>2 DEF vars, blob, breaker, auto, bounds
  <2>2. TypeOK' /\ (resends <= MaxResends)'
      BY <2>1 DEF IInv, TypeOK
  <2>3. \A row, t : Sound(row, t)' <=> Sound(row, t)
      BY <2>1 DEF Sound, All, Times
  <2>4. Rows' = Rows
      BY <2>1 DEF Rows
  <2>5. CatalogInv' /\ BreakerInv'
      BY <2>1, <2>3, <2>4 DEF IInv, CatalogInv, BreakerInv
  <2>6. ASSUME NEW x \in Exports PROVE ExportInv(x)'
    <3>1. Landed(x)' = Landed(x)
        BY <2>1, <2>4 DEF Landed
    <3>2. SendInv(x)' /\ WorkInv(x)' /\ FileInv(x)'
        BY <2>1, <3>1 DEF IInv, ExportInv, SendInv, WorkInv, FileInv, Busy
    <3>3. RowInv(x)'
        BY <2>1, <2>3, <2>4 DEF IInv, ExportInv, RowInv
    <3>q. QED
        BY <3>2, <3>3 DEF ExportInv
  <2>7. LatestIsEvaluated'
      BY <2>1, <2>4 DEF IInv, LatestIsEvaluated
  <2>q. QED
      BY <2>2, <2>5, <2>6, <2>7 DEF IInv
<1>q. QED
    BY <1>1, <1>2

\* So the invariant always holds.
LEMMA Always == Spec => []IInv
BY Starts, Steps, PTL DEF Spec

\* The store, the catalog, the breaker and every request keep their types.
THEOREM TypeCorrect == Spec => []TypeOK
<1>1. IInv => TypeOK
    BY DEF IInv
<1>q. QED
    BY <1>1, Always, PTL

\* An export answered 200 has every trace of it on disk and in the catalog
\* (TraceIngestService.ingest), whatever raised, raced or restarted before.
THEOREM AcknowledgedIsStored == Spec => []AcknowledgedLands
<1>1. IInv => AcknowledgedLands
    BY DEF IInv, ExportInv, WorkInv, AcknowledgedLands, Landed
<1>q. QED
    BY <1>1, Always, PTL

\* The row of a trace points to a file that is on disk and holds spans of this trace
\* (SqliteTraceCatalog.upsert_trace): the file is written before the row, and two upserts
\* of a trace whose columns mix still leave the batch of one of them.
THEOREM RowsAreReadable == Spec => []RowIsReadable
<1>1. IInv => RowIsReadable
    BY DEF IInv, CatalogInv, Sound, RowIsReadable
<1>q. QED
    BY <1>1, Always, PTL

\* The batch a row points to was read by an automatic run or will be, except of as many
\* traces as hooks raised (AutoRuleTrigger): a hook reads the row when it gets the lock.
THEOREM LatestBatchIsEvaluated == Spec => []LatestIsEvaluated
<1>1. IInv => LatestIsEvaluated
    BY DEF IInv
<1>q. QED
    BY <1>1, Always, PTL

\* A batch is missing from the archive only if an archive write failed within the last
\* cool-down (HybridBlobStore): an open circuit closes when the cool-down has passed.
THEOREM GapsComeFromFailures == Spec => GapsOnlyAfterFailure
<1>1. IInv /\ [Next]_vars => [\A f \in onDisk' \ onDisk : f \in archived' \/ quiet' < Cooldown]_vars
    BY BreakerStep
<1>q. QED
    BY <1>1, Always, PTL DEF Spec, GapsOnlyAfterFailure

\* A row stays within what the exports carry of its trace, and an upsert only widens it,
\* unless the row changed between its load and its commit (SqliteTraceCatalog.upsert_trace).
THEOREM RowsOnlyWiden == Spec => RowsWiden
<1>1. IInv => NeverInflated
    BY DEF IInv, CatalogInv, Sound, NeverInflated, All, Times
<1>2. ASSUME IInv, Next PROVE WidensRows
  <2> DEFINE Wider(t) ==
          \/ catalog'[t].start <= catalog[t].start /\ catalog'[t].count >= catalog[t].count
          \/ \E x \in Exports : pc[x] = "commit" /\ pc'[x] # "commit"
                                /\ req[x].file.trace = t /\ req[x].row # catalog[t]
  <2>1. \A t \in Rows : catalog[t].start \in Nat /\ catalog[t].count \in Nat
    <3>1. \A row \in RowType : row.start \in Nat /\ row.count \in Nat
        BY SpansAssumption DEF RowType
    <3>q. QED
        BY <1>2, <3>1, Known
  <2>2. CASE \E x \in Exports : Commit(x)
    <3>1. PICK x \in Exports : Commit(x)
        BY <2>2
    <3> DEFINE t == req[x].file.trace
    <3>2. PICK w \in RowType :
              /\ catalog' = [catalog EXCEPT ![t] = w]
              /\ t \in Rows /\ req[x].row = catalog[t] =>
                     w.start <= catalog[t].start /\ w.count >= catalog[t].count
        BY <1>2, <3>1, Committed
    <3>3. catalog \in [Traces -> RowType \cup {NoRow}] /\ Rows \subseteq Traces
        BY <1>2 DEF IInv, TypeOK, Rows
    <3>4. pc[x] = "commit" /\ pc'[x] # "commit"
        BY <1>2, <3>1 DEF Commit, Answer, At, IInv, TypeOK
    <3>5. ASSUME t \in Rows PROVE Wider(t)
        BY <3>2, <3>3, <3>4, <3>5
    <3>6. ASSUME NEW u \in Rows, u # t PROVE Wider(u)
        BY <2>1, <3>2, <3>3, <3>6
    <3>q. QED
        BY <3>5, <3>6 DEF WidensRows
  <2>3. CASE ~ \E x \in Exports : Commit(x)
    <3>1. catalog' = catalog
        BY <1>2, <2>3 DEF Next, Send, Write, Get, IngestRaises, HookRaises, AutoRun, Tick, Crash
    <3>q. QED
        BY <2>1, <3>1 DEF WidensRows
  <2>q. QED
      BY <2>2, <2>3
<1>3. IInv /\ [Next]_vars => [WidensRows]_vars
    BY <1>2
<1>q. QED
    BY <1>1, <1>3, Always, PTL DEF Spec, RowsWiden

===============================================================================
