---------------------------- MODULE AlgorithmsProofs ----------------------------
(***************************************************************************)
(* Theorems about GoldenSets, for any finite set of items and of starts,    *)
(* and about the pure parts of MCAlgorithms, for inputs of any size: the    *)
(* query engines, then the panel of judges and the rules.                   *)
(*                                                                         *)
(* That only the newest revision is open is not inductive: a start that     *)
(* read the newest revision inserts the next one several awaits later.  It  *)
(* needs StartInv, what such a start still knows when it inserts: every     *)
(* revision below the number it chose is locked, and locked ones stay so.   *)
(*                                                                         *)
(* The pure parts need no invariant but facts about finite sets.  Where a   *)
(* fact is about sets of any size, a least counterexample takes the place   *)
(* of an induction (Smallest).                                              *)
(***************************************************************************)
EXTENDS MCAlgorithms, TLAPS, FiniteSetTheorems, SequenceTheorems, WellFoundedInduction

\* What a start knows at its next await: the revision it has exists; the
\* revisions below the number it will insert exist and are locked; the revision
\* the lock gave it is locked.
StartInv(r) ==
    /\ pc[r] \in {"lock", "commit", "select", "started"} => start[r].revision \in 1..Latest
    /\ pc[r] = "insert" =>
          /\ start[r].revision \in 1..(Latest + 1)
          /\ \A n \in 1..(start[r].revision - 1) : revisions[n].immutable
    /\ pc[r] \in {"select", "started"} => revisions[start[r].revision].immutable

IInv == TypeOK /\ (\A r \in Starts : StartInv(r)) /\ OnlyLatestIsOpen /\ BoundIsLocked

\* No step removes a revision or opens a locked one.
Grows ==
    /\ Len(revisions') >= Len(revisions)
    /\ \A n \in 1..Len(revisions) : revisions[n].immutable => revisions'[n].immutable

\* A set of the items counts at most as many as there are items.
LEMMA Counts == \A S \in SUBSET Items : Cardinality(S) \in 0..Cardinality(Items)
<1>1. SUFFICES ASSUME NEW S \in SUBSET Items PROVE Cardinality(S) \in 0..Cardinality(Items)
  OBVIOUS
<1>2. IsFiniteSet(S) /\ Cardinality(S) <= Cardinality(Items)
  BY SetsAssumption, FS_Subset
<1>3. Cardinality(S) \in Nat /\ Cardinality(Items) \in Nat
  BY <1>2, SetsAssumption, FS_CardinalityType
<1> QED BY <1>2, <1>3

\* The items can be counted.
LEMMA SizeOfItems == Cardinality(Items) \in Nat
  BY SetsAssumption, FS_CardinalityType

\* The initial state satisfies the inductive invariant.
LEMMA InitIInv == Init => IInv
<1> SUFFICES ASSUME Init PROVE IInv
  OBVIOUS
<1> USE DEF Init
<1>1. NoStart \in LocalType
  BY SizeOfItems DEF NoStart, Local, LocalType
<1>2. TypeOK
  BY <1>1 DEF TypeOK, Steps
<1>3. \A r \in Starts : StartInv(r)
  BY DEF StartInv
<1>4. Len(revisions) = 0
  OBVIOUS
<1>5. OnlyLatestIsOpen /\ BoundIsLocked
  BY <1>4 DEF OnlyLatestIsOpen, BoundIsLocked, Latest
<1> QED BY <1>2, <1>3, <1>5 DEF IInv

\* A start that moves to a step with local variables keeps the types of both and
\* leaves the other starts alone.
LEMMA Moves ==
    ASSUME TypeOK, NEW r \in Starts, NEW step \in Steps, NEW l \in LocalType, To(r, step, l)
    PROVE  /\ pc' \in [Starts -> Steps] /\ start' \in [Starts -> LocalType]
           /\ pc'[r] = step /\ start'[r] = l
           /\ \A q \in Starts \ {r} : pc'[q] = pc[q] /\ start'[q] = start[q]
BY DEF To, TypeOK

\* An INSERT that succeeds adds one open revision.
LEMMA Inserted ==
    ASSUME TypeOK, revisions' = Append(revisions, [immutable |-> FALSE, count |-> 0])
    PROVE  /\ revisions' \in Seq(Revision)
           /\ Len(revisions') = Len(revisions) + 1
           /\ \A n \in 1..Len(revisions) : revisions'[n] = revisions[n]
           /\ Grows
<1>1. [immutable |-> FALSE, count |-> 0] \in Revision
  BY SizeOfItems DEF Revision
<1>2. revisions \in Seq(Revision) /\ Len(revisions) \in Nat
  BY DEF TypeOK
<1>3. /\ revisions' \in Seq(Revision)
      /\ Len(revisions') = Len(revisions) + 1
      /\ \A n \in 1..Len(revisions) : revisions'[n] = revisions[n]
  BY <1>1, <1>2, AppendProperties
<1> QED BY <1>2, <1>3 DEF Grows

\* A start that commits its lock has a revision, which it locks.
LEMMA LocksIt ==
    ASSUME TypeOK, NEW r \in Starts, StartInv(r), CommitLock(r)
    PROVE  /\ start[r].revision \in 1..Len(revisions)
           /\ revisions' \in Seq(Revision)
           /\ Len(revisions') = Len(revisions)
           /\ revisions'[start[r].revision].immutable
           /\ \A n \in 1..Len(revisions) : revisions'[n].immutable <=>
                                 n = start[r].revision \/ revisions[n].immutable
           /\ Grows
<1>1. start[r].revision \in 1..Len(revisions) /\ Len(revisions) \in Nat
  BY DEF StartInv, CommitLock, Latest, TypeOK
<1>2. start[r] \in LocalType /\ revisions \in Seq(Revision)
  BY DEF TypeOK
<1>3. Locked(r) \in Revision /\ Locked(r).immutable
  BY <1>2 DEF Locked, LocalType, Revision
<1>4. revisions' = [revisions EXCEPT ![start[r].revision] = Locked(r)]
  BY DEF CommitLock
<1>5. /\ revisions' \in Seq(Revision)
      /\ Len(revisions') = Len(revisions)
      /\ \A n \in 1..Len(revisions) :
            revisions'[n] = IF n = start[r].revision THEN Locked(r) ELSE revisions[n]
  BY <1>1, <1>2, <1>3, <1>4, ExceptSeq
<1> QED BY <1>1, <1>3, <1>5 DEF Grows

\* Every action keeps the types.
LEMMA StepTypes == IInv /\ [Next]_vars => TypeOK'
<1> SUFFICES ASSUME IInv, TypeOK, [Next]_vars PROVE TypeOK'
  BY DEF IInv
<1>0. NoStart \in LocalType /\ {"ensure", "insert", "lock", "commit", "select", "started",
                                "failed"} \subseteq Steps
  BY SizeOfItems DEF NoStart, Local, LocalType, Steps
<1>1. CASE \E i \in Items : LoadForInsert(i) \/ AddItem(i) \/ UpdateStatus(i) \/ DeleteItem(i)
  <2>1. status' \in [Items -> Statuses \cup {"absent", "adding", "gone"}] /\ reviews' \in Nat
    BY <1>1 DEF LoadForInsert, AddItem, UpdateStatus, DeleteItem, TypeOK, Statuses
  <2> QED
    BY <2>1, <1>1 DEF LoadForInsert, AddItem, UpdateStatus, DeleteItem, TypeOK
<1>2. CASE DeleteSet
  BY <1>2 DEF DeleteSet, TypeOK, items
<1>3. ASSUME NEW r \in Starts, LoadSet(r) PROVE TypeOK'
  <2>1. pc' \in [Starts -> Steps] /\ start' \in [Starts -> LocalType]
    BY <1>0, <1>3, Moves DEF LoadSet
  <2> QED BY <2>1, <1>3 DEF LoadSet, TypeOK, items
<1>4. ASSUME NEW r \in Starts, ReadLatest(r) PROVE TypeOK'
  <2>1. Latest \in Nat
    BY DEF TypeOK, Latest
  <2>2. Local(Latest, 0, {}) \in LocalType /\ Local(Latest + 1, 0, {}) \in LocalType
    BY <2>1, SizeOfItems DEF Local, LocalType
  <2>3. pc' \in [Starts -> Steps] /\ start' \in [Starts -> LocalType]
    BY <1>0, <2>2, <1>4, Moves DEF ReadLatest
  <2> QED BY <2>3, <1>4 DEF ReadLatest, TypeOK, items
<1>5. ASSUME NEW r \in Starts, InsertRevision(r) PROVE TypeOK'
  <2>1. start[r] \in LocalType
    BY DEF TypeOK
  <2>2. revisions' \in Seq(Revision)
    BY <1>5, Inserted DEF InsertRevision, TypeOK
  <2>3. pc' \in [Starts -> Steps] /\ start' \in [Starts -> LocalType]
    BY <1>0, <2>1, <1>5, Moves DEF InsertRevision
  <2> QED BY <2>2, <2>3, <1>5 DEF InsertRevision, TypeOK, items
<1>6. ASSUME NEW r \in Starts, ReadRevision(r) PROVE TypeOK'
  <2>1. Cardinality(Present) \in 0..Cardinality(Items)
    BY Counts DEF Present
  <2>2. start[r] \in LocalType /\ Local(start[r].revision, Cardinality(Present), {}) \in LocalType
    BY <2>1 DEF TypeOK, Local, LocalType
  <2>3. pc' \in [Starts -> Steps] /\ start' \in [Starts -> LocalType]
    BY <1>0, <2>2, <1>6, Moves DEF ReadRevision
  <2> QED BY <2>3, <1>6 DEF ReadRevision, TypeOK, items
<1>7. ASSUME NEW r \in Starts, CommitLock(r) PROVE TypeOK'
  <2>1. start[r] \in LocalType /\ start[r].revision \in Nat
    BY DEF TypeOK, LocalType
  <2>2. revisions' \in Seq(Revision)
    BY <1>7, LocksIt DEF IInv
  <2>3. binding' \in [Items -> Nat]
    BY <2>1, <1>7 DEF CommitLock, TypeOK
  <2>4. pc' \in [Starts -> Steps] /\ start' \in [Starts -> LocalType]
    BY <1>0, <2>1, <1>7, Moves DEF CommitLock
  <2> QED BY <2>2, <2>3, <2>4, <1>7 DEF CommitLock, TypeOK
<1>8. ASSUME NEW r \in Starts, SelectItems(r) PROVE TypeOK'
  <2>1. Eligible \in SUBSET Items
    BY DEF Eligible, Present
  <2>2. Local(start[r].revision, start[r].count, Eligible) \in LocalType
    BY <2>1 DEF TypeOK, Local, LocalType
  <2>3. pc' \in [Starts -> Steps] /\ start' \in [Starts -> LocalType]
    BY <1>0, <2>2, <1>8, Moves DEF SelectItems
  <2> QED BY <2>3, <1>8 DEF SelectItems, TypeOK, items
<1>9. CASE UNCHANGED vars
  BY <1>9 DEF vars, items, TypeOK
<1> QED
  BY <1>1, <1>2, <1>3, <1>4, <1>5, <1>6, <1>7, <1>8, <1>9 DEF Next

\* Revisions are only added and locked.
LEMMA StepGrows == IInv /\ [Next]_vars => Grows
<1> SUFFICES ASSUME IInv, [Next]_vars PROVE Grows
  OBVIOUS
<1>1. TypeOK /\ Len(revisions) \in Nat
  BY DEF IInv, TypeOK
<1>2. CASE UNCHANGED revisions
  BY <1>1, <1>2 DEF Grows
<1>3. ASSUME NEW r \in Starts, InsertRevision(r) PROVE Grows
  BY <1>1, <1>2, <1>3, Inserted DEF InsertRevision
<1>4. ASSUME NEW r \in Starts, CommitLock(r) PROVE Grows
  BY <1>1, <1>4, LocksIt DEF IInv
<1> QED
  BY <1>2, <1>3, <1>4
     DEF Next, vars, LoadForInsert, AddItem, UpdateStatus, DeleteItem, DeleteSet,
         LoadSet, ReadLatest, ReadRevision, SelectItems

\* What a start knows outlives the steps of the others: revisions only grow.
LEMMA StartKeeps ==
    ASSUME TypeOK, TypeOK', Grows, NEW r \in Starts, StartInv(r),
           pc'[r] = pc[r], start'[r] = start[r]
    PROVE  StartInv(r)'
<1>1. Len(revisions) \in Nat /\ Len(revisions') \in Nat /\ start[r].revision \in Nat
  BY DEF TypeOK, LocalType
<1> QED
  BY <1>1 DEF StartInv, Grows, Latest

\* Every action keeps what each start knows: the step of a start establishes its
\* own part from what it read, the others keep theirs.
LEMMA StepStarts == IInv /\ [Next]_vars => \A r \in Starts : StartInv(r)'
<1> SUFFICES ASSUME IInv, [Next]_vars, NEW q \in Starts PROVE StartInv(q)'
  OBVIOUS
<1>0. TypeOK /\ TypeOK' /\ Grows /\ StartInv(q)
  BY StepTypes, StepGrows DEF IInv
<1>1. CASE pc'[q] = pc[q] /\ start'[q] = start[q]
  BY <1>0, <1>1, StartKeeps
<1>2. start[q] \in LocalType /\ start[q].revision \in Nat /\ Latest \in Nat /\ Latest' \in Nat
  BY <1>0 DEF TypeOK, LocalType, Latest
<1>3. NoStart \in LocalType /\ {"ensure", "insert", "lock", "commit", "select", "started",
                                "failed"} \subseteq Steps
  BY SizeOfItems DEF NoStart, Local, LocalType, Steps
<1>4. ASSUME NEW r \in Starts, LoadSet(r) PROVE StartInv(q)'
  <2>1. \/ pc'[q] = pc[q] /\ start'[q] = start[q]
        \/ pc'[q] \in {"ensure", "failed"}
    BY <1>0, <1>3, <1>4, Moves DEF LoadSet
  <2> QED BY <2>1, <1>1 DEF StartInv
<1>5. ASSUME NEW r \in Starts, ReadLatest(r) PROVE StartInv(q)'
  <2>1. CASE q # r
    <3>1. Local(Latest, 0, {}) \in LocalType /\ Local(Latest + 1, 0, {}) \in LocalType
      BY <1>2, SizeOfItems DEF Local, LocalType
    <3> QED BY <2>1, <3>1, <1>0, <1>1, <1>3, <1>5, Moves DEF ReadLatest
  <2>2. CASE q = r
    <3>1. Local(Latest, 0, {}) \in LocalType /\ Local(Latest + 1, 0, {}) \in LocalType
      BY <1>2, SizeOfItems DEF Local, LocalType
    <3>2. \/ pc'[q] = "failed"
          \/ pc'[q] = "lock" /\ start'[q] = Local(Latest, 0, {}) /\ Latest > 0
          \/ /\ pc'[q] = "insert" /\ start'[q] = Local(Latest + 1, 0, {})
             /\ Latest > 0 => revisions[Latest].immutable
      BY <2>2, <3>1, <1>0, <1>3, <1>5, Moves DEF ReadLatest
    <3>3. revisions' = revisions /\ Latest' = Latest
      BY <1>5 DEF ReadLatest, Latest
    <3>4. \A n \in 1..(Latest - 1) : revisions[n].immutable
      BY DEF IInv, OnlyLatestIsOpen
    <3> QED BY <3>2, <3>3, <3>4, <1>2 DEF StartInv, Local
  <2> QED BY <2>1, <2>2
<1>6. ASSUME NEW r \in Starts, InsertRevision(r) PROVE StartInv(q)'
  <2>1. start[r] \in LocalType
    BY <1>0 DEF TypeOK
  <2>2. CASE q # r
    BY <2>1, <2>2, <1>0, <1>1, <1>3, <1>6, Moves DEF InsertRevision
  <2>3. CASE q = r
    <3>1. \/ pc'[q] = "failed"
          \/ /\ pc'[q] = "lock" /\ start'[q] = start[q] /\ Latest < start[q].revision
             /\ revisions' = Append(revisions, [immutable |-> FALSE, count |-> 0])
      BY <2>1, <2>3, <1>0, <1>3, <1>6, Moves DEF InsertRevision
    <3>2. start[q].revision \in 1..(Latest + 1)
      BY <2>3, <1>0, <1>6 DEF StartInv, InsertRevision
    <3> QED BY <3>1, <3>2, <1>0, <1>2, Inserted DEF StartInv, Latest
  <2> QED BY <2>2, <2>3
<1>7. ASSUME NEW r \in Starts, ReadRevision(r) PROVE StartInv(q)'
  <2> DEFINE Counted == Local(start[r].revision, Cardinality(Present), {})
  <2>1. start[r] \in LocalType /\ Counted \in LocalType
    BY <1>0, Counts DEF TypeOK, Local, LocalType, Present
  <2>2. CASE q # r
    BY <2>1, <2>2, <1>0, <1>1, <1>3, <1>7, Moves DEF ReadRevision
  <2>3. CASE q = r
    <3>1. \/ /\ pc'[q] = "select" /\ start'[q] = start[q]
             /\ revisions[start[q].revision].immutable
          \/ pc'[q] = "commit" /\ start'[q] = Counted
      BY <2>1, <2>3, <1>0, <1>3, <1>7, Moves DEF ReadRevision
    <3>2. start[q].revision \in 1..Latest /\ revisions' = revisions /\ Latest' = Latest
      BY <2>3, <1>0, <1>7 DEF StartInv, ReadRevision, Latest
    <3> QED BY <2>3, <3>1, <3>2 DEF StartInv, Local
  <2> QED BY <2>2, <2>3
<1>8. ASSUME NEW r \in Starts, CommitLock(r) PROVE StartInv(q)'
  <2>1. start[r] \in LocalType
    BY <1>0 DEF TypeOK
  <2>2. CASE q # r
    BY <2>1, <2>2, <1>0, <1>1, <1>3, <1>8, Moves DEF CommitLock
  <2>3. CASE q = r
    <3>1. pc'[q] = "select" /\ start'[q] = start[q]
      BY <2>1, <2>3, <1>0, <1>3, <1>8, Moves DEF CommitLock
    <3> QED BY <2>3, <3>1, <1>0, <1>8, LocksIt DEF StartInv, Latest
  <2> QED BY <2>2, <2>3
<1>9. ASSUME NEW r \in Starts, SelectItems(r) PROVE StartInv(q)'
  <2> DEFINE Selected == Local(start[r].revision, start[r].count, Eligible)
  <2>1. Selected \in LocalType
    BY <1>0 DEF TypeOK, Local, LocalType, Eligible, Present
  <2>2. CASE q # r
    BY <2>1, <2>2, <1>0, <1>1, <1>3, <1>9, Moves DEF SelectItems
  <2>3. CASE q = r
    <3>1. \/ pc'[q] = "failed"
          \/ pc'[q] = "started" /\ start'[q] = Selected
      BY <2>1, <2>3, <1>0, <1>3, <1>9, Moves DEF SelectItems
    <3>2. /\ start[q].revision \in 1..Latest /\ revisions[start[q].revision].immutable
          /\ revisions' = revisions /\ Latest' = Latest
      BY <2>3, <1>0, <1>9 DEF StartInv, SelectItems, Latest
    <3> QED BY <2>3, <3>1, <3>2 DEF StartInv, Local
  <2> QED BY <2>2, <2>3
<1> QED
  BY <1>1, <1>4, <1>5, <1>6, <1>7, <1>8, <1>9
     DEF Next, vars, LoadForInsert, AddItem, UpdateStatus, DeleteItem, DeleteSet

\* Every action keeps all revisions but the newest, and those of items, locked.
LEMMA StepClosed == IInv /\ [Next]_vars => OnlyLatestIsOpen' /\ BoundIsLocked'
<1> SUFFICES ASSUME IInv, [Next]_vars PROVE OnlyLatestIsOpen' /\ BoundIsLocked'
  OBVIOUS
<1>0. /\ TypeOK /\ Grows /\ OnlyLatestIsOpen /\ BoundIsLocked
      /\ Len(revisions) \in Nat /\ Len(revisions') \in Nat /\ binding \in [Items -> Nat]
      /\ revisions \in Seq(Revision) /\ revisions' \in Seq(Revision)
  BY StepTypes, StepGrows DEF IInv, TypeOK
<1>1. CASE UNCHANGED <<binding, revisions>>
  BY <1>0, <1>1 DEF OnlyLatestIsOpen, BoundIsLocked, Latest
<1>2. ASSUME NEW r \in Starts, InsertRevision(r) PROVE OnlyLatestIsOpen' /\ BoundIsLocked'
  <2>1. CASE revisions' = revisions
    BY <2>1, <1>1, <1>2 DEF InsertRevision, items
  <2>2. CASE Latest < start[r].revision
    <3>1. /\ start[r].revision \in 1..(Latest + 1)
          /\ \A n \in 1..(start[r].revision - 1) : revisions[n].immutable
      BY <1>2 DEF IInv, StartInv, InsertRevision
    <3>2. /\ Len(revisions') = Len(revisions) + 1
          /\ \A n \in 1..Len(revisions) : revisions'[n] = revisions[n]
      BY <2>2, <1>0, <1>2, Inserted DEF InsertRevision
    <3>3. \A n \in 1..Len(revisions) : revisions'[n].immutable
      BY <2>2, <3>1, <3>2, <1>0 DEF Latest
    <3>4. binding' = binding
      BY <1>2 DEF InsertRevision, items
    <3> QED BY <3>2, <3>3, <3>4, <1>0 DEF OnlyLatestIsOpen, BoundIsLocked, Latest
  <2> QED BY <2>1, <2>2, <1>2 DEF InsertRevision
<1>3. ASSUME NEW r \in Starts, CommitLock(r) PROVE OnlyLatestIsOpen' /\ BoundIsLocked'
  <2>1. /\ start[r].revision \in 1..Len(revisions)
        /\ Len(revisions') = Len(revisions)
        /\ revisions'[start[r].revision].immutable
    BY <1>0, <1>3, LocksIt DEF IInv
  <2>2. \A i \in Items : binding'[i] = binding[i] \/ binding'[i] = start[r].revision
    BY <1>0, <1>3 DEF CommitLock
  <2>3. OnlyLatestIsOpen'
    BY <2>1, <1>0 DEF OnlyLatestIsOpen, Grows, Latest
  <2>4. BoundIsLocked'
    BY <2>1, <2>2, <1>0 DEF BoundIsLocked, Grows
  <2> QED BY <2>3, <2>4
<1> QED
  BY <1>1, <1>2, <1>3
     DEF Next, vars, items, LoadForInsert, AddItem, UpdateStatus, DeleteItem, DeleteSet,
         LoadSet, ReadLatest, ReadRevision, SelectItems

\* So it always holds.
LEMMA Inductive == Spec => []IInv
<1>1. IInv /\ [Next]_vars => IInv'
  BY StepTypes, StepStarts, StepClosed DEF IInv
<1> QED BY InitIInv, <1>1, PTL DEF Spec

\* The variables keep their types: every count fits the items there are.
THEOREM TypeCorrect == Spec => []TypeOK
<1>1. IInv => TypeOK
  BY DEF IInv
<1> QED BY Inductive, <1>1, PTL

\* However many starts overlap, at most the newest revision is open, and whatever
\* an item or a started run refers to is locked.
THEOREM RevisionsAreClosed == Spec => []RevisionsClose
<1>1. IInv => RevisionsClose
  <2>1. TypeOK => DOMAIN revisions = 1..Latest
    BY DEF TypeOK, Latest
  <2> QED BY <2>1 DEF IInv, StartInv, RevisionsClose, RunIsPinned
<1> QED BY Inductive, <1>1, PTL

\* A bound item stays in its revision, and a locked revision stays locked.
THEOREM SnapshotsStay == Spec => SnapshotStays
<1> DEFINE BoundStay  == \A i \in Items : binding[i] # 0 => binding'[i] = binding[i]
           LockedStay == \A n \in DOMAIN revisions :
                            revisions[n].immutable => revisions'[n].immutable
<1>1. ASSUME IInv, [Next]_vars PROVE LockedStay
  <2>1. Grows /\ DOMAIN revisions = 1..Len(revisions)
    BY <1>1, StepGrows DEF IInv, TypeOK
  <2> QED BY <2>1 DEF Grows
<1>2. ASSUME IInv, [Next]_vars PROVE BoundStay
  <2>1. CASE UNCHANGED binding
    BY <2>1
  <2>2. ASSUME NEW r \in Starts, CommitLock(r) PROVE BoundStay
    BY <2>2 DEF CommitLock, Unbound
  <2> QED
    BY <2>1, <2>2, <1>2
       DEF Next, vars, items, LoadForInsert, AddItem, UpdateStatus, DeleteItem, DeleteSet,
           LoadSet, ReadLatest, InsertRevision, ReadRevision, SelectItems
<1>3. IInv /\ [Next]_vars => [BoundStay /\ LockedStay]_vars
  BY <1>1, <1>2
<1> QED BY Inductive, <1>3, PTL DEF Spec, SnapshotStays
-------------------------------------------------------------------------------
(* Sets of numbers and of sets.                                            *)

\* A set of numbers has a least one.
LEMMA LeastNumber ==
    ASSUME NEW N \in SUBSET Nat, N # {}
    PROVE  \E n \in N : \A m \in N : n <= m
<1> DEFINE R0 == OpToRel(<, Nat)
<1>1. IsWellFoundedOn(R0, Nat)
  BY NatLessThanWellFounded
<1>2. \A m, n \in Nat : <<m, n>> \notin R0 => n <= m
  BY DEF OpToRel
<1>3. \E n \in N : \A m \in N : ~ (<<m, n>> \in R0)
  <2> HIDE DEF R0
  <2>q. QED
    BY <1>1, WFMin
<1>q. QED
  BY <1>2, <1>3

\* Of any subsets of a finite set one is smallest.
LEMMA Smallest ==
    ASSUME NEW S, IsFiniteSet(S), NEW F \in SUBSET (SUBSET S), F # {}
    PROVE  \E U \in F : \A V \in F : Cardinality(U) <= Cardinality(V)
<1> DEFINE N == {Cardinality(U) : U \in F}
<1>1. N \in SUBSET Nat /\ N # {}
  BY FS_Subset, FS_CardinalityType
<1>2. PICK n \in N : \A m \in N : n <= m
  <2> HIDE DEF N
  <2>q. QED
    BY <1>1, LeastNumber
<1>q. QED
  BY <1>2

\* A finite set of integers has a least and a greatest element.
LEMMA Bounded ==
    ASSUME NEW X \in SUBSET Int, IsFiniteSet(X), X # {}
    PROVE  /\ \E x \in X : \A y \in X : x <= y
           /\ \E x \in X : \A y \in X : x >= y
<1> DEFINE Good(U) == (\E x \in U : \A y \in U : x <= y) /\ (\E x \in U : \A y \in U : x >= y)
           F == {U \in SUBSET X : U # {} /\ ~Good(U)}
<1>1. ASSUME F # {} PROVE FALSE
  <2>1. PICK U \in F : \A V \in F : Cardinality(U) <= Cardinality(V)
    <3> HIDE DEF F
    <3>1. F \in SUBSET (SUBSET X)
      BY DEF F
    <3>q. QED
      BY <1>1, <3>1, Smallest
  <2>2. PICK a \in U : a \in Int
    OBVIOUS
  <2>3. Cardinality(U \ {a}) = Cardinality(U) - 1 /\ Cardinality(U) \in Nat
    BY <2>2, FS_Subset, FS_RemoveElement, FS_CardinalityType
  <2>4. U \ {a} = {} \/ Good(U \ {a})
    <3>1. U \ {a} \notin F
      <4> HIDE DEF F
      <4>q. QED
        BY <2>1, <2>3
    <3>q. QED
      BY <3>1
  <2>5. CASE U \ {a} = {}
    <3>1. \A y \in U : y = a
      BY <2>5
    <3>2. (\A y \in U : a <= y) /\ (\A y \in U : a >= y)
      BY <2>2, <3>1
    <3>q. QED
      BY <2>2, <3>2
  <2>6. CASE Good(U \ {a})
    <3>1. PICK x \in U \ {a} : \A y \in U \ {a} : x <= y
      BY <2>6
    <3>2. PICK z \in U \ {a} : \A y \in U \ {a} : z >= y
      BY <2>6
    <3>3. U \subseteq Int
      OBVIOUS
    <3>4. \E w \in U : \A y \in U : w <= y
      <4>1. CASE a <= x
        BY <2>2, <3>1, <3>3, <4>1
      <4>2. CASE ~(a <= x)
        BY <2>2, <3>1, <3>3, <4>2
      <4>q. QED
        BY <4>1, <4>2
    <3>5. \E w \in U : \A y \in U : w >= y
      <4>1. CASE a >= z
        BY <2>2, <3>2, <3>3, <4>1
      <4>2. CASE ~(a >= z)
        BY <2>2, <3>2, <3>3, <4>2
      <4>q. QED
        BY <4>1, <4>2
    <3>q. QED
      BY <3>4, <3>5
  <2>q. QED
    BY <2>4, <2>5, <2>6
<1>q. QED
  BY <1>1

\* What Min and Max choose.
LEMMA MinIs ==
    ASSUME NEW X \in SUBSET Int, IsFiniteSet(X), X # {}
    PROVE  Q!Min(X) \in X /\ (\A y \in X : Q!Min(X) <= y) /\ Q!Max(X) \in X /\ (\A y \in X : Q!Max(X) >= y)
  BY Bounded DEF Q!Min, Q!Max

\* Min and Max are where one element is below or above all others.
LEMMA MinUnique ==
    ASSUME NEW X \in SUBSET Int, NEW x \in X
    PROVE  ((\A y \in X : x <= y) => Q!Min(X) = x) /\ ((\A y \in X : x >= y) => Q!Max(X) = x)
<1>1. ASSUME \A y \in X : x <= y PROVE Q!Min(X) = x
  <2>0. \E z \in X : \A y \in X : z <= y
    BY <1>1
  <2>1. Q!Min(X) \in X /\ \A y \in X : Q!Min(X) <= y
    BY <2>0, Zenon DEF Q!Min
  <2>2. Q!Min(X) \in Int /\ x \in Int /\ Q!Min(X) <= x /\ x <= Q!Min(X)
    BY <1>1, <2>1
  <2>q. QED
    BY <2>2
<1>2. ASSUME \A y \in X : x >= y PROVE Q!Max(X) = x
  <2>0. \E z \in X : \A y \in X : z >= y
    BY <1>2
  <2>1. Q!Max(X) \in X /\ \A y \in X : Q!Max(X) >= y
    BY <2>0, Zenon DEF Q!Max
  <2>2. Q!Max(X) \in Int /\ x \in Int /\ Q!Max(X) >= x /\ x >= Q!Max(X)
    BY <1>2, <2>1
  <2>q. QED
    BY <2>2
<1>q. QED
  BY <1>1, <1>2
-------------------------------------------------------------------------------
\* Cardinality means the same in the instance.
LEMMA SameCardinality == \A X : Q!Cardinality(X) = Cardinality(X)
  BY Zenon DEF Q!Cardinality, Cardinality

\* A store of spans, as the catalog and the files keep them.
IsStore(S) == IsFiniteSet(S) /\ \A s \in S : s.id \in Int /\ s.start \in Int /\ s.finish \in Int

\* The batch of a trace of the store.
LEMMA BatchIs ==
    ASSUME NEW S, IsStore(S), NEW t \in Q!TracesOf(S)
    PROVE  /\ Q!Batch(S, t) \in SUBSET S /\ Q!Batch(S, t) # {} /\ IsFiniteSet(Q!Batch(S, t))
           /\ Q!Summary(S, t).trace = t
           /\ Q!Summary(S, t).status = "ERROR" <=> Q!Failing(Q!Batch(S, t)) # {}
           /\ Q!Summary(S, t).start \in {s.start : s \in Q!Batch(S, t)}
           /\ \A s \in Q!Batch(S, t) : Q!Summary(S, t).start <= s.start
           /\ Q!Summary(S, t).finish \in {s.finish : s \in Q!Batch(S, t)}
           /\ \A s \in Q!Batch(S, t) : Q!Summary(S, t).finish >= s.finish
<1> DEFINE B == Q!Batch(S, t)
           X == {s.start : s \in B}
           Y == {s.finish : s \in B}
<1>1. B \in SUBSET S /\ B # {} /\ IsFiniteSet(B)
  <2>1. B \in SUBSET S /\ B # {}
    BY DEF Q!Batch, Q!TracesOf
  <2>q. QED
    BY <2>1, FS_Subset DEF IsStore
<1> HIDE DEF B
<1>2. X \in SUBSET Int /\ Y \in SUBSET Int /\ X # {} /\ Y # {}
  BY <1>1 DEF IsStore
<1>3. IsFiniteSet(X) /\ IsFiniteSet(Y)
  <2>1. [s \in B |-> s.start] \in Surjection(B, X) /\ [s \in B |-> s.finish] \in Surjection(B, Y)
    BY DEF Surjection
  <2>q. QED
    BY <1>1, <2>1, FS_Surjection
<1>4. Q!Summary(S, t).start = Q!Min(X) /\ Q!Summary(S, t).finish = Q!Max(Y) /\ Q!Summary(S, t).trace = t
  BY DEF Q!Summary, B
<1>5. Q!Summary(S, t).status = "ERROR" <=> Q!Failing(B) # {}
  BY DEF Q!Summary, B
<1>6. Q!Min(X) \in X /\ (\A y \in X : Q!Min(X) <= y) /\ Q!Max(Y) \in Y /\ (\A y \in Y : Q!Max(Y) >= y)
  <2> HIDE DEF X, Y
  <2>q. QED
    BY <1>2, <1>3, MinIs
<1>q. QED
  BY <1>1, <1>4, <1>5, <1>6 DEF B

\* The start of a row, as both engines compute it.
LEMMA RowStart ==
    ASSUME NEW S, NEW t
    PROVE  Q!Summary(S, t).start = Q!Min({s.start : s \in Q!Batch(S, t)})
  BY DEF Q!Summary

\* The spans of a range that cuts no trace are those of whole batches.
LEMMA RangeIsWhole ==
    ASSUME NEW S, IsStore(S), NEW r, Q!Whole(S, r), NEW M, M = Q!Where(S, None, r)
    PROVE  /\ M \in SUBSET S /\ IsStore(M) /\ Q!TracesOf(M) \in SUBSET Q!TracesOf(S)
           /\ \A t \in Q!TracesOf(M) : Q!Batch(M, t) = Q!Batch(S, t)
           /\ Q!Recent(Q!Index(S, None), r) = {Q!Summary(S, t) : t \in Q!TracesOf(M)}
<1>1. \A s \in S : s \in M <=> Q!InRange(s.start, r)
  BY DEF Q!Where
<1>2. M \in SUBSET S /\ Q!TracesOf(M) \in SUBSET Q!TracesOf(S)
  BY DEF Q!Where, Q!TracesOf
<1>3. IsStore(M)
  BY <1>2, FS_Subset DEF IsStore
<1>4. ASSUME NEW s \in S, NEW x \in S, s.trace = x.trace PROVE s \in M <=> x \in M
  BY <1>1, <1>4 DEF Q!Whole
<1>5. ASSUME NEW t \in Q!TracesOf(M) PROVE Q!Batch(M, t) = Q!Batch(S, t)
  <2>1. PICK x \in M : x.trace = t
    BY DEF Q!TracesOf
  <2>2. \A s \in S : s.trace = t => s \in M
    BY <1>2, <1>4, <2>1
  <2>q. QED
    BY <1>2, <2>2 DEF Q!Batch
<1>6. ASSUME NEW t \in Q!TracesOf(S) PROVE Q!InRange(Q!Summary(S, t).start, r) <=> t \in Q!TracesOf(M)
  <2>1. PICK s \in Q!Batch(S, t) : s.start = Q!Summary(S, t).start
    BY BatchIs
  <2>2. s \in S /\ s.trace = t
    BY DEF Q!Batch
  <2>3. t \in Q!TracesOf(M) <=> s \in M
    BY <1>2, <1>4, <2>2 DEF Q!TracesOf
  <2>q. QED
    BY <1>1, <2>1, <2>2, <2>3
<1>7. Q!Index(S, None) = {Q!Summary(S, t) : t \in Q!TracesOf(S)}
  BY DEF Q!Index
<1>8. Q!Recent(Q!Index(S, None), r) = {Q!Summary(S, t) : t \in Q!TracesOf(M)}
  <2>1. \A x : x \in Q!Recent(Q!Index(S, None), r) <=> x \in Q!Index(S, None) /\ Q!InRange(x.start, r)
    BY DEF Q!Recent
  <2>2. \A x : x \in Q!Recent(Q!Index(S, None), r) <=> \E t \in Q!TracesOf(M) : x = Q!Summary(S, t)
    BY <1>2, <1>6, <1>7, <2>1
  <2>q. QED
    BY <2>2
<1>q. QED
  BY <1>2, <1>3, <1>5, <1>8

\* One row for each trace.
LEMMA RowsOfTraces ==
    ASSUME NEW S, IsStore(S), NEW U \in SUBSET Q!TracesOf(S), NEW rows, rows = {Q!Summary(S, t) : t \in U}
    PROVE  /\ IsFiniteSet(U) /\ IsFiniteSet(rows) /\ Cardinality(rows) = Cardinality(U)
           /\ Q!SpansOf(S, rows) = {s \in S : s.trace \in U}
<1> DEFINE f == [t \in U |-> Q!Summary(S, t)]
<1>1. IsFiniteSet(U)
  <2>1. [s \in S |-> s.trace] \in Surjection(S, Q!TracesOf(S))
    BY DEF Surjection, Q!TracesOf
  <2>2. IsFiniteSet(Q!TracesOf(S))
    BY <2>1, FS_Surjection DEF IsStore
  <2>q. QED
    BY <2>2, FS_Subset
<1>2. \A t \in U : Q!Summary(S, t).trace = t
  BY BatchIs
<1>3. f \in Bijection(U, rows)
  <2>1. \A t, u \in U : Q!Summary(S, t) = Q!Summary(S, u) => t = u
    BY <1>2
  <2>2. f \in [U -> rows] /\ \A row \in rows : \E t \in U : f[t] = row
    OBVIOUS
  <2>3. \A t, u \in U : f[t] = f[u] => t = u
    BY <2>1
  <2> HIDE DEF f
  <2>q. QED
    BY <2>2, <2>3 DEF Bijection, Injection, Surjection, IsInjective
<1>4. IsFiniteSet(rows) /\ Cardinality(rows) = Cardinality(U)
  BY <1>1, <1>3, FS_Bijection DEF ExistsBijection
<1>5. \A s : s \in Q!SpansOf(S, rows) <=> s \in S /\ s.trace \in U
  <2>1. \A s : s \in Q!SpansOf(S, rows) <=> \E row \in rows : s \in Q!Batch(S, row.trace)
    BY DEF Q!SpansOf
  <2>q. QED
    BY <1>2, <2>1 DEF Q!Batch
<1>q. QED
  BY <1>1, <1>4, <1>5

\* The rows of such a range are the batches of its spans.
LEMMA SpansOfRange ==
    ASSUME NEW S, IsStore(S), NEW r, Q!Whole(S, r)
    PROVE  Q!SpansOf(S, Q!Recent(Q!Index(S, None), r)) = Q!Where(S, None, r)
<1> DEFINE M == Q!Where(S, None, r)
           rows == Q!Recent(Q!Index(S, None), r)
           U == Q!TracesOf(M)
<1>1. /\ M \in SUBSET S /\ U \in SUBSET Q!TracesOf(S) /\ rows = {Q!Summary(S, t) : t \in U}
      /\ \A t \in U : Q!Batch(M, t) = Q!Batch(S, t)
  BY RangeIsWhole
<1> HIDE DEF M, rows
<1>2. Q!SpansOf(S, rows) = {s \in S : s.trace \in U}
  <2> HIDE DEF U
  <2>q. QED
    BY <1>1, RowsOfTraces
<1>3. ASSUME NEW s \in S, s.trace \in U PROVE s \in M
  <2>1. s \in Q!Batch(S, s.trace)
    BY DEF Q!Batch
  <2>2. s \in Q!Batch(M, s.trace)
    BY <1>1, <1>3, <2>1
  <2>q. QED
    BY <2>2 DEF Q!Batch
<1>4. \A s \in M : s.trace \in U
  BY DEF Q!TracesOf
<1>5. Q!SpansOf(S, rows) = M
  BY <1>1, <1>2, <1>3, <1>4
<1>q. QED
  BY <1>5 DEF M, rows

\* Over a range that cuts no trace both engines count the same from rows C that are
\* all the range has, and from fewer rows the one counts no more than the other.
LEMMA SameOverview ==
    ASSUME NEW S, IsStore(S), NEW r, Q!Whole(S, r), NEW e, Q!Where(S, None, r) = Q!Where(S, None, e),
           NEW C, C \subseteq Q!Index(S, None)
    PROVE  /\ Q!Overview(S, C, r).total <= Q!SqlOverview(S, None, e).total
           /\ Q!Overview(S, C, r).errors <= Q!SqlOverview(S, None, e).errors
           /\ Q!Kept(S, C, r) => Q!Common(Q!Overview(S, C, r)) = Q!Common(Q!SqlOverview(S, None, e))
<1> DEFINE M == Q!Where(S, None, r)
           rows == Q!Recent(Q!Index(S, None), r)
           U == Q!TracesOf(M)
           F == Q!TracesOf(Q!Failing(M))
           failed == {x \in rows : x.status = "ERROR"}
<1>1. /\ M \in SUBSET S /\ U \in SUBSET Q!TracesOf(S) /\ rows = {Q!Summary(S, t) : t \in U}
      /\ \A t \in U : Q!Batch(M, t) = Q!Batch(S, t)
  BY RangeIsWhole
<1> HIDE DEF M, rows
<1>2. Cardinality(rows) = Cardinality(U)
  <2> HIDE DEF U
  <2>q. QED
    BY <1>1, RowsOfTraces
<1>3. Q!SpansOf(S, rows) = M
  BY SpansOfRange DEF rows, M
<1>4. ASSUME NEW t \in U PROVE Q!Summary(S, t).status = "ERROR" <=> t \in F
  <2>1. Q!Summary(S, t).status = "ERROR" <=> Q!Failing(Q!Batch(S, t)) # {}
    BY <1>1, BatchIs
  <2>2. Q!Failing(Q!Batch(M, t)) # {} <=> t \in F
    BY DEF Q!Failing, Q!Batch, Q!TracesOf
  <2>q. QED
    BY <1>1, <2>1, <2>2
<1>5. F \in SUBSET U
  BY DEF Q!Failing, Q!TracesOf
<1>6. failed = {Q!Summary(S, t) : t \in F}
  <2> HIDE DEF F, U
  <2>1. \A x : x \in failed <=> \E t \in U : x = Q!Summary(S, t) /\ x.status = "ERROR"
    BY <1>1
  <2>2. \A x : x \in failed <=> \E t \in F : x = Q!Summary(S, t)
    BY <1>4, <1>5, <2>1
  <2>q. QED
    BY <2>2
<1>7. Cardinality(failed) = Cardinality(F)
  <2>1. F \in SUBSET Q!TracesOf(S)
    BY <1>1, <1>5
  <2> HIDE DEF F, failed
  <2>q. QED
    BY <1>6, <2>1, RowsOfTraces
<1>8. Q!Where(S, None, e) = M
  BY DEF M
<1> DEFINE o == Q!Overview(S, C, r)
           p == Q!SqlOverview(S, None, e)
           read == Q!Recent(C, r)
           broken == {x \in read : x.status = "ERROR"}
<1>9. o.total = Cardinality(read) /\ o.errors = Cardinality(broken) /\ o.tokens = Q!Tokens(Q!SpansOf(S, read))
        /\ o.models = Q!First(Q!CountBy(Q!SpansOf(S, read), "model"), TopLines, 2)
  <2>1. o.total = Cardinality(read)
    BY SameCardinality DEF Q!Overview
  <2>2. o.errors = Cardinality(broken)
    BY SameCardinality DEF Q!Overview
  <2>3. o.tokens = Q!Tokens(Q!SpansOf(S, read))
    BY DEF Q!Overview
  <2>4. o.models = Q!First(Q!CountBy(Q!SpansOf(S, read), "model"), TopLines, 2)
    BY DEF Q!Overview
  <2>q. QED
    BY <2>1, <2>2, <2>3, <2>4
<1>10. p.total = Cardinality(U) /\ p.errors = Cardinality(F) /\ p.tokens = Q!Tokens(M)
         /\ p.models = Q!First(Q!CountBy(M, "model"), TopLines, 2)
  BY <1>8, SameCardinality DEF Q!SqlOverview
<1>11. read \subseteq rows /\ (Q!Kept(S, C, r) => read = rows)
  BY DEF Q!Recent, Q!Kept, rows
<1>12. IsFiniteSet(rows)
  <2> HIDE DEF U
  <2>q. QED
    BY <1>1, RowsOfTraces
<1>13. broken \subseteq failed /\ IsFiniteSet(failed)
  BY <1>11, <1>12, FS_Subset
<1> HIDE DEF o, p, U, F, failed, broken, read
<1>14. Cardinality(read) <= Cardinality(rows) /\ Cardinality(broken) <= Cardinality(failed)
  BY <1>11, <1>12, <1>13, FS_Subset
<1>15. o.total <= p.total /\ o.errors <= p.errors
  BY <1>2, <1>7, <1>9, <1>10, <1>14
<1>16. ASSUME Q!Kept(S, C, r) PROVE Q!Common(o) = Q!Common(p)
  <2>1. read = rows /\ broken = failed
    BY <1>11, <1>16 DEF broken, failed
  <2>q. QED
    BY <2>1, <1>2, <1>3, <1>7, <1>9, <1>10 DEF Q!Common
<1>q. QED
  BY <1>15, <1>16 DEF o, p

\* A batch whose spans all carry the same carries that.
LEMMA CarriedIs ==
    ASSUME NEW B, IsStore(B), NEW s \in B, NEW attr, \A x \in B : x[attr] = s[attr]
    PROVE  Q!Carried(B, attr) = s[attr]
<1>1. CASE s[attr] = None
  BY <1>1 DEF Q!Carried, Q!Values
<1>2. CASE s[attr] # None
  <2>1. s[attr] \in Q!Values(B, attr)
    BY <1>2 DEF Q!Values
  <2> DEFINE X == {x.id : x \in B}
  <2>2. X \in SUBSET Int /\ X # {}
    BY DEF IsStore
  <2>3. IsFiniteSet(X)
    <3>1. [x \in B |-> x.id] \in Surjection(B, X)
      BY DEF Surjection
    <3>q. QED
      BY <3>1, FS_Surjection DEF IsStore
  <2>4. PICK n \in X : \A m \in X : n <= m
    <3> HIDE DEF X
    <3>q. QED
      BY <2>2, <2>3, Bounded
  <2>5. PICK y \in B : y.id = n
    OBVIOUS
  <2>6. y[attr] # None /\ \A x \in B : x[attr] # None => y.id <= x.id
    BY <1>2, <2>4, <2>5
  <2> DEFINE c == CHOOSE z \in B : z[attr] # None /\ \A x \in B : x[attr] # None => z.id <= x.id
  <2>7. c \in B
    BY <2>6, Zenon
  <2>8. Q!Carried(B, attr) = c[attr]
    BY <2>1 DEF Q!Carried
  <2> HIDE DEF c
  <2>q. QED
    BY <2>7, <2>8
<1>q. QED
  BY <1>1, <1>2

\* In a range that cuts no trace, each span carries what its batch does.
LEMMA BatchCarries ==
    ASSUME NEW S, IsStore(S), NEW r, Q!Whole(S, r), NEW s \in S
    PROVE  /\ Q!Carried(Q!Batch(S, s.trace), "session") = s["session"]
           /\ Q!Carried(Q!Batch(S, s.trace), "user") = s["user"]
<1> DEFINE B == Q!Batch(S, s.trace)
<1>1. B \in SUBSET S /\ s \in B /\ \A x \in B : x.trace = s.trace
  BY DEF Q!Batch
<1> HIDE DEF B
<1>2. IsStore(B)
  BY <1>1, FS_Subset DEF IsStore
<1>3. \A x \in B : x["session"] = s["session"] /\ x["user"] = s["user"]
  BY <1>1 DEF Q!Whole
<1>4. Q!Carried(B, "session") = s["session"]
  BY <1>1, <1>2, <1>3, CarriedIs
<1>5. Q!Carried(B, "user") = s["user"]
  BY <1>1, <1>2, <1>3, CarriedIs
<1>q. QED
  BY <1>4, <1>5 DEF B

\* What is compared of a group v: of its rows O by the catalog, of its spans G by SQL.
OfRows(S, O, v) ==
    <<v, Cardinality(O), Q!Tokens(Q!SpansOf(S, O)), Q!Min({x.start : x \in O}), Q!Max({x.finish : x \in O}),
      Cardinality({Q!Carried(Q!Batch(S, x.trace), "session") : x \in O} \ {None})>>
OfSpans(G, v) ==
    <<v, Cardinality(Q!TracesOf(G)), Q!Tokens(G), Q!Min({s.start : s \in G}), Q!Max({s.finish : s \in G}),
      Cardinality(Q!Values(G, "session"))>>

\* The rows whose batches carry a session or user make the same group as the spans
\* that do.
LEMMA OneGroup ==
    ASSUME NEW S, IsStore(S), NEW r, Q!Whole(S, r), NEW attr \in {"session", "user"}, NEW v,
           NEW M, M = Q!Where(S, None, r), NEW G, G = {s \in M : s[attr] = v}, G # {},
           NEW O, O = {row \in Q!Recent(Q!Index(S, None), r) : Q!Carried(Q!Batch(S, row.trace), attr) = v}
    PROVE  OfRows(S, O, v) = OfSpans(G, v)
<1> DEFINE U == Q!TracesOf(G)
<1>1. M \in SUBSET S /\ Q!TracesOf(M) \in SUBSET Q!TracesOf(S)
      /\ (\A t \in Q!TracesOf(M) : Q!Batch(M, t) = Q!Batch(S, t))
      /\ Q!Recent(Q!Index(S, None), r) = {Q!Summary(S, t) : t \in Q!TracesOf(M)}
  BY RangeIsWhole
<1>2. G \in SUBSET M
  OBVIOUS
<1>3. U \in SUBSET Q!TracesOf(M)
  BY <1>2 DEF Q!TracesOf
<1>4. \A s \in S : Q!Carried(Q!Batch(S, s.trace), attr) = s[attr]
  BY BatchCarries
<1>5. ASSUME NEW s \in S PROVE s.trace \in U <=> s \in G
  <2>1. ASSUME s.trace \in U PROVE s \in G
    <3>1. PICK x \in G : x.trace = s.trace
      BY <2>1 DEF Q!TracesOf
    <3>2. s[attr] = x[attr]
      BY <1>1, <1>2, <1>4, <3>1
    <3>3. s \in Q!Batch(M, x.trace)
      <4>1. x.trace \in Q!TracesOf(M) /\ s \in Q!Batch(S, x.trace)
        BY <1>2, <3>1 DEF Q!TracesOf, Q!Batch
      <4>q. QED
        BY <1>1, <4>1
    <3>q. QED
      BY <3>2, <3>3 DEF Q!Batch
  <2>q. QED
    BY <2>1 DEF Q!TracesOf
<1>6. ASSUME NEW t \in Q!TracesOf(M) PROVE Q!Carried(Q!Batch(S, t), attr) = v <=> t \in U
  <2>1. PICK s \in M : s.trace = t
    BY DEF Q!TracesOf
  <2>2. s \in S
    BY <1>1
  <2>3. Q!Carried(Q!Batch(S, t), attr) = s[attr]
    BY <1>4, <2>1, <2>2
  <2>4. s \in G <=> s[attr] = v
    OBVIOUS
  <2>q. QED
    BY <1>5, <2>1, <2>2, <2>3, <2>4
<1> HIDE DEF U
<1>7. O = {Q!Summary(S, t) : t \in U}
  <2>1. \A t \in Q!TracesOf(M) : Q!Summary(S, t).trace = t
    BY <1>1, BatchIs
  <2>2. \A x : x \in O <=> \E t \in Q!TracesOf(M) : x = Q!Summary(S, t) /\ Q!Carried(Q!Batch(S, t), attr) = v
    BY <1>1, <2>1
  <2>3. \A x : x \in O <=> \E t \in U : x = Q!Summary(S, t)
    BY <1>3, <1>6, <2>2
  <2>q. QED
    BY <2>3
<1>8. Cardinality(O) = Cardinality(U) /\ Q!SpansOf(S, O) = {s \in S : s.trace \in U}
  <2>1. U \in SUBSET Q!TracesOf(S)
    BY <1>1, <1>3
  <2>q. QED
    BY <1>7, <2>1, RowsOfTraces
<1>9. Q!SpansOf(S, O) = G
  BY <1>1, <1>2, <1>5, <1>8
<1>10. ASSUME NEW t \in U
       PROVE  /\ Q!Batch(S, t) \in SUBSET G
              /\ Q!Summary(S, t).trace = t
              /\ Q!Summary(S, t).start \in {s.start : s \in Q!Batch(S, t)}
              /\ Q!Summary(S, t).finish \in {s.finish : s \in Q!Batch(S, t)}
              /\ \A s \in Q!Batch(S, t) : Q!Summary(S, t).start <= s.start /\ Q!Summary(S, t).finish >= s.finish
  <2>1. t \in Q!TracesOf(S)
    BY <1>1, <1>3
  <2>2. Q!Batch(S, t) \in SUBSET G
    BY <1>5 DEF Q!Batch
  <2>q. QED
    BY <2>1, <2>2, BatchIs
<1>11. \A s \in G : s.trace \in U /\ s \in Q!Batch(S, s.trace) /\ s.start \in Int /\ s.finish \in Int
  BY <1>1, <1>2 DEF Q!Batch, Q!TracesOf, U, IsStore
<1>12. IsFiniteSet(G)
  BY <1>1, <1>2, FS_Subset DEF IsStore
<1>13. Q!Min({x.start : x \in O}) = Q!Min({s.start : s \in G})
  <2> DEFINE X == {x.start : x \in O}
             Y == {s.start : s \in G}
  <2>1. Y \in SUBSET Int /\ Y # {}
    BY <1>11
  <2>2. IsFiniteSet(Y)
    <3>1. [s \in G |-> s.start] \in Surjection(G, Y)
      BY DEF Surjection
    <3>q. QED
      BY <1>12, <3>1, FS_Surjection
  <2>3. PICK m \in Y : \A y \in Y : m <= y
    <3> HIDE DEF Y
    <3>q. QED
      BY <2>1, <2>2, Bounded
  <2>4. X \in SUBSET Y
    <3>1. \A t \in U : Q!Summary(S, t).start \in Y
      BY <1>10
    <3>q. QED
      BY <1>7, <3>1
  <2>5. PICK s \in G : s.start = m
    OBVIOUS
  <2>6. Q!Summary(S, s.trace).start \in X /\ Q!Summary(S, s.trace).start <= m
    BY <1>7, <1>10, <1>11, <2>5
  <2>7. m \in X
    <3> HIDE DEF X, Y
    <3>1. Q!Summary(S, s.trace).start \in Int /\ m \in Int /\ m <= Q!Summary(S, s.trace).start
      BY <2>1, <2>3, <2>4, <2>6
    <3>q. QED
      BY <2>6, <3>1
  <2>8. X \in SUBSET Int /\ \A y \in X : m <= y
    BY <2>1, <2>3, <2>4
  <2> HIDE DEF X, Y
  <2>9. Q!Min(X) = m /\ Q!Min(Y) = m
    BY <2>1, <2>3, <2>7, <2>8, MinUnique
  <2>q. QED
    BY <2>9 DEF X, Y
<1>14. Q!Max({x.finish : x \in O}) = Q!Max({s.finish : s \in G})
  <2> DEFINE X == {x.finish : x \in O}
             Y == {s.finish : s \in G}
  <2>1. Y \in SUBSET Int /\ Y # {}
    BY <1>11
  <2>2. IsFiniteSet(Y)
    <3>1. [s \in G |-> s.finish] \in Surjection(G, Y)
      BY DEF Surjection
    <3>q. QED
      BY <1>12, <3>1, FS_Surjection
  <2>3. PICK m \in Y : \A y \in Y : m >= y
    <3> HIDE DEF Y
    <3>q. QED
      BY <2>1, <2>2, Bounded
  <2>4. X \in SUBSET Y
    <3>1. \A t \in U : Q!Summary(S, t).finish \in Y
      BY <1>10
    <3>q. QED
      BY <1>7, <3>1
  <2>5. PICK s \in G : s.finish = m
    OBVIOUS
  <2>6. Q!Summary(S, s.trace).finish \in X /\ Q!Summary(S, s.trace).finish >= m
    BY <1>7, <1>10, <1>11, <2>5
  <2>7. m \in X
    <3> HIDE DEF X, Y
    <3>1. Q!Summary(S, s.trace).finish \in Int /\ m \in Int /\ m >= Q!Summary(S, s.trace).finish
      BY <2>1, <2>3, <2>4, <2>6
    <3>q. QED
      BY <2>6, <3>1
  <2>8. X \in SUBSET Int /\ \A y \in X : m >= y
    BY <2>1, <2>3, <2>4
  <2> HIDE DEF X, Y
  <2>9. Q!Max(X) = m /\ Q!Max(Y) = m
    BY <2>1, <2>3, <2>7, <2>8, MinUnique
  <2>q. QED
    BY <2>9 DEF X, Y
<1>15. {Q!Carried(Q!Batch(S, x.trace), "session") : x \in O} \ {None} = Q!Values(G, "session")
  <2>1. \A s \in G : Q!Carried(Q!Batch(S, s.trace), "session") = s["session"]
    BY <1>1, <1>2, BatchCarries
  <2>2. \A x \in O : \E s \in G : x.trace = s.trace
    BY <1>7, <1>10 DEF Q!TracesOf, U
  <2>3. \A s \in G : \E x \in O : x.trace = s.trace
    BY <1>7, <1>10, <1>11
  <2>4. \A c : (\E x \in O : c = Q!Carried(Q!Batch(S, x.trace), "session")) <=> \E s \in G : c = s["session"]
    BY <2>1, <2>2, <2>3
  <2>q. QED
    BY <2>4 DEF Q!Values
<1>q. QED
  BY <1>8, <1>9, <1>13, <1>14, <1>15 DEF U, OfRows, OfSpans

\* Both engines group the spans of such a range alike, one group for each key.
LEMMA GroupsAgree ==
    ASSUME NEW S, IsStore(S), NEW r, Q!Whole(S, r), NEW e, Q!Where(S, None, r) = Q!Where(S, None, e),
           NEW attr \in {"session", "user"}, NEW A, A = Q!Grouped(S, Q!Recent(Q!Index(S, None), r), attr),
           NEW B, B = Q!SqlGrouped(S, e, attr)
    PROVE  /\ IsFiniteSet(A) /\ IsFiniteSet(B) /\ Q!Rows(A) = Q!Rows(B)
           /\ \A g, h \in A : g.key = h.key => g = h
           /\ \A g, h \in B : g.key = h.key => g = h
<1> DEFINE M == Q!Where(S, None, r)
           rows == Q!Recent(Q!Index(S, None), r)
           O(v) == {row \in rows : Q!Carried(Q!Batch(S, row.trace), attr) = v}
           G(v) == {s \in M : s[attr] = v}
           K == {Q!Carried(Q!Batch(S, row.trace), attr) : row \in rows} \ {None}
<1>1. M \in SUBSET S /\ Q!TracesOf(M) \in SUBSET Q!TracesOf(S)
      /\ rows = {Q!Summary(S, t) : t \in Q!TracesOf(M)}
  BY RangeIsWhole
<1>2. K = Q!Values(M, attr)
  <2>1. \A s \in M : Q!Carried(Q!Batch(S, s.trace), attr) = s[attr]
    BY <1>1, BatchCarries
  <2>2. \A t \in Q!TracesOf(M) : Q!Summary(S, t).trace = t
    BY <1>1, BatchIs
  <2> HIDE DEF M, rows
  <2>3. \A c : (\E row \in rows : c = Q!Carried(Q!Batch(S, row.trace), attr))
                <=> \E t \in Q!TracesOf(M) : c = Q!Carried(Q!Batch(S, t), attr)
    BY <1>1, <2>2
  <2>4. \A c : (\E row \in rows : c = Q!Carried(Q!Batch(S, row.trace), attr)) <=> \E s \in M : c = s[attr]
    BY <2>1, <2>3 DEF Q!TracesOf
  <2>q. QED
    BY <2>4 DEF Q!Values
<1>3. ASSUME NEW v \in K PROVE OfRows(S, O(v), v) = OfSpans(G(v), v)
  <2>1. G(v) # {}
    BY <1>2 DEF Q!Values
  <2>2. PICK m, g, o : m = M /\ g = G(v) /\ o = O(v)
    OBVIOUS
  <2>3. m = Q!Where(S, None, r) /\ g = {s \in m : s[attr] = v} /\ g # {}
    BY <2>1, <2>2
  <2>4. o = {row \in Q!Recent(Q!Index(S, None), r) : Q!Carried(Q!Batch(S, row.trace), attr) = v}
    BY <2>2
  <2>5. OfRows(S, o, v) = OfSpans(g, v)
    BY <2>3, <2>4, OneGroup
  <2> HIDE DEF O, G, M
  <2>q. QED
    BY <2>2, <2>5
<1> DEFINE Tells(v) == [key |-> v, traces |-> Cardinality(O(v)), errors |-> Cardinality({x \in O(v) : x.status = "ERROR"}),
                        tokens |-> Q!Tokens(Q!SpansOf(S, O(v))),
                        from |-> Q!Min({x.start : x \in O(v)}), to |-> Q!Max({x.finish : x \in O(v)}),
                        sessions |-> Cardinality({Q!Carried(Q!Batch(S, x.trace), "session") : x \in O(v)} \ {None})]
           Says(v) == [key |-> v, traces |-> Cardinality(Q!TracesOf(G(v))), errors |-> Cardinality(Q!Failing(G(v))),
                       tokens |-> Q!Tokens(G(v)), from |-> Q!Min({s.start : s \in G(v)}), to |-> Q!Max({s.finish : s \in G(v)}),
                       sessions |-> Cardinality(Q!Values(G(v), "session"))]
<1>4. A = {Tells(v) : v \in K}
  BY SameCardinality DEF Q!Grouped
<1>5. B = {Says(v) : v \in Q!Values(M, attr)}
  BY SameCardinality DEF Q!SqlGrouped
<1>6. IsFiniteSet(Q!Values(M, attr))
  <2>1. IsFiniteSet(M)
    BY <1>1, FS_Subset DEF IsStore
  <2> DEFINE X == {s[attr] : s \in M}
  <2>2. [s \in M |-> s[attr]] \in Surjection(M, X)
    BY DEF Surjection
  <2>3. IsFiniteSet(X)
    <3> HIDE DEF X, M
    <3>q. QED
      BY <2>1, <2>2, FS_Surjection
  <2>4. Q!Values(M, attr) \in SUBSET X
    BY DEF Q!Values
  <2> HIDE DEF X, M
  <2>q. QED
    BY <2>3, <2>4, FS_Subset
<1>7. \A v : Tells(v).key = v /\ Says(v).key = v
  OBVIOUS
<1>8. \A v : <<Tells(v).key, Tells(v).traces, Tells(v).tokens, Tells(v).from, Tells(v).to, Tells(v).sessions>> = OfRows(S, O(v), v)
  <2> HIDE DEF O
  <2>q. QED
    BY DEF OfRows
<1>9. \A v : <<Says(v).key, Says(v).traces, Says(v).tokens, Says(v).from, Says(v).to, Says(v).sessions>> = OfSpans(G(v), v)
  <2> HIDE DEF G
  <2>q. QED
    BY DEF OfSpans
<1> HIDE DEF Tells, Says, K, M, O, G, rows
<1>10. IsFiniteSet(A) /\ IsFiniteSet(B)
  <2>1. [v \in K |-> Tells(v)] \in Surjection(K, A) /\ [v \in Q!Values(M, attr) |-> Says(v)] \in Surjection(Q!Values(M, attr), B)
    BY <1>4, <1>5 DEF Surjection
  <2>q. QED
    BY <1>2, <1>6, <2>1, FS_Surjection
<1>11. (\A g, h \in A : g.key = h.key => g = h) /\ \A g, h \in B : g.key = h.key => g = h
  BY <1>4, <1>5, <1>7
<1>12. \A z : z \in Q!Rows(A) <=> \E v \in K : z = OfRows(S, O(v), v)
  BY <1>4, <1>8 DEF Q!Rows
<1>13. \A z : z \in Q!Rows(B) <=> \E v \in Q!Values(M, attr) : z = OfSpans(G(v), v)
  BY <1>5, <1>9 DEF Q!Rows
<1>14. \A z : z \in Q!Rows(A) <=> z \in Q!Rows(B)
  BY <1>2, <1>3, <1>12, <1>13
<1>15. Q!Rows(A) = Q!Rows(B)
  <2> DEFINE X == Q!Rows(A)
             Y == Q!Rows(B)
  <2>1. \A z : z \in X <=> z \in Y
    BY <1>14
  <2> HIDE DEF X, Y
  <2>2. X = Y
    BY <2>1
  <2>q. QED
    BY <2>2 DEF X, Y
<1>q. QED
  BY <1>10, <1>11, <1>15

\* What p shows of each of the sets of rows F.
Shows(p, F) == {{p[x] : x \in U} : U \in F}

\* Rows and what is shown of them have the same first ones, if what is shown keeps
\* the key and tells the rows apart.
LEMMA FirstShown ==
    ASSUME NEW A, IsFiniteSet(A), NEW Z, NEW p \in Bijection(A, Z), NEW key, NEW at,
           \A x \in A : p[x][at] = x[key], NEW limit
    PROVE  Shows(p, Q!First(A, limit, key)) = Q!First(Z, limit, at)
<1>1. p \in [A -> Z] /\ (\A x, y \in A : p[x] = p[y] => x = y) /\ (\A z \in Z : \E x \in A : p[x] = z)
  BY DEF Bijection, Injection, Surjection, IsInjective
<1>2. IsFiniteSet(Z) /\ Cardinality(Z) = Cardinality(A)
  BY FS_Bijection DEF ExistsBijection
<1> DEFINE k == Q!Min({limit, Cardinality(A)})
           Leads(C, V, key_) == \A x \in V, y \in C \ V : x[key_] >= y[key_]
<1>3. \A V : V \in Q!First(A, limit, key) <=> V \in SUBSET A /\ Cardinality(V) = k /\ Leads(A, V, key)
  BY SameCardinality DEF Q!First, Q!kSubset
<1>4. \A W : W \in Q!First(Z, limit, at) <=> W \in SUBSET Z /\ Cardinality(W) = k /\ Leads(Z, W, at)
  BY <1>2, SameCardinality DEF Q!First, Q!kSubset
<1> HIDE DEF k
<1>5. ASSUME NEW V \in SUBSET A, NEW W, W = {p[x] : x \in V}
      PROVE  Cardinality(W) = Cardinality(V)
  <2> DEFINE h == [x \in V |-> p[x]]
  <2>1. h \in [V -> W] /\ (\A x, y \in V : h[x] = h[y] => x = y) /\ \A z \in W : \E x \in V : h[x] = z
    BY <1>1, <1>5
  <2> HIDE DEF h
  <2>2. h \in Bijection(V, W)
    BY <2>1 DEF Bijection, Injection, Surjection, IsInjective
  <2>3. IsFiniteSet(V)
    BY FS_Subset
  <2>q. QED
    BY <2>2, <2>3, FS_Bijection DEF ExistsBijection
<1>6. ASSUME NEW V \in SUBSET A, NEW W, W = {p[x] : x \in V}
      PROVE  W \in SUBSET Z /\ (Leads(Z, W, at) <=> Leads(A, V, key))
  <2>1. W \in SUBSET Z
    BY <1>1, <1>6
  <2>2. \A x \in A : x \in V <=> p[x] \in W
    BY <1>1, <1>6
  <2>3. ASSUME Leads(A, V, key), NEW z \in W, NEW y \in Z \ W PROVE z[at] >= y[at]
    <3>1. PICK u \in V : p[u] = z
      BY <1>6
    <3>2. PICK w \in A \ V : p[w] = y
      BY <1>1, <2>2
    <3>q. QED
      BY <2>3, <3>1, <3>2
  <2>4. ASSUME Leads(Z, W, at), NEW u \in V, NEW w \in A \ V PROVE u[key] >= w[key]
    <3>1. p[u] \in W /\ p[w] \in Z \ W
      BY <1>1, <2>2
    <3>2. p[u][at] >= p[w][at]
      BY <2>4, <3>1
    <3>q. QED
      BY <3>2
  <2>q. QED
    BY <2>1, <2>3, <2>4
<1> DEFINE Shown == {{p[x] : x \in U} : U \in Q!First(A, limit, key)}
<1>7. ASSUME NEW W \in Shown PROVE W \in Q!First(Z, limit, at)
  <2>1. PICK V \in Q!First(A, limit, key) : W = {p[x] : x \in V}
    OBVIOUS
  <2> HIDE DEF Leads
  <2>q. QED
    BY <1>3, <1>4, <1>5, <1>6, <2>1
<1>8. ASSUME NEW W \in Q!First(Z, limit, at) PROVE W \in Shown
  <2> DEFINE V == {x \in A : p[x] \in W}
  <2>1. V \in SUBSET A /\ W \in SUBSET Z
    BY <1>4
  <2>2. W = {p[x] : x \in V}
    BY <1>1, <2>1
  <2> HIDE DEF Leads, V
  <2>3. V \in Q!First(A, limit, key)
    BY <1>3, <1>4, <1>5, <1>6, <2>1, <2>2
  <2>q. QED
    BY <2>2, <2>3
<1> HIDE DEF Shown
<1>9. Shown = Q!First(Z, limit, at)
  BY <1>7, <1>8
<1>q. QED
  BY <1>9 DEF Shown, Shows

\* The lesser of two numbers.
LEMMA MinOfTwo ==
    ASSUME NEW a \in Int, NEW b \in Int
    PROVE  (b <= a => Q!Min({a, b}) = b) /\ (a <= b => Q!Min({a, b}) = a)
<1>1. {a, b} \in SUBSET Int /\ a \in {a, b} /\ b \in {a, b}
  OBVIOUS
<1>2. (b <= a => \A y \in {a, b} : b <= y) /\ (a <= b => \A y \in {a, b} : a <= y)
  OBVIOUS
<1>q. QED
  BY <1>1, <1>2, MinUnique

\* Of no more rows than the limit all are given.
LEMMA FirstAll ==
    ASSUME NEW A, IsFiniteSet(A), NEW limit \in Int, Cardinality(A) <= limit, NEW key
    PROVE  Q!First(A, limit, key) = {A}
<1>1. Cardinality(A) \in Nat /\ Q!Cardinality(A) = Cardinality(A)
  BY FS_CardinalityType, SameCardinality
<1>2. Q!Min({limit, Cardinality(A)}) = Cardinality(A)
  BY <1>1, MinOfTwo
<1>3. \A V \in SUBSET A : Cardinality(V) = Cardinality(A) => V = A
  BY FS_Subset
<1>4. \A V : V \in Q!First(A, limit, key) <=> V = A
  BY <1>1, <1>2, <1>3, SameCardinality DEF Q!First, Q!kSubset
<1>q. QED
  BY <1>4

\* The rows of a cut are its rows, not more than the limit.
LEMMA FirstIs ==
    ASSUME NEW A, IsFiniteSet(A), NEW limit \in Int, NEW key, NEW V \in Q!First(A, limit, key)
    PROVE  V \in SUBSET A /\ IsFiniteSet(V) /\ Cardinality(V) <= limit
<1>1. Cardinality(A) \in Nat /\ Q!Cardinality(A) = Cardinality(A)
  BY FS_CardinalityType, SameCardinality
<1>2. V \in SUBSET A /\ Cardinality(V) = Q!Min({limit, Cardinality(A)})
  BY <1>1, SameCardinality DEF Q!First, Q!kSubset
<1>3. Q!Min({limit, Cardinality(A)}) <= limit
  BY <1>1, MinOfTwo
<1>4. IsFiniteSet(V)
  BY <1>2, FS_Subset
<1>q. QED
  BY <1>2, <1>3, <1>4

\* Groups that differ by key show the same rows on a page if they show the same in
\* all.
LEMMA PageOfGroups ==
    ASSUME NEW G, IsFiniteSet(G), \A g, h \in G : g.key = h.key => g = h, NEW limit
    PROVE  {Q!Rows(U) : U \in Q!First(G, limit, "to")} = Q!First(Q!Rows(G), limit, 5)
<1> DEFINE Row(g) == <<g.key, g.traces, g.tokens, g.from, g.to, g.sessions>>
           p == [g \in G |-> Row(g)]
<1>1. \A U : Q!Rows(U) = {Row(g) : g \in U}
  BY DEF Q!Rows
<1>2. \A g, h \in G : Row(g) = Row(h) => g = h
  OBVIOUS
<1>3. \A g \in G : Row(g)[5] = g["to"]
  OBVIOUS
<1> HIDE DEF Row
<1>4. p \in [G -> Q!Rows(G)] /\ (\A g, h \in G : p[g] = p[h] => g = h) /\ \A z \in Q!Rows(G) : \E g \in G : p[g] = z
  BY <1>1, <1>2
<1>5. \A g \in G : p[g][5] = g["to"]
  BY <1>3
<1>6. \A U \in SUBSET G : {p[g] : g \in U} = Q!Rows(U)
  BY <1>1
<1> HIDE DEF p
<1>7. p \in Bijection(G, Q!Rows(G))
  BY <1>4 DEF Bijection, Injection, Surjection, IsInjective
<1>8. Shows(p, Q!First(G, limit, "to")) = Q!First(Q!Rows(G), limit, 5)
  BY <1>5, <1>7, FirstShown
<1>9. Q!First(G, limit, "to") \subseteq SUBSET G
  BY DEF Q!First, Q!kSubset
<1>10. Shows(p, Q!First(G, limit, "to")) = {Q!Rows(U) : U \in Q!First(G, limit, "to")}
  BY <1>6, <1>9 DEF Shows
<1>q. QED
  BY <1>8, <1>10

\* Rows that differ by trace show the same lines on a page if they show the same in
\* all.
LEMMA PageOfRows ==
    ASSUME NEW A, IsFiniteSet(A), \A x, y \in A : x.trace = y.trace => x = y, NEW limit
    PROVE  {Q!Lines(U) : U \in Q!First(A, limit, "start")} = Q!First(Q!Lines(A), limit, 2)
<1> DEFINE Line(x) == <<x.trace, x.start>>
           p == [x \in A |-> Line(x)]
<1>1. \A U : Q!Lines(U) = {Line(x) : x \in U}
  BY DEF Q!Lines
<1>2. \A x, y \in A : Line(x) = Line(y) => x = y
  OBVIOUS
<1>3. \A x \in A : Line(x)[2] = x["start"]
  OBVIOUS
<1> HIDE DEF Line
<1>4. p \in [A -> Q!Lines(A)] /\ (\A x, y \in A : p[x] = p[y] => x = y) /\ \A z \in Q!Lines(A) : \E x \in A : p[x] = z
  BY <1>1, <1>2
<1>5. \A x \in A : p[x][2] = x["start"]
  BY <1>3
<1>6. \A U \in SUBSET A : {p[x] : x \in U} = Q!Lines(U)
  BY <1>1
<1> HIDE DEF p
<1>7. p \in Bijection(A, Q!Lines(A))
  BY <1>4 DEF Bijection, Injection, Surjection, IsInjective
<1>8. Shows(p, Q!First(A, limit, "start")) = Q!First(Q!Lines(A), limit, 2)
  BY <1>5, <1>7, FirstShown
<1>9. Q!First(A, limit, "start") \subseteq SUBSET A
  BY DEF Q!First, Q!kSubset
<1>10. Shows(p, Q!First(A, limit, "start")) = {Q!Lines(U) : U \in Q!First(A, limit, "start")}
  BY <1>6, <1>9 DEF Shows
<1>q. QED
  BY <1>8, <1>10

\* Both engines list the same traces, whatever session is asked for, if the rows C
\* are all that the range has.
LEMMA SameLines ==
    ASSUME NEW S, IsStore(S), NEW r, Q!Whole(S, r), NEW e, Q!Where(S, None, r) = Q!Where(S, None, e),
           NEW session, NEW C, Q!Recent(C, r) = Q!Recent(Q!Index(S, None), r),
           NEW A, A = Q!ListTraces(S, C, r, session, None),
           NEW B, B = Q!SqlListTraces(S, None, e, session, None)
    PROVE  /\ IsFiniteSet(A) /\ IsFiniteSet(B) /\ Q!Lines(A) = Q!Lines(B)
           /\ \A x, y \in A : x.trace = y.trace => x = y
           /\ \A x, y \in B : x.trace = y.trace => x = y
<1> DEFINE M == Q!Where(S, None, r)
           K == {s \in M : session = None \/ s.session = session}
           U == Q!TracesOf(K)
           Row(t) == [trace |-> t, start |-> Q!Min({s.start : s \in Q!Batch(K, t)}),
                      finish |-> Q!Max({s.finish : s \in Q!Batch(K, t)}),
                      status |-> Q!SqlStatus(Q!Batch(K, t)), spans |-> Cardinality(Q!Batch(K, t))]
<1>1. /\ M \in SUBSET S /\ Q!TracesOf(M) \in SUBSET Q!TracesOf(S)
      /\ \A t \in Q!TracesOf(M) : Q!Batch(M, t) = Q!Batch(S, t)
      /\ Q!Recent(Q!Index(S, None), r) = {Q!Summary(S, t) : t \in Q!TracesOf(M)}
  BY RangeIsWhole
<1>2. \A s \in M : Q!Carried(Q!Batch(S, s.trace), "session") = s["session"]
  BY <1>1, BatchCarries
<1>3. B = {Row(t) : t \in U}
  <2>1. Q!Where(S, None, e) = M
    OBVIOUS
  <2>2. {s \in M : (session = None \/ s.session = session) /\ (None = None \/ s.user = None)} = K
    OBVIOUS
  <2> HIDE DEF M, K
  <2>q. QED
    BY <2>1, <2>2, SameCardinality DEF Q!SqlListTraces
<1> HIDE DEF M
<1>4. \A t \in Q!TracesOf(M) : Q!Summary(S, t).trace = t
  BY <1>1, BatchIs
<1>5. U \in SUBSET Q!TracesOf(M)
  BY DEF Q!TracesOf
<1>6. ASSUME NEW t \in Q!TracesOf(M)
      PROVE  session = None \/ Q!Carried(Q!Batch(S, t), "session") = session <=> t \in U
  <2>1. \A s \in M : s.trace = t => Q!Carried(Q!Batch(S, t), "session") = s.session
    BY <1>2
  <2>2. PICK s \in M : s.trace = t
    BY DEF Q!TracesOf
  <2>3. t \in U <=> \E x \in K : x.trace = t
    BY DEF Q!TracesOf
  <2>q. QED
    BY <2>1, <2>2, <2>3
<1>7. A = {Q!Summary(S, t) : t \in U}
  <2>1. \A x : x \in A <=> x \in Q!Recent(Q!Index(S, None), r) /\ (session = None \/ Q!Carried(Q!Batch(S, x.trace), "session") = session)
    BY DEF Q!ListTraces
  <2> HIDE DEF U
  <2>2. \A x : x \in A <=> \E t \in U : x = Q!Summary(S, t)
    BY <1>1, <1>4, <1>5, <1>6, <2>1
  <2>q. QED
    BY <2>2
<1>8. ASSUME NEW t \in U PROVE Q!Batch(K, t) = Q!Batch(S, t)
  <2>1. PICK x \in K : x.trace = t
    BY DEF Q!TracesOf
  <2>2. \A s \in Q!Batch(S, t) : s \in M /\ s.session = x.session
    <3>1. Q!Batch(M, t) = Q!Batch(S, t)
      BY <1>1, <1>5
    <3>2. \A s \in Q!Batch(M, t) : s \in M /\ s.trace = t
      BY DEF Q!Batch
    <3>q. QED
      BY <1>2, <2>1, <3>1, <3>2
  <2>3. K \in SUBSET S
    BY <1>1
  <2>q. QED
    BY <2>1, <2>2, <2>3 DEF Q!Batch
<1>9. ASSUME NEW t \in U PROVE Row(t).trace = t /\ Row(t).start = Q!Summary(S, t).start
  <2> DEFINE c == Q!Batch(K, t)
  <2>1. c = Q!Batch(S, t)
    BY <1>8
  <2> HIDE DEF c
  <2>2. Row(t).trace = t /\ Row(t).start = Q!Min({s.start : s \in c})
    BY DEF c
  <2>3. Q!Summary(S, t).start = Q!Min({s.start : s \in c})
    BY <2>1, RowStart
  <2> HIDE DEF Row
  <2>q. QED
    BY <2>2, <2>3
<1> HIDE DEF U, K, Row
<1>10. U \in SUBSET Q!TracesOf(S)
  BY <1>1, <1>5
<1>11. IsFiniteSet(U) /\ IsFiniteSet(A)
  BY <1>7, <1>10, RowsOfTraces
<1>12. IsFiniteSet(B)
  <2>1. [t \in U |-> Row(t)] \in Surjection(U, B)
    BY <1>3 DEF Surjection
  <2>q. QED
    BY <1>11, <2>1, FS_Surjection
<1>13. \A x, y \in A : x.trace = y.trace => x = y
  BY <1>4, <1>5, <1>7
<1>14. \A x, y \in B : x.trace = y.trace => x = y
  BY <1>3, <1>9
<1>15. \A z : z \in Q!Lines(A) <=> \E t \in U : z = <<t, Q!Summary(S, t).start>>
  <2>1. \A z : z \in Q!Lines(A) <=> \E x \in A : z = <<x.trace, x.start>>
    BY DEF Q!Lines
  <2>q. QED
    BY <1>4, <1>5, <1>7, <2>1
<1>16. \A z : z \in Q!Lines(B) <=> \E t \in U : z = <<t, Q!Summary(S, t).start>>
  <2>1. \A z : z \in Q!Lines(B) <=> \E x \in B : z = <<x.trace, x.start>>
    BY DEF Q!Lines
  <2>q. QED
    BY <1>3, <1>9, <2>1
<1>17. Q!Lines(A) = Q!Lines(B)
  <2> DEFINE X == Q!Lines(A)
             Y == Q!Lines(B)
  <2>1. \A z : z \in X <=> z \in Y
    BY <1>15, <1>16
  <2> HIDE DEF X, Y
  <2>2. X = Y
    BY <2>1
  <2>q. QED
    BY <2>2 DEF X, Y
<1>q. QED
  BY <1>11, <1>12, <1>13, <1>14, <1>17

\* The ends that the SQL engine fills in leave out no span of a range that fits.
LEMMA SameSpans ==
    ASSUME NEW S, NEW r, NEW e, Q!Fits(S, r, e), r[1] # None => e[1] = r[1], r[2] # None => e[2] = r[2]
    PROVE  Q!Where(S, None, r) = Q!Where(S, None, e)
<1>1. ASSUME NEW s \in S, Q!InRange(s.start, r) PROVE Q!InRange(s.start, e)
  BY <1>1 DEF Q!Fits, Q!InRange
<1>2. ASSUME NEW s \in S, Q!InRange(s.start, e) PROVE Q!InRange(s.start, r)
  BY <1>2 DEF Q!InRange
<1>q. QED
  BY <1>1, <1>2 DEF Q!Where

\* If all spans fit on the page, both engines show them all.
LEMMA SameSpanList ==
    ASSUME NEW S, IsStore(S), NEW r, Q!Whole(S, r), NEW e, Q!Where(S, None, r) = Q!Where(S, None, e),
           NEW C, Q!Recent(C, r) = Q!Recent(Q!Index(S, None), r), NEW limit \in Int,
           Cardinality(Q!Where(S, None, e)) <= limit
    PROVE  Q!Spans(S, C, r, limit) = Q!SqlSpans(S, None, e, limit)
<1> DEFINE M == Q!Where(S, None, e)
<1>1. Q!SpansOf(S, Q!Recent(C, r)) = M
  BY SpansOfRange
<1>2. IsFiniteSet(M)
  BY FS_Subset DEF IsStore, Q!Where
<1>3. Q!SqlSpans(S, None, e, limit) = {M}
  <2>1. Q!SqlSpans(S, None, e, limit) = Q!First(M, limit, "start")
    BY DEF Q!SqlSpans
  <2> HIDE DEF M
  <2>2. Cardinality(M) <= limit
    BY DEF M
  <2>q. QED
    BY <1>2, <2>1, <2>2, FirstAll
<1> HIDE DEF M
<1>4. Q!Min({limit, Cardinality(M)}) = Cardinality(M)
  <2>1. Cardinality(M) \in Nat /\ Cardinality(M) <= limit
    BY <1>2, FS_CardinalityType DEF M
  <2>q. QED
    BY <2>1, MinOfTwo
<1>5. \A W \in SUBSET M : Cardinality(W) = Cardinality(M) => W = M
  BY <1>2, FS_Subset
<1>6. \A W : W \in Q!Spans(S, C, r, limit) <=> W = M
  <2> DEFINE Before(W) == \A s \in W, x \in M \ W :
                 IF s.trace = x.trace THEN s.id < x.id
                 ELSE /\ Q!Summary(S, s.trace).start >= Q!Summary(S, x.trace).start
                      /\ Q!Batch(S, s.trace) \subseteq W \/ Q!Batch(S, x.trace) \cap W = {}
  <2>1. Q!Spans(S, C, r, limit) = {W \in Q!kSubset(Q!Min({limit, Cardinality(M)}), M) : Before(W)}
    BY <1>1, SameCardinality DEF Q!Spans
  <2>2. Before(M)
    OBVIOUS
  <2> HIDE DEF Before
  <2>3. \A W : W \in Q!kSubset(Cardinality(M), M) <=> W = M
    BY <1>5, SameCardinality DEF Q!kSubset
  <2>q. QED
    BY <1>4, <2>1, <2>2, <2>3
<1>q. QED
  BY <1>3, <1>6

\* A request whose cutoff, beginning and limit are numbers.
IsRequest(q) ==
    /\ q.cutoff \in Int /\ q.limit \in Int
    /\ Q!Absolute(q)[1] = None \/ Q!Absolute(q)[1] \in Int

\* A request whose filled-in window is one has no archive.
LEMMA OverviewIsHot ==
    ASSUME NEW q, Day # None
    PROVE  ~Q!FromArchive(Q!OfOverview(q).archive, Q!OfOverview(q).window, Q!Absolute(Q!OfOverview(q)), Q!OfOverview(q).cutoff)
<1>1. ASSUME NEW w, w = Q!OfOverview(q).window PROVE w # None
  BY <1>1 DEF Q!OfOverview
<1>q. QED
  BY <1>1 DEF Q!FromArchive

\* The overviews of both engines agree over every store of spans and for every request.
LEMMA OverviewsAlwaysAgree ==
    ASSUME NEW S, IsStore(S), NEW archived, NEW q, Day # None
    PROVE  Q!OverviewsAgree(S, archived, q)
<1> DEFINE r == Q!Absolute(Q!OfOverview(q))
           e == Q!Series(Q!OfOverview(q).window, r, q.now)
           D == Q!Source(S, archived, Q!OfOverview(q))
           Wanted(C) == LET o == Q!Overview(S, C, r)
                            p == Q!SqlOverview(D, None, e)
                        IN o.total <= p.total /\ o.errors <= p.errors /\ (Q!Kept(S, C, r) => Q!Common(o) = Q!Common(p))
<1>1. Q!OverviewsAgree(S, archived, q) <=> (Q!Fits(S, r, e) => \A C \in Q!First(Q!Index(S, None), Cap, "start") : Wanted(C))
  BY DEF Q!OverviewsAgree
<1>2. D = S
  BY OverviewIsHot DEF Q!Source
<1>3. (r[1] # None => e[1] = r[1]) /\ (r[2] # None => e[2] = r[2])
  BY DEF Q!Series
<1> HIDE DEF r, e, D
<1>4. ASSUME Q!Fits(S, r, e), NEW C \in Q!First(Q!Index(S, None), Cap, "start") PROVE Wanted(C)
  <2>1. C \subseteq Q!Index(S, None)
    BY DEF Q!First, Q!kSubset
  <2>2. Q!Whole(S, r) /\ Q!Where(S, None, r) = Q!Where(S, None, e)
    BY <1>3, <1>4, SameSpans DEF Q!Fits
  <2>q. QED
    BY <1>2, <2>1, <2>2, SameOverview
<1> HIDE DEF Wanted
<1>q. QED
  BY <1>1, <1>4

\* So do the lists.
LEMMA ListsAlwaysAgree ==
    ASSUME NEW S, IsStore(S), NEW archived, NEW q, IsRequest(q), Cap \in Int
    PROVE  Q!ListsAgree(S, archived, q)
<1> DEFINE r == Q!Absolute(q)
           e == Q!Effective(q.window, r, q.now)
           D == Q!Source(S, archived, q)
           fetched == Q!Fetched(r, q.session, None, q.limit)
           All == Q!Index(S, None)
           complete == archived = Q!TracesOf(S) \/ q.window # None \/ r[1] = None \/ r[1] >= q.cutoff
           Page(G) == {Q!Rows(U) : U \in Q!First(G, q.limit, "to")}
           Leaf(G) == {Q!Lines(U) : U \in Q!First(G, q.limit, "start")}
           Groups(C) == /\ Page(Q!Sessions(S, C, r)) = Page(Q!SqlSessions(D, e))
                        /\ Page(Q!Users(S, C, r)) = Page(Q!SqlUsers(D, e))
                        /\ Cardinality(Q!Where(D, None, e)) <= q.limit => Q!Spans(S, C, r, q.limit) = Q!SqlSpans(D, None, e, q.limit)
           Listed(C) == Leaf(Q!ListTraces(S, C, r, q.session, None)) \subseteq Leaf(Q!SqlListTraces(D, None, e, q.session, None))
<1>1. Q!ListsAgree(S, archived, q) <=>
        ((Q!Fits(S, r, e) /\ complete) =>
           /\ \A C \in Q!First(All, Cap, "start") : Q!Kept(S, C, r) => Groups(C)
           /\ \A C \in Q!First(All, fetched, "start") : (Q!Kept(S, C, r) \/ Cardinality(All) <= Cap \/ (r = <<None, None>> /\ q.session = None)) => Listed(C))
  BY SameCardinality DEF Q!ListsAgree
<1>2. ASSUME complete PROVE D = S
  <2>1. ASSUME Q!FromArchive(q.archive, q.window, r, q.cutoff) PROVE archived = Q!TracesOf(S)
    <3>1. r[1] \in Int /\ r[1] < q.cutoff /\ r[1] # None /\ q.window = None /\ q.cutoff \in Int
      BY <2>1 DEF Q!FromArchive, IsRequest
    <3>q. QED
      BY <1>2, <3>1
  <2>2. {s \in S : s.trace \in Q!TracesOf(S)} = S
    BY DEF Q!TracesOf
  <2>q. QED
    BY <2>1, <2>2 DEF Q!Source
<1>3. (r[1] # None => e[1] = r[1]) /\ (r[2] # None => e[2] = r[2])
  BY DEF Q!Effective
<1>4. (r = <<None, None>> /\ q.session = None => fetched = q.limit)
        /\ (~(r = <<None, None>> /\ q.session = None) => fetched \in Int /\ fetched >= Cap)
  <2>1. fetched = IF r # <<None, None>> \/ q.session # None THEN Q!Max({q.limit, Cap}) ELSE q.limit
    BY DEF Q!Fetched
  <2>2. {q.limit, Cap} \in SUBSET Int /\ IsFiniteSet({q.limit, Cap}) /\ {q.limit, Cap} # {}
    <3>1. {q.limit, Cap} = {q.limit} \cup {Cap}
      OBVIOUS
    <3>2. IsFiniteSet({q.limit} \cup {Cap})
      BY FS_Singleton, FS_AddElement
    <3>q. QED
      BY <3>1, <3>2 DEF IsRequest
  <2>3. Q!Max({q.limit, Cap}) \in Int /\ Q!Max({q.limit, Cap}) >= Cap
    BY <2>2, MinIs
  <2> HIDE DEF r, fetched
  <2>q. QED
    BY <2>1, <2>3
<1> HIDE DEF r, e, D, complete, fetched
<1> SUFFICES ASSUME Q!Fits(S, r, e), complete
             PROVE  /\ \A C \in Q!First(All, Cap, "start") : Q!Kept(S, C, r) => Groups(C)
                    /\ \A C \in Q!First(All, fetched, "start") :
                         (Q!Kept(S, C, r) \/ Cardinality(All) <= Cap \/ (r = <<None, None>> /\ q.session = None)) => Listed(C)
  <2> HIDE DEF Groups, Listed, All
  <2>q. QED
    BY <1>1
<1>5. D = S /\ Q!Whole(S, r) /\ Q!Where(S, None, r) = Q!Where(S, None, e) /\ q.limit \in Int
  BY <1>2, <1>3, SameSpans DEF Q!Fits, IsRequest
<1>6. ASSUME NEW C, NEW n, C \in Q!First(All, n, "start") PROVE C \subseteq All
  BY <1>6 DEF Q!First, Q!kSubset
<1>7. ASSUME NEW C, C \subseteq All, Q!Kept(S, C, r) PROVE Q!Recent(C, r) = Q!Recent(All, r)
  BY <1>7 DEF Q!Kept, Q!Recent
<1>8. ASSUME NEW C, C \subseteq All, Q!Kept(S, C, r) PROVE Groups(C)
  <2>1. ASSUME NEW attr \in {"session", "user"}
        PROVE  Page(Q!Grouped(S, Q!Recent(C, r), attr)) = Page(Q!SqlGrouped(S, e, attr))
    <3>1. PICK A, B : A = Q!Grouped(S, Q!Recent(C, r), attr) /\ B = Q!SqlGrouped(S, e, attr)
      OBVIOUS
    <3>2. /\ IsFiniteSet(A) /\ IsFiniteSet(B) /\ Q!Rows(A) = Q!Rows(B)
          /\ \A g, h \in A : g.key = h.key => g = h
          /\ \A g, h \in B : g.key = h.key => g = h
      BY <1>5, <1>7, <1>8, <3>1, GroupsAgree
    <3>3. Page(A) = Q!First(Q!Rows(A), q.limit, 5) /\ Page(B) = Q!First(Q!Rows(B), q.limit, 5)
      BY <3>2, PageOfGroups
    <3> HIDE DEF Page
    <3>q. QED
      BY <3>1, <3>2, <3>3
  <2>2. Cardinality(Q!Where(S, None, e)) <= q.limit => Q!Spans(S, C, r, q.limit) = Q!SqlSpans(S, None, e, q.limit)
    BY <1>5, <1>7, <1>8, SameSpanList
  <2> HIDE DEF Page
  <2>3. Page(Q!Sessions(S, C, r)) = Page(Q!SqlSessions(S, e)) /\ Page(Q!Users(S, C, r)) = Page(Q!SqlUsers(S, e))
    BY <2>1 DEF Q!Sessions, Q!SqlSessions, Q!Users, Q!SqlUsers
  <2>q. QED
    BY <1>5, <2>2, <2>3
<1>9. PICK B : B = Q!SqlListTraces(S, None, e, q.session, None)
  OBVIOUS
<1>10. ASSUME NEW C, C \subseteq All, Q!Kept(S, C, r) PROVE Listed(C)
  <2>1. PICK A : A = Q!ListTraces(S, C, r, q.session, None)
    OBVIOUS
  <2>2. /\ IsFiniteSet(A) /\ IsFiniteSet(B) /\ Q!Lines(A) = Q!Lines(B)
        /\ \A x, y \in A : x.trace = y.trace => x = y
        /\ \A x, y \in B : x.trace = y.trace => x = y
    BY <1>5, <1>7, <1>9, <1>10, <2>1, SameLines
  <2>3. Leaf(A) = Leaf(B)
    BY <2>2, PageOfRows
  <2> HIDE DEF Leaf
  <2>q. QED
    BY <1>5, <1>9, <2>1, <2>3
<1>11. ASSUME NEW C \in Q!First(All, fetched, "start"), r = <<None, None>>, q.session = None PROVE Listed(C)
  <2>1. \A X : Q!ListTraces(S, X, r, q.session, None) = X
    BY <1>11 DEF Q!ListTraces, Q!Recent, Q!InRange
  <2>2. /\ IsFiniteSet(All) /\ IsFiniteSet(B) /\ Q!Lines(All) = Q!Lines(B)
        /\ \A x, y \in All : x.trace = y.trace => x = y
        /\ \A x, y \in B : x.trace = y.trace => x = y
    <3>1. All = Q!ListTraces(S, All, r, q.session, None)
      BY <2>1
    <3> HIDE DEF All
    <3>q. QED
      BY <1>5, <1>9, <3>1, SameLines DEF All
  <2>3. Leaf(All) = Leaf(B)
    <3> HIDE DEF All
    <3>q. QED
      BY <2>2, PageOfRows
  <2>4. C \in Q!First(All, q.limit, "start") /\ IsFiniteSet(C) /\ Cardinality(C) <= q.limit
    BY <1>4, <1>5, <1>11, <2>2, FirstIs
  <2>5. Q!First(C, q.limit, "start") = {C}
    BY <1>5, <2>4, FirstAll
  <2>6. Leaf(C) = {Q!Lines(C)} /\ Q!Lines(C) \in Leaf(All)
    BY <2>4, <2>5
  <2> HIDE DEF Leaf, All
  <2>q. QED
    BY <1>5, <1>9, <2>1, <2>3, <2>6
<1>12. ASSUME NEW C \in Q!First(All, fetched, "start"), Cardinality(All) <= Cap, ~(r = <<None, None>> /\ q.session = None)
      PROVE  Listed(C)
  <2>1. All = {Q!Summary(S, t) : t \in Q!TracesOf(S)}
    BY DEF Q!Index
  <2> HIDE DEF All
  <2>2. IsFiniteSet(All)
    BY <2>1, RowsOfTraces
  <2>3. Cardinality(All) <= fetched
    BY <1>4, <1>12, <2>2, FS_CardinalityType
  <2>4. C = All
    BY <1>4, <1>12, <2>2, <2>3, FirstAll
  <2>5. Q!Kept(S, C, r)
    BY <2>4 DEF Q!Kept, Q!Recent, All
  <2> HIDE DEF Listed
  <2>q. QED
    BY <1>10, <2>4, <2>5
<1>q. QED
  <2> HIDE DEF Groups, Listed, All
  <2>q. QED
    BY <1>6, <1>8, <1>10, <1>11, <1>12

\* The two query engines give the same answers over every store of spans, to every
\* request whose range cuts no trace and has no spans beyond the ends that one of
\* them fills in, from the hot files or from an archive without a gap, as long as
\* the catalog is asked for enough rows; if it is not, an overview counts less.
THEOREM EnginesAlwaysAgree ==
    ASSUME NEW S, IsStore(S), NEW archived, NEW q, IsRequest(q), Day # None, Cap \in Int
    PROVE  Q!Agree(S, archived, q)
  BY OverviewsAlwaysAgree, ListsAlwaysAgree DEF Q!Agree

\* The first step of a behaviour takes an input, if it takes one at all.
LEMMA Inputs == MCNext => UNCHANGED input \/ Take
  BY DEF MCNext

\* A span of the run has whole times.
LEMMA SpanTimes ==
    ASSUME NEW n, n \in Int, NEW t, NEW x, x \in Int, NEW st, NEW who, NEW m
    PROVE  /\ Span(n, t, x, st, who, m).id \in Int
           /\ Span(n, t, x, st, who, m).start \in Int
           /\ Span(n, t, x, st, who, m).finish \in Int
<1>1. /\ Span(n, t, x, st, who, m).id = n
      /\ Span(n, t, x, st, who, m).start = x
      /\ Span(n, t, x, st, who, m).finish = x + n
  BY DEF Span
<1>q. QED
  BY <1>1

\* The stores and requests of the run are stores and requests.
LEMMA QueriesAreInputs == TakeQueries => IsStore(input'.spans) /\ IsRequest(input'.q)
<1> SUFFICES ASSUME TakeQueries PROVE IsStore(input'.spans) /\ IsRequest(input'.q)
  OBVIOUS
<1> DEFINE i == input'
<1>a. PICK x \in 1..3, y \in 1..3, extra \in Extras, sx \in {"UNSET", "ERROR"},
           w1 \in {<<"s", "u">>, <<None, "u">>}, w2 \in {<<"s", "u">>, <<None, "u">>} :
        \E range \in Ranges, arch \in Archives, show \in {<<None, 1>>, <<None, 4>>, <<"s", 1>>} :
          i = [topic |-> "queries",
             spans |-> {Span(1, "t1", x, sx, w1, None), Span(2, "t1", y, "OK", w1, "m"),
                        Span(3, "t2", 2, "OK", w2, "m")} \cup extra,
             archived |-> {"t1", "t2", "t3"} \ arch[2],
             q |-> [window |-> range[1], from |-> range[2], to |-> range[3], now |-> 4, cutoff |-> 3,
                    archive |-> arch[1], session |-> show[1], limit |-> show[2]]]
  BY Zenon DEF TakeQueries
<1>b. PICK range \in Ranges, arch \in Archives, show \in {<<None, 1>>, <<None, 4>>, <<"s", 1>>} :
          i = [topic |-> "queries",
             spans |-> {Span(1, "t1", x, sx, w1, None), Span(2, "t1", y, "OK", w1, "m"),
                        Span(3, "t2", 2, "OK", w2, "m")} \cup extra,
             archived |-> {"t1", "t2", "t3"} \ arch[2],
             q |-> [window |-> range[1], from |-> range[2], to |-> range[3], now |-> 4, cutoff |-> 3,
                    archive |-> arch[1], session |-> show[1], limit |-> show[2]]]
  BY <1>a, Zenon
<1>2. IsStore(i.spans)
  <2>1. PICK a, b, c : /\ a = Span(1, "t1", x, sx, w1, None) /\ b = Span(2, "t1", y, "OK", w1, "m")
                       /\ c = Span(3, "t2", 2, "OK", w2, "m")
    OBVIOUS
  <2>2. i.spans = {a, b, c} \cup extra
    BY <1>b, <2>1
  <2>3. IsFiniteSet({a, b, c} \cup extra)
    <3>1. IsFiniteSet({} \cup {a})
      BY FS_EmptySet, FS_AddElement
    <3>2. IsFiniteSet(({} \cup {a}) \cup {b})
      BY <3>1, FS_AddElement
    <3>3. IsFiniteSet((({} \cup {a}) \cup {b}) \cup {c})
      BY <3>2, FS_AddElement
    <3>4. {a, b, c} = (({} \cup {a}) \cup {b}) \cup {c}
      BY Zenon
    <3>5. IsFiniteSet(extra)
      <4>1. extra = {} \/ \E d : extra = {d}
        BY Zenon DEF Extras
      <4>2. \A d : IsFiniteSet({d})
        BY FS_Singleton, Zenon
      <4>q. QED
        BY <4>1, <4>2, FS_EmptySet
    <3>6. IsFiniteSet({a, b, c})
      BY <3>3, <3>4, Zenon
    <3>q. QED
      BY <3>5, <3>6, FS_Union
  <2>4. /\ a.id \in Int /\ a.start \in Int /\ a.finish \in Int
        /\ b.id \in Int /\ b.start \in Int /\ b.finish \in Int
        /\ c.id \in Int /\ c.start \in Int /\ c.finish \in Int
    <3>1. {1, 2, 3} \subseteq Int /\ x \in Int /\ y \in Int /\ 2 \in Int
      OBVIOUS
    <3>q. QED
      BY <2>1, <3>1, SpanTimes, Zenon
  <2>5. \A d \in extra : d.id \in Int /\ d.start \in Int /\ d.finish \in Int
    <3>1. ASSUME NEW n \in {1, 3}, NEW d, d = Span(4, "t3", n, "ERROR", <<"r", "u">>, "l")
          PROVE  d.id \in Int /\ d.start \in Int /\ d.finish \in Int
      <4>1. 4 \in Int /\ n \in Int
        OBVIOUS
      <4>q. QED
        BY <3>1, <4>1, SpanTimes, Zenon
    <3>2. \A d \in extra : \E n \in {1, 3} : d = Span(4, "t3", n, "ERROR", <<"r", "u">>, "l")
      BY Zenon DEF Extras
    <3>q. QED
      BY <3>1, <3>2
  <2>q. QED
    BY <2>2, <2>3, <2>4, <2>5 DEF IsStore
<1>3. IsRequest(i.q)
  <2>1. i.q.cutoff = 3 /\ i.q.now = 4 /\ i.q.window = range[1] /\ i.q.from = range[2] /\ i.q.to = range[3]
        /\ i.q.limit = show[2]
    BY <1>b
  <2>2. range[1] \in Int \cup {None} /\ range[2] \in Int \cup {None} /\ show[2] \in Int
    BY DEF Ranges
  <2>q. QED
    BY <2>1, <2>2 DEF IsRequest, Q!Absolute
<1>q. QED
  BY <1>2, <1>3

\* Of every input the run takes, the two query engines make the same.
THEOREM EnginesAgreeThroughout == MCSpec => []EnginesAgree
<1>1. MCInit => EnginesAgree
  BY DEF MCInit, Start, EnginesAgree
<1>2. EnginesAgree /\ [MCNext]_<<vars, input>> => EnginesAgree'
  <2> SUFFICES ASSUME EnginesAgree, [MCNext]_<<vars, input>> PROVE EnginesAgree'
    OBVIOUS
  <2>1. CASE UNCHANGED input
    BY <2>1, Zenon DEF EnginesAgree
  <2>2. CASE TakeQueries
    <3>1. Q!Agree(input'.spans, input'.archived, input'.q)
      BY <2>2, QueriesAreInputs, EnginesAlwaysAgree, InputsAssumption
    <3>q. QED
      BY <3>1, Zenon DEF EnginesAgree
  <2>3. CASE TakePanel \/ TakeTrust \/ TakeRanking \/ TakeMeasures \/ TakeFindings
    <3>1. input'.topic # "queries"
      <4>1. CASE TakePanel
        BY <4>1 DEF TakePanel
      <4>2. CASE TakeTrust
        BY <4>2 DEF TakeTrust
      <4>3. CASE TakeRanking
        BY <4>3 DEF TakeRanking
      <4>4. CASE TakeMeasures
        BY <4>4 DEF TakeMeasures
      <4>5. CASE TakeFindings
        BY <4>5 DEF TakeFindings
      <4>q. QED
        BY <2>3, <4>1, <4>2, <4>3, <4>4, <4>5
    <3>q. QED
      BY <3>1 DEF EnginesAgree
  <2>4. [MCNext]_<<vars, input>> => UNCHANGED input \/ Take
    BY Inputs
  <2>q. QED
    BY <2>1, <2>2, <2>3, <2>4 DEF Take
<1>q. QED
  BY <1>1, <1>2, PTL DEF MCSpec
-------------------------------------------------------------------------------
-------------------------------------------------------------------------------
(* The panel.  Sums over finite sets: what the fold of Total computes.     *)

\* The summand that the fold takes out first.
First(s) == CHOOSE x \in s : TRUE

\* What the fold says of its function.
Sums(f, S, h) == h = [s \in SUBSET S |-> IF s = {} THEN 0 ELSE f[First(s)] + h[s \ {First(s)}]]

\* What holds of the empty set, and of a subset if it holds without its first
\* element, holds of a finite set.
LEMMA BySubsets ==
    ASSUME NEW S, IsFiniteSet(S), NEW G \in SUBSET (SUBSET S), {} \in G,
           \A U \in SUBSET S : U # {} /\ U \ {First(U)} \in G => U \in G
    PROVE  G = SUBSET S
<1> DEFINE F == (SUBSET S) \ G
<1>1. ASSUME F # {} PROVE FALSE
  <2>1. PICK U \in F : \A V \in F : Cardinality(U) <= Cardinality(V)
    <3>1. F \in SUBSET (SUBSET S)
      OBVIOUS
    <3> HIDE DEF F
    <3>q. QED
      BY <1>1, <3>1, Smallest
  <2>2. U # {} /\ First(U) \in U /\ U \in SUBSET S
    BY DEF First
  <2>3. Cardinality(U \ {First(U)}) = Cardinality(U) - 1 /\ Cardinality(U) \in Nat
    BY <2>2, FS_Subset, FS_RemoveElement, FS_CardinalityType
  <2>4. U \ {First(U)} \notin F
    <3> HIDE DEF F
    <3>q. QED
      BY <2>1, <2>3
  <2>q. QED
    BY <2>2, <2>4
<1>q. QED
  BY <1>1

\* There is one function as the fold defines it.
LEMMA SumsUnique ==
    ASSUME NEW S, IsFiniteSet(S), NEW f, NEW g, NEW h, Sums(f, S, g), Sums(f, S, h)
    PROVE  g = h
<1> DEFINE G == {U \in SUBSET S : g[U] = h[U]}
<1>1. {} \in G
  BY DEF Sums
<1>2. ASSUME NEW U \in SUBSET S, U # {}, U \ {First(U)} \in G PROVE U \in G
  BY <1>2 DEF Sums
<1>3. G = SUBSET S
  <2>1. G \in SUBSET (SUBSET S)
    OBVIOUS
  <2> HIDE DEF G
  <2>q. QED
    BY <1>1, <1>2, <2>1, BySubsets
<1>q. QED
  BY <1>3 DEF Sums

\* There is a function as the fold defines it: one for the subsets of up to n elements
\* extends to those of n + 1.
LEMMA SumsExist ==
    ASSUME NEW S, IsFiniteSet(S), NEW f
    PROVE  \E h : Sums(f, S, h)
<1> DEFINE Rec(h, U) == h[U] = IF U = {} THEN 0 ELSE f[First(U)] + h[U \ {First(U)}]
           Upto(n) == \E h : \A U \in SUBSET S : Cardinality(U) <= n => Rec(h, U)
           N == {n \in Nat : ~Upto(n)}
<1>1. ASSUME NEW n \in Nat, Upto(n), NEW m, m = n + 1 PROVE Upto(m)
  <2>1. PICK h : \A U \in SUBSET S : Cardinality(U) <= n => Rec(h, U)
    BY <1>1
  <2> DEFINE g == [U \in SUBSET S |-> IF U = {} THEN 0 ELSE f[First(U)] + h[U \ {First(U)}]]
  <2>2. ASSUME NEW U \in SUBSET S, Cardinality(U) <= m, U # {} PROVE g[U \ {First(U)}] = h[U \ {First(U)}]
    <3>1. First(U) \in U
      BY <2>2 DEF First
    <3>2. Cardinality(U \ {First(U)}) <= n
      BY <1>1, <2>2, <3>1, FS_Subset, FS_RemoveElement, FS_CardinalityType
    <3>q. QED
      BY <2>1, <3>2
  <2>3. \A U \in SUBSET S : Cardinality(U) <= m => Rec(g, U)
    BY <2>2
  <2>q. QED
    BY <2>3
<1>2. Upto(0)
  <2> DEFINE g == [U \in SUBSET S |-> 0]
  <2>1. ASSUME NEW U \in SUBSET S, Cardinality(U) <= 0 PROVE U = {}
    BY <2>1, FS_Subset, FS_CardinalityType, FS_EmptySet
  <2>2. \A U \in SUBSET S : Cardinality(U) <= 0 => Rec(g, U)
    BY <2>1
  <2>q. QED
    BY <2>2
<1>3. N = {}
  <2> SUFFICES ASSUME N # {} PROVE FALSE
    OBVIOUS
  <2> HIDE DEF Upto
  <2>0. N \in SUBSET Nat
    OBVIOUS
  <2>1. PICK n \in N : \A m \in N : n <= m
    <3> HIDE DEF N
    <3>q. QED
      BY <2>0, LeastNumber
  <2>2. n # 0 /\ n \in Nat
    BY <1>2
  <2>3. n - 1 \in Nat /\ n - 1 \notin N
    <3> HIDE DEF N
    <3>q. QED
      BY <2>1, <2>2
  <2>q. QED
    BY <1>1, <2>2, <2>3
<1>4. Upto(Cardinality(S))
  BY <1>3, FS_CardinalityType
<1>5. PICK h : \A U \in SUBSET S : Cardinality(U) <= Cardinality(S) => Rec(h, U)
  BY <1>4
<1>6. \A U \in SUBSET S : Rec(h, U)
  BY <1>5, FS_Subset
<1> DEFINE g == [U \in SUBSET S |-> h[U]]
<1>7. Sums(f, S, g)
  BY <1>6 DEF Sums, First
<1>q. QED
  BY <1>7

\* A sum over a set is that function's value.
LEMMA SumIs ==
    ASSUME NEW S, IsFiniteSet(S), NEW f, NEW h, Sums(f, S, h)
    PROVE  \A U \in SUBSET S : P!SumFunctionOnSet(f, U) = h[U]
<1> SUFFICES ASSUME NEW U \in SUBSET S PROVE P!SumFunctionOnSet(f, U) = h[U]
  OBVIOUS
<1> DEFINE g == [V \in SUBSET U |-> h[V]]
<1>1. Sums(f, U, g)
  <2>1. ASSUME NEW V \in SUBSET U PROVE h[V] = IF V = {} THEN 0 ELSE f[First(V)] + g[V \ {First(V)}]
    <3>1. V \in SUBSET S /\ V \ {First(V)} \in SUBSET U
      OBVIOUS
    <3>q. QED
      BY <3>1 DEF Sums
  <2>q. QED
    BY <2>1 DEF Sums
<1>2. IsFiniteSet(U)
  BY FS_Subset
<1> HIDE DEF g
<1>3. P!SumFunctionOnSet(f, U) = g[U]
  <2>1. \A k : Sums(f, U, k) => k = g
    BY <1>1, <1>2, SumsUnique
  <2>q. QED
    BY <1>1, <2>1 DEF P!SumFunctionOnSet, P!FoldFunctionOnSet, P!MapThenFoldSet, Sums, First
<1>q. QED
  BY <1>3 DEF g

\* A sum is one summand more than the sum over the rest.
LEMMA SumUnfolds ==
    ASSUME NEW S, IsFiniteSet(S), NEW f
    PROVE  /\ P!SumFunctionOnSet(f, {}) = 0
           /\ \A U \in SUBSET S : U # {} =>
                /\ First(U) \in U
                /\ P!SumFunctionOnSet(f, U) = f[First(U)] + P!SumFunctionOnSet(f, U \ {First(U)})
<1>1. PICK h : Sums(f, S, h)
  BY SumsExist
<1>2. \A U \in SUBSET S : P!SumFunctionOnSet(f, U) = h[U]
  BY <1>1, SumIs
<1>3. ASSUME NEW U \in SUBSET S, U # {}
      PROVE  First(U) \in U /\ P!SumFunctionOnSet(f, U) = f[First(U)] + P!SumFunctionOnSet(f, U \ {First(U)})
  <2>1. First(U) \in U /\ U \ {First(U)} \in SUBSET S
    BY <1>3 DEF First
  <2>2. h[U] = f[First(U)] + h[U \ {First(U)}]
    BY <1>1, <1>3 DEF Sums
  <2>q. QED
    BY <1>2, <2>1, <2>2
<1>4. P!SumFunctionOnSet(f, {}) = 0
  BY <1>1, <1>2 DEF Sums
<1>q. QED
  BY <1>3, <1>4

\* The total of a function is a sum over its places.
Numbers(f) == IsFiniteSet(DOMAIN f) /\ \A x \in DOMAIN f : f[x] \in Int

\* More to add up makes no smaller total, and integers make an integer.
LEMMA TotalMonotone ==
    ASSUME NEW f, NEW g, Numbers(f), Numbers(g), DOMAIN f = DOMAIN g, \A x \in DOMAIN f : f[x] <= g[x]
    PROVE  P!Total(f) \in Int /\ P!Total(g) \in Int /\ P!Total(f) <= P!Total(g)
<1> DEFINE S == DOMAIN f
           F(U) == P!SumFunctionOnSet(f, U)
           H(U) == P!SumFunctionOnSet(g, U)
           G == {U \in SUBSET S : F(U) \in Int /\ H(U) \in Int /\ F(U) <= H(U)}
<1>0. IsFiniteSet(S)
  BY DEF Numbers
<1>1. /\ F({}) = 0 /\ H({}) = 0
      /\ \A U \in SUBSET S : U # {} => /\ First(U) \in U
                                       /\ F(U) = f[First(U)] + F(U \ {First(U)})
                                       /\ H(U) = g[First(U)] + H(U \ {First(U)})
  BY <1>0, SumUnfolds
<1> HIDE DEF F, H
<1>2. {} \in G
  BY <1>1
<1>3. ASSUME NEW U \in SUBSET S, U # {}, U \ {First(U)} \in G PROVE U \in G
  <2>1. f[First(U)] \in Int /\ g[First(U)] \in Int /\ f[First(U)] <= g[First(U)]
    BY <1>1, <1>3 DEF Numbers
  <2>q. QED
    BY <1>1, <1>3, <2>1
<1>4. G = SUBSET S
  <2>1. G \in SUBSET (SUBSET S)
    OBVIOUS
  <2> HIDE DEF G
  <2>q. QED
    BY <1>0, <1>2, <1>3, <2>1, BySubsets
<1>5. F(S) \in Int /\ H(S) \in Int /\ F(S) <= H(S)
  BY <1>4
<1>q. QED
  BY <1>5 DEF F, H, P!Total, P!SumFunction

\* A weighted total of numbers up to n is at most n times the total of the weights,
\* which is positive if any of them is.
LEMMA TotalBounds ==
    ASSUME NEW w, NEW f, NEW n \in Nat, IsFiniteSet(DOMAIN w), DOMAIN f = DOMAIN w,
           \A x \in DOMAIN w : w[x] \in Nat /\ f[x] \in 0..n
    PROVE  /\ P!Total(w) \in Nat
           /\ \A x \in DOMAIN w : w[x] <= P!Total(w)
           /\ P!Total([x \in DOMAIN w |-> w[x] * f[x]]) \in 0..(n * P!Total(w))
<1> DEFINE S == DOMAIN w
           p == [x \in S |-> w[x] * f[x]]
           W(U) == P!SumFunctionOnSet(w, U)
           V(U) == P!SumFunctionOnSet(p, U)
           G == {U \in SUBSET S : W(U) \in Nat /\ V(U) \in Int /\ 0 <= V(U) /\ V(U) <= n * W(U) /\ \A x \in U : w[x] <= W(U)}
<1>1. /\ W({}) = 0 /\ V({}) = 0
      /\ \A U \in SUBSET S : U # {} => /\ First(U) \in U
                                       /\ W(U) = w[First(U)] + W(U \ {First(U)})
                                       /\ V(U) = p[First(U)] + V(U \ {First(U)})
  <2> HIDE DEF p
  <2>1. W({}) = 0 /\ \A U \in SUBSET S : U # {} => First(U) \in U /\ W(U) = w[First(U)] + W(U \ {First(U)})
    BY SumUnfolds
  <2>2. V({}) = 0 /\ \A U \in SUBSET S : U # {} => First(U) \in U /\ V(U) = p[First(U)] + V(U \ {First(U)})
    BY SumUnfolds
  <2>q. QED
    BY <2>1, <2>2
<1>a. \A x \in S : p[x] \in Int /\ 0 <= p[x] /\ p[x] <= n * w[x]
  <2> SUFFICES ASSUME NEW x \in S PROVE p[x] \in Int /\ 0 <= p[x] /\ p[x] <= n * w[x]
    OBVIOUS
  <2>1. w[x] \in Nat /\ f[x] \in Int /\ 0 <= f[x] /\ f[x] <= n
    OBVIOUS
  <2>2. \A a, b \in Nat : b <= n => a * b \in Int /\ 0 <= a * b /\ a * b <= n * a
    OBVIOUS
  <2>q. QED
    BY <2>1, <2>2
<1> HIDE DEF W, V, p
<1>2. {} \in G
  BY <1>1
<1>3. ASSUME NEW U \in SUBSET S, U # {}, U \ {First(U)} \in G PROVE U \in G
  <2> DEFINE x == First(U)
  <2>1. x \in U /\ W(U) = w[x] + W(U \ {x}) /\ V(U) = p[x] + V(U \ {x})
    BY <1>1, <1>3
  <2>2. w[x] \in Nat /\ p[x] \in Int /\ 0 <= p[x] /\ p[x] <= n * w[x]
    BY <1>a, <2>1
  <2>3. W(U \ {x}) \in Nat /\ V(U \ {x}) \in Int /\ 0 <= V(U \ {x}) /\ V(U \ {x}) <= n * W(U \ {x})
        /\ \A y \in U \ {x} : w[y] <= W(U \ {x})
    BY <1>3
  <2> HIDE DEF x
  <2>4. n * (w[x] + W(U \ {x})) = n * w[x] + n * W(U \ {x})
    BY <2>2, <2>3
  <2>5. W(U) \in Nat /\ V(U) \in Int /\ 0 <= V(U) /\ V(U) <= n * W(U)
    <3>1. n * w[x] \in Int /\ n * W(U \ {x}) \in Int
      BY <2>2, <2>3
    <3>q. QED
      BY <2>1, <2>2, <2>3, <2>4, <3>1
  <2>6. ASSUME NEW y \in U PROVE w[y] <= W(U)
    <3>1. w[y] \in Nat /\ W(U) = w[x] + W(U \ {x}) /\ w[x] \in Nat /\ W(U \ {x}) \in Nat
      BY <2>1, <2>2, <2>3
    <3>2. CASE y = x
      BY <3>1, <3>2
    <3>3. CASE y \in U \ {x}
      <4>1. w[y] <= W(U \ {x})
        BY <2>3, <3>3
      <4>q. QED
        BY <3>1, <4>1
    <3>q. QED
      BY <3>2, <3>3
  <2>q. QED
    BY <2>5, <2>6
<1>4. G = SUBSET S
  <2>1. G \in SUBSET (SUBSET S)
    OBVIOUS
  <2> HIDE DEF G
  <2>q. QED
    BY <1>2, <1>3, <2>1, BySubsets
<1>5. W(S) \in Nat /\ V(S) \in Int /\ 0 <= V(S) /\ V(S) <= n * W(S) /\ \A x \in S : w[x] <= W(S)
  BY <1>4
<1>6. W(S) = P!Total(w) /\ V(S) = P!Total(p) /\ DOMAIN p = S
  BY DEF W, V, p, P!Total, P!SumFunction
<1>7. P!Total(p) \in 0..(n * P!Total(w))
  <2>1. n * P!Total(w) \in Int
    BY <1>5, <1>6
  <2>q. QED
    BY <1>5, <1>6, <2>1
<1>q. QED
  BY <1>5, <1>6, <1>7 DEF p

-------------------------------------------------------------------------------
(* Numbers.                                                                *)

\* Division by a positive number keeps the order.
LEMMA DivisionMonotone ==
    ASSUME NEW a \in Int, NEW b \in Int, NEW n \in Nat \ {0}, a <= b
    PROVE  (a \div n) \in Int /\ (b \div n) \in Int /\ (a \div n) <= (b \div n)
  OBVIOUS

\* A quotient of a number up to m times the divisor is at most m.
LEMMA DivisionBound ==
    ASSUME NEW a \in Int, NEW n \in Nat \ {0}, NEW m \in Nat, 0 <= a, a <= m * n
    PROVE  (a \div n) \in 0..m
  OBVIOUS

\* A weight that is not negative keeps it too.
LEMMA WeightTimes == \A k, m, n \in Nat : m <= n => k * m \in Int /\ k * n \in Int /\ k * m <= k * n
<1> SUFFICES ASSUME NEW k \in Nat, NEW m \in Nat, NEW n \in Nat, m <= n
             PROVE  k * m \in Int /\ k * n \in Int /\ k * m <= k * n
  OBVIOUS
<1>1. k * m \in Nat /\ k * (n - m) \in Nat
  BY SMT
<1>2. k * n = k * m + k * (n - m)
  BY SMT
<1>q. QED
  BY <1>1, <1>2

\* The panel's Min of a finite set of numbers.
LEMMA LeastOf ==
    ASSUME NEW X \in SUBSET Int, IsFiniteSet(X), X # {}
    PROVE  P!Min(X) \in X /\ (\A y \in X : P!Min(X) <= y)
  BY Bounded DEF P!Min

\* The panel's Min and Max of two numbers.
LEMMA OfTwo ==
    ASSUME NEW a \in Int, NEW b \in Int
    PROVE  P!Min({a, b}) = (IF a <= b THEN a ELSE b) /\ P!Max({a, b}) = (IF a <= b THEN b ELSE a)
<1>1. (\E x \in {a, b} : \A y \in {a, b} : x <= y) /\ (\E x \in {a, b} : \A y \in {a, b} : x >= y)
  OBVIOUS
<1>2. P!Min({a, b}) \in {a, b} /\ \A y \in {a, b} : P!Min({a, b}) <= y
  BY <1>1 DEF P!Min
<1>3. P!Max({a, b}) \in {a, b} /\ \A y \in {a, b} : P!Max({a, b}) >= y
  BY <1>1 DEF P!Max
<1>q. QED
  BY <1>2, <1>3
-------------------------------------------------------------------------------
(* One judge.                                                              *)

\* The units and the attempts are numbers, and what is missing is none.
Units == One \in Nat \ {0} /\ Retries \in Nat /\ None \notin Int

\* A reply of one of the kinds the providers meet, and a judge of the panel.
IsReply(r) ==
    /\ r.kind \in {"object", "cut", "list", "text", "empty", "raises"}
    /\ r.kind \in {"object", "cut"} => r.score \in Int \cup {None}

IsJudge(j) ==
    /\ j.model.hash \in 0..One /\ j.model.weight \in Int
    /\ \A i \in 1..(Retries + 1) : IsReply(j.replies[i])

\* What is parsed is an answer with a score that is clipped.
LEMMA ParsedIs ==
    ASSUME Units, NEW s \in Int \cup {None}, NEW v
    PROVE  P!Parsed(s, v).ok = TRUE /\ P!Parsed(s, v).score \in 0..One
<1>1. CASE s = None
  BY <1>1 DEF Units, P!Parsed, P!Answer
<1>2. CASE s # None
  <2>1. PICK n : n = P!Min({One, s})
    OBVIOUS
  <2>2. n = (IF One <= s THEN One ELSE s) /\ n \in Int
    BY <1>2, <2>1, OfTwo DEF Units
  <2>3. P!Max({0, n}) = (IF 0 <= n THEN n ELSE 0)
    BY <2>2, OfTwo
  <2>4. P!Parsed(s, v).ok = TRUE /\ P!Parsed(s, v).score = P!Max({0, n})
    BY <1>2, <2>1 DEF P!Parsed, P!Answer
  <2>q. QED
    BY <2>2, <2>3, <2>4 DEF Units
<1>q. QED
  BY <1>1, <1>2

\* So is what a judge that is not set up makes up.
LEMMA MockIs ==
    ASSUME NEW m, m.hash \in 0..One
    PROVE  P!Mock(m).ok = TRUE /\ P!Mock(m).score \in 0..One
  BY DEF P!Mock, P!Answer

\* An answer or not, with a score if it is one.
IsResult(e) == e.ok \in BOOLEAN /\ (e.ok => e.score \in 0..One)

\* What a reply with text says; an object says what is parsed of it.
LEMMA ContentIs ==
    ASSUME Units, NEW r, IsReply(r), r.kind \notin {"raises", "empty"}
    PROVE  IsResult(P!Content(r)) /\ (r.kind = "object" => P!Content(r) = P!Parsed(r.score, r.verdict))
<1>1. CASE r.kind = "object"
  BY <1>1, ParsedIs DEF P!Content, IsReply, IsResult
<1>2. CASE r.kind = "cut"
  <2>1. P!Content(r) = P!Salvaged(r) /\ r.score \in Int \cup {None}
    BY <1>2 DEF P!Content, IsReply
  <2>2. IsResult(P!Parsed(r.score, r.verdict))
    BY <2>1, ParsedIs DEF IsResult
  <2>3. IsResult(P!Salvaged(r))
    BY <2>2 DEF P!Salvaged, P!Excluded, IsResult
  <2>q. QED
    BY <1>2, <2>1, <2>3
<1>3. CASE r.kind \in {"list", "text"}
  BY <1>3 DEF P!Content, P!Excluded, IsResult
<1>q. QED
  BY <1>1, <1>2, <1>3 DEF IsReply

\* A call: the hash if something is missing, or else what the reply says.
LEMMA CallIs ==
    ASSUME Units, NEW m, m.hash \in 0..One, NEW r, IsReply(r), NEW needs, NEW cause, NEW empty, IsResult(empty)
    PROVE  /\ IsResult(P!Call(m, r, needs, cause, empty))
           /\ r.kind = "object" => P!Call(m, r, needs, cause, empty) =
                                     IF needs \subseteq m.has THEN P!Parsed(r.score, r.verdict) ELSE P!Mock(m)
<1>1. CASE ~(needs \subseteq m.has)
  BY <1>1, MockIs DEF P!Call, IsResult
<1>2. CASE needs \subseteq m.has
  <2>1. CASE r.kind = "raises"
    BY <1>2, <2>1 DEF P!Call, P!Excluded, IsResult
  <2>2. CASE r.kind = "empty"
    BY <1>2, <2>2 DEF P!Call
  <2>3. CASE r.kind \notin {"raises", "empty"}
    <3>1. P!Call(m, r, needs, cause, empty) = P!Content(r)
      BY <1>2, <2>3 DEF P!Call
    <3>q. QED
      BY <1>2, <2>3, <3>1, ContentIs
  <2>q. QED
    BY <2>1, <2>2, <2>3
<1>q. QED
  BY <1>1, <1>2

\* Which settings a judge's provider needs; the mock, like one nobody registered, does
\* not look at the reply.
Listens(m) ==
    \/ m.provider \in {"openai", "anthropic", "google_gemini", "aws_bedrock"} /\ {"key", "sdk"} \subseteq m.has
    \/ m.provider = "onprem_openai_compatible" /\ {"base_url", "key", "sdk"} \subseteq m.has
    \/ m.provider = "azure_openai" /\ {"key", "sdk", "endpoint"} \subseteq m.has
    \/ m.provider = "google_vertex" /\ {"key", "sdk", "project_id"} \subseteq m.has

\* What any provider makes of a reply, and of one that is an object.
LEMMA EvaluateIs ==
    ASSUME Units, NEW m, m.hash \in 0..One, NEW r, IsReply(r)
    PROVE  /\ IsResult(P!Evaluate(m, r))
           /\ r.kind = "object" => P!Evaluate(m, r) = IF Listens(m) THEN P!Parsed(r.score, r.verdict) ELSE P!Mock(m)
<1>1. IsResult(P!EmptyObject)
  BY ParsedIs DEF P!EmptyObject, IsResult
<1>2. \A x : IsResult(P!Excluded(x))
  BY DEF P!Excluded, IsResult
<1>3. IsResult(P!Mock(m))
  BY MockIs DEF IsResult
<1>4. CASE m.provider = "openai"
  BY <1>1, <1>4, CallIs DEF P!Evaluate, P!OpenAI, Listens
<1>5. CASE m.provider = "onprem_openai_compatible"
  <2>1. CASE "base_url" \in m.has
    BY <1>1, <1>5, <2>1, CallIs DEF P!Evaluate, P!OnPrem, P!OpenAI, Listens
  <2>2. CASE "base_url" \notin m.has
    BY <1>3, <1>5, <2>2 DEF P!Evaluate, P!OnPrem, Listens
  <2>q. QED
    BY <2>1, <2>2
<1>6. CASE m.provider = "azure_openai"
  BY <1>1, <1>6, CallIs DEF P!Evaluate, P!Azure, Listens
<1>7. CASE m.provider = "anthropic"
  BY <1>2, <1>7, CallIs DEF P!Evaluate, P!Anthropic, Listens
<1>8. CASE m.provider = "google_gemini"
  BY <1>1, <1>8, CallIs DEF P!Evaluate, P!Gemini, Listens
<1>9. CASE m.provider = "google_vertex"
  BY <1>2, <1>9, CallIs DEF P!Evaluate, P!Vertex, Listens
<1>10. CASE m.provider = "aws_bedrock"
  BY <1>2, <1>10, CallIs DEF P!Evaluate, P!Bedrock, Listens
<1>11. CASE m.provider \notin {"openai", "onprem_openai_compatible", "azure_openai", "anthropic", "google_gemini", "google_vertex", "aws_bedrock"}
  BY <1>3, <1>11 DEF P!Evaluate, Listens
<1>q. QED
  BY <1>4, <1>5, <1>6, <1>7, <1>8, <1>9, <1>10, <1>11

\* A verdict as good as another one, and an answer as good as another one of the same
\* weight.
Ranking == {"fail", "warn", "pass"}
Higher(v, u) == u = v \/ (v \in Ranking /\ u \in Ranking /\ P!Ranks[v] <= P!Ranks[u])
Raised(x, y) == x.score <= y.score /\ Higher(P!Normal(x.verdict), P!Normal(y.verdict))
Better(a, b) == a.weight = b.weight /\ Raised(a.said, b.said)

\* Three verdicts have a rank.
LEMMA RankedIs == \A o : P!Ranked(o) <=> o.verdict \in Ranking
  BY DEF P!Ranked, P!Ranks, Ranking

\* The attempt whose result a call has.
LEMMA AttemptIs ==
    ASSUME Units, NEW j
    PROVE  LET good == {i \in 1..(Retries + 1) : P!Evaluate(j.model, j.replies[i]).ok}
               last == IF good = {} THEN Retries + 1 ELSE P!Min(good)
           IN last \in 1..(Retries + 1) /\ P!CallOne(j) = P!Evaluate(j.model, j.replies[last])
<1> DEFINE good == {i \in 1..(Retries + 1) : P!Evaluate(j.model, j.replies[i]).ok}
<1>1. ASSUME good # {} PROVE P!Min(good) \in good
  <2>1. good \subseteq 1..(Retries + 1)
    OBVIOUS
  <2>2. IsFiniteSet(1..(Retries + 1)) /\ 1..(Retries + 1) \subseteq Int
    BY FS_Interval DEF Units
  <2> HIDE DEF good
  <2>3. good \in SUBSET Int /\ IsFiniteSet(good)
    BY <2>1, <2>2, FS_Subset
  <2>q. QED
    BY <1>1, <2>3, LeastOf
<1>2. good \subseteq 1..(Retries + 1) /\ Retries + 1 \in 1..(Retries + 1)
  BY DEF Units
<1>3. P!CallOne(j) = P!Evaluate(j.model, j.replies[IF good = {} THEN Retries + 1 ELSE P!Min(good)])
  BY DEF P!CallOne
<1>4. (IF good = {} THEN Retries + 1 ELSE P!Min(good)) \in 1..(Retries + 1)
  <2> HIDE DEF good
  <2>q. QED
    BY <1>1, <1>2
<1>q. QED
  BY <1>3, <1>4

\* A call has an answer or not.
LEMMA CallOneIs ==
    ASSUME Units, NEW j, IsJudge(j)
    PROVE  IsResult(P!CallOne(j))
<1>1. PICK last \in 1..(Retries + 1) : P!CallOne(j) = P!Evaluate(j.model, j.replies[last])
  BY AttemptIs
<1>q. QED
  BY <1>1, EvaluateIs DEF IsJudge

\* A judge that thinks better of a trace in one of its replies answers when it did, and
\* no worse.
LEMMA RaisedJudge ==
    ASSUME Units, NEW j, IsJudge(j), NEW k \in 1..(Retries + 1), NEW s \in Int, NEW v \in Ranking,
           j.replies[k].kind = "object",
           P!Ranked(P!Opinion(j.replies[k].score, j.replies[k].verdict)),
           P!AtLeast(P!Opinion(s, v), P!Opinion(j.replies[k].score, j.replies[k].verdict)),
           NEW b, b.model = j.model,
           \A i \in 1..(Retries + 1) : b.replies[i] = IF i = k THEN P!Object(s, v) ELSE j.replies[i]
    PROVE  /\ IsJudge(b)
           /\ P!CallOne(b).ok = P!CallOne(j).ok
           /\ P!CallOne(j).ok => Better(P!Weighed(j), P!Weighed(b))
<1> DEFINE A == 1..(Retries + 1)
           x(i) == P!Evaluate(j.model, j.replies[i])
           y(i) == P!Evaluate(b.model, b.replies[i])
           old == j.replies[k]
<1>1. IsReply(P!Object(s, v)) /\ P!Object(s, v).kind = "object" /\ P!Object(s, v).score = s /\ P!Object(s, v).verdict = v
  BY DEF IsReply, P!Object
<1>2. IsJudge(b)
  BY <1>1 DEF IsJudge
<1>3. old.score \in Int \cup {None} /\ IsReply(old) /\ j.model.hash \in 0..One
  BY DEF IsJudge, IsReply
<1>4. x(k) = (IF Listens(j.model) THEN P!Parsed(old.score, old.verdict) ELSE P!Mock(j.model))
      /\ y(k) = (IF Listens(j.model) THEN P!Parsed(s, v) ELSE P!Mock(j.model))
  BY <1>1, <1>3, EvaluateIs
<1>5. \A i \in A : IsResult(x(i)) /\ IsResult(y(i))
  BY <1>2, EvaluateIs DEF IsJudge
<1>6. \A i \in A : i # k => x(i) = y(i)
  OBVIOUS
<1>7. x(k).ok /\ y(k).ok
  BY <1>3, <1>4, ParsedIs, MockIs
<1>8. Raised(x(k), y(k))
  <2>1. CASE ~Listens(j.model)
    <3>1. x(k) = y(k) /\ x(k).score \in 0..One
      BY <1>4, <1>3, <2>1, MockIs
    <3>q. QED
      BY <3>1, Zenon, SMT DEF Raised, Higher
  <2>2. CASE Listens(j.model)
    <3> DEFINE o == P!Parsed(old.score, old.verdict)
               n == P!Parsed(s, v)
    <3>1. x(k) = o /\ y(k) = n
      BY <1>4, <2>2
    <3>2. P!Opinion(old.score, old.verdict) = P!Outcome(o.score, P!Normal(o.verdict))
          /\ P!Opinion(s, v) = P!Outcome(n.score, P!Normal(n.verdict))
      BY DEF P!Opinion
    <3>3. n.verdict \in Ranking
      BY DEF P!Parsed, P!Answer, Ranking
    <3>4. P!Normal(n.verdict) \in Ranking
      <4> HIDE DEF n
      <4>q. QED
        BY <3>3 DEF P!Normal, Ranking
    <3> HIDE DEF o, n
    <3>5. P!Outcome(o.score, P!Normal(o.verdict)).verdict = P!Normal(o.verdict)
          /\ P!Outcome(n.score, P!Normal(n.verdict)).verdict = P!Normal(n.verdict)
          /\ P!Outcome(o.score, P!Normal(o.verdict)).score = o.score
          /\ P!Outcome(n.score, P!Normal(n.verdict)).score = n.score
      BY DEF P!Outcome
    <3>6. P!Normal(o.verdict) \in Ranking
      BY <3>2, <3>5, RankedIs
    <3>7. n.score >= o.score /\ P!Ranks[P!Normal(n.verdict)] >= P!Ranks[P!Normal(o.verdict)]
      BY <3>2, <3>4, <3>5, <3>6, RankedIs DEF P!AtLeast
    <3>8. n.score \in Int /\ o.score \in Int
      <4>1. s \in Int \cup {None} /\ old.score \in Int \cup {None}
        BY <1>3
      <4>2. n.score \in 0..One /\ o.score \in 0..One
        BY <4>1, ParsedIs, Zenon DEF o, n
      <4>q. QED
        BY <4>2
    <3>9. \A w \in Ranking : P!Ranks[w] \in Int
      BY DEF Ranking, P!Ranks
    <3>10. P!Ranks[P!Normal(o.verdict)] <= P!Ranks[P!Normal(n.verdict)] /\ o.score <= n.score
      BY <3>4, <3>6, <3>7, <3>8, <3>9
    <3>q. QED
      BY <3>1, <3>4, <3>6, <3>10 DEF Raised, Higher
  <2>q. QED
    BY <2>1, <2>2
<1>9. \A i \in A : x(i).ok = y(i).ok /\ (x(i).ok => Raised(x(i), y(i)))
  <2> SUFFICES ASSUME NEW i \in A PROVE x(i).ok = y(i).ok /\ (x(i).ok => Raised(x(i), y(i)))
    OBVIOUS
  <2>1. CASE i = k
    BY <1>5, <1>7, <1>8, <2>1 DEF IsResult
  <2>2. CASE i # k
    <3>1. x(i) = y(i) /\ IsResult(x(i))
      BY <1>5, <1>6, <2>2
    <3>2. ASSUME x(i).ok PROVE x(i).score \in Int
      BY <3>1, <3>2 DEF IsResult
    <3> HIDE DEF x, y
    <3>q. QED
      BY <3>1, <3>2 DEF Raised, Higher
  <2>q. QED
    BY <2>1, <2>2
<1> DEFINE good == {i \in A : x(i).ok}
           last == IF good = {} THEN Retries + 1 ELSE P!Min(good)
<1>10. good = {i \in A : y(i).ok}
  <2> HIDE DEF x, y, A
  <2>q. QED
    BY <1>9
<1>11. last \in A /\ P!CallOne(j) = x(last)
  BY AttemptIs
<1>12. P!CallOne(b) = y(last)
  <2>1. P!CallOne(b) = y(IF {i \in A : y(i).ok} = {} THEN Retries + 1 ELSE P!Min({i \in A : y(i).ok}))
    BY AttemptIs
  <2> HIDE DEF x, y, A
  <2>q. QED
    BY <1>10, <2>1
<1> HIDE DEF x, y, last, A
<1>13. P!CallOne(b).ok = P!CallOne(j).ok /\ (P!CallOne(j).ok => Raised(P!CallOne(j), P!CallOne(b)))
  BY <1>9, <1>11, <1>12
<1>q. QED
  BY <1>2, <1>13 DEF P!Weighed, Better, Raised

-------------------------------------------------------------------------------
(* The consensus.                                                          *)

\* The panel counts as the library does.
LEMMA PanelCardinality == \A X : P!Cardinality(X) = Cardinality(X)
  BY Zenon DEF P!Cardinality, Cardinality

\* The total of numbers up to n is at most n times as many as there are.
LEMMA TotalSize ==
    ASSUME NEW f, NEW n \in Nat, IsFiniteSet(DOMAIN f), \A x \in DOMAIN f : f[x] \in 0..n
    PROVE  P!Total(f) \in 0..(n * Cardinality(DOMAIN f))
<1> DEFINE S == DOMAIN f
           V(U) == P!SumFunctionOnSet(f, U)
           G == {U \in SUBSET S : V(U) \in Int /\ 0 <= V(U) /\ V(U) <= n * Cardinality(U)}
<1>1. V({}) = 0 /\ \A U \in SUBSET S : U # {} => First(U) \in U /\ V(U) = f[First(U)] + V(U \ {First(U)})
  BY SumUnfolds
<1> HIDE DEF V
<1>2. {} \in G
  BY <1>1, FS_EmptySet
<1>3. ASSUME NEW U \in SUBSET S, U # {}, U \ {First(U)} \in G PROVE U \in G
  <2>1. PICK x : x = First(U)
    OBVIOUS
  <2>2. x \in U /\ V(U) = f[x] + V(U \ {x}) /\ f[x] \in Int /\ 0 <= f[x] /\ f[x] <= n
    BY <1>1, <1>3, <2>1
  <2>3. PICK c \in Nat : Cardinality(U \ {x}) = c /\ Cardinality(U) = c + 1
    BY <2>2, FS_Subset, FS_RemoveElement, FS_CardinalityType
  <2>4. V(U \ {x}) \in Int /\ 0 <= V(U \ {x}) /\ V(U \ {x}) <= n * c
    BY <1>3, <2>1, <2>3
  <2>5. n * (c + 1) = n * c + n /\ n * c \in Int
    OBVIOUS
  <2>6. V(U) \in Int /\ 0 <= V(U) /\ V(U) <= n * (c + 1)
    BY <2>2, <2>4, <2>5
  <2>q. QED
    BY <2>3, <2>6
<1>4. G = SUBSET S
  <2>1. G \in SUBSET (SUBSET S)
    OBVIOUS
  <2> HIDE DEF G
  <2>q. QED
    BY <1>2, <1>3, <2>1, BySubsets
<1>5. V(S) \in Int /\ 0 <= V(S) /\ V(S) <= n * Cardinality(S)
  BY <1>4
<1>6. V(S) = P!Total(f) /\ n * Cardinality(S) \in Int
  BY FS_CardinalityType DEF V, P!Total, P!SumFunction
<1>q. QED
  BY <1>5, <1>6

\* A mean keeps the bounds and the order.
LEMMA MeanIs ==
    ASSUME NEW n \in Nat, NEW f, NEW g, IsFiniteSet(DOMAIN f), DOMAIN f # {}, DOMAIN g = DOMAIN f,
           \A x \in DOMAIN f : f[x] \in 0..n /\ g[x] \in 0..n /\ f[x] <= g[x]
    PROVE  P!Mean(f) \in 0..n /\ P!Mean(g) \in 0..n /\ P!Mean(f) <= P!Mean(g)
<1>1. PICK c \in Nat \ {0} : Cardinality(DOMAIN f) = c
  BY FS_CardinalityType, FS_EmptySet
<1>2. P!Total(f) \in 0..(n * c) /\ P!Total(g) \in 0..(n * c) /\ n * c \in Int
  BY <1>1, TotalSize
<1>3. P!Total(f) <= P!Total(g)
  BY TotalMonotone DEF Numbers
<1>4. P!Mean(f) = P!Total(f) \div c /\ P!Mean(g) = P!Total(g) \div c
  BY <1>1, PanelCardinality DEF P!Mean
<1>5. P!Total(f) \div c \in 0..n /\ P!Total(g) \div c \in 0..n
  BY <1>2, DivisionBound
<1>6. P!Total(f) \div c <= P!Total(g) \div c
  BY <1>2, <1>3, DivisionMonotone
<1>q. QED
  BY <1>4, <1>5, <1>6

\* The verdict of a higher score is no lower.
LEMMA FromScoreIs ==
    ASSUME Units, NEW x \in Int, NEW y \in Int, x <= y
    PROVE  Higher(P!FromScore(x), P!FromScore(y)) /\ P!FromScore(x) \in Ranking
  BY DEF Units, Higher, P!FromScore, P!Ranks, Ranking

\* What several judges answered.
Answers(a) ==
    /\ IsFiniteSet(DOMAIN a) /\ DOMAIN a \subseteq Int /\ DOMAIN a # {}
    /\ \A i \in DOMAIN a : a[i].said.score \in 0..One /\ a[i].weight \in Int

\* The weights are not negative and not all zero.
LEMMA WeightsAre ==
    ASSUME NEW a, Answers(a)
    PROVE  /\ DOMAIN P!Weights(a) = DOMAIN a
           /\ \A i \in DOMAIN a : P!Weights(a)[i] \in Nat
           /\ \E i \in DOMAIN a : P!Weights(a)[i] # 0
<1> DEFINE w == [i \in DOMAIN a |-> P!Max({0, a[i].weight})]
<1>1. \A i \in DOMAIN a : w[i] \in Nat
  <2> SUFFICES ASSUME NEW i \in DOMAIN a PROVE w[i] \in Nat
    OBVIOUS
  <2>1. PICK n \in Int : n = a[i].weight
    BY DEF Answers
  <2>2. P!Max({0, n}) = (IF 0 <= n THEN n ELSE 0)
    BY OfTwo
  <2>q. QED
    BY <2>1, <2>2
<1>2. P!Weights(a) = IF P!Range(w) = {0} THEN [i \in DOMAIN w |-> 1] ELSE w
  BY DEF P!Weights
<1>3. DOMAIN w = DOMAIN a /\ DOMAIN a # {}
  BY DEF Answers
<1> HIDE DEF w
<1>4. CASE P!Range(w) = {0}
  BY <1>2, <1>3, <1>4
<1>5. CASE P!Range(w) # {0}
  <2>1. \E i \in DOMAIN w : w[i] # 0
    BY <1>3, <1>5 DEF P!Range
  <2>q. QED
    BY <1>1, <1>2, <1>3, <1>5, <2>1
<1>q. QED
  BY <1>4, <1>5

\* They are the same for the same weights of the judges.
LEMMA WeightsSame ==
    ASSUME NEW a, NEW b, DOMAIN a = DOMAIN b, \A i \in DOMAIN a : a[i].weight = b[i].weight
    PROVE  P!Weights(a) = P!Weights(b)
<1>1. [i \in DOMAIN a |-> P!Max({0, a[i].weight})] = [i \in DOMAIN b |-> P!Max({0, b[i].weight})]
  OBVIOUS
<1>q. QED
  BY <1>1, Zenon DEF P!Weights

\* How many have a verdict.
Count(f, v) == Cardinality({i \in DOMAIN f : f[i] = v})

\* What more than half have is the verdict of the majority, and if there is none it is warn.
LEMMA MajorityIs ==
    ASSUME NEW f, IsFiniteSet(DOMAIN f)
    PROVE  /\ \A v \in P!Range(f) : 2 * Count(f, v) > Cardinality(DOMAIN f) => P!Majority(f) = v
           /\ P!Majority(f) # "warn" => P!Majority(f) \in P!Range(f) /\ 2 * Count(f, P!Majority(f)) > Cardinality(DOMAIN f)
<1> DEFINE wins == {v \in P!Range(f) : 2 * Count(f, v) > Cardinality(DOMAIN f)}
           same == {v \in P!Range(f) : 2 * P!Cardinality({i \in DOMAIN f : f[i] = v}) > P!Cardinality(DOMAIN f)}
<1>0. P!Majority(f) = IF same = {} THEN "warn" ELSE CHOOSE v \in same : TRUE
  BY Zenon DEF P!Majority
<1>a. same = wins
  BY PanelCardinality DEF Count
<1>1. P!Majority(f) = IF wins = {} THEN "warn" ELSE CHOOSE v \in wins : TRUE
  <2> HIDE DEF same, wins
  <2>q. QED
    BY <1>0, <1>a
<1>2. ASSUME NEW v \in wins, NEW u \in wins, u # v PROVE FALSE
  <2> DEFINE V == {i \in DOMAIN f : f[i] = v}
             U == {i \in DOMAIN f : f[i] = u}
  <2>1. V \cap U = {} /\ V \cup U \subseteq DOMAIN f
    BY <1>2
  <2>2. IsFiniteSet(V) /\ IsFiniteSet(U) /\ Cardinality(V) \in Nat /\ Cardinality(U) \in Nat /\ Cardinality(DOMAIN f) \in Nat
    BY FS_Subset, FS_CardinalityType
  <2>3. 2 * Cardinality(V) > Cardinality(DOMAIN f) /\ 2 * Cardinality(U) > Cardinality(DOMAIN f)
    BY DEF Count
  <2> HIDE DEF V, U
  <2>4. Cardinality(V \cup U) = Cardinality(V) + Cardinality(U)
    <3>1. Cardinality(V \cup U) = Cardinality(V) + Cardinality(U) - Cardinality(V \cap U)
      BY <2>2, FS_Union
    <3>2. Cardinality(V \cap U) = 0
      BY <2>1, FS_EmptySet
    <3>q. QED
      BY <2>2, <3>1, <3>2
  <2>5. Cardinality(V \cup U) <= Cardinality(DOMAIN f)
    BY <2>1, FS_Subset
  <2>q. QED
    BY <2>2, <2>3, <2>4, <2>5
<1> HIDE DEF wins
<1>3. \A v \in wins : P!Majority(f) = v
  BY <1>1, <1>2
<1>4. P!Majority(f) # "warn" => P!Majority(f) \in wins
  BY <1>1
<1>q. QED
  BY <1>3, <1>4 DEF wins

\* At least as many are of the better opinion if each is no worse.
LEMMA CountsMove ==
    ASSUME NEW f, NEW g, IsFiniteSet(DOMAIN f), DOMAIN g = DOMAIN f, \A i \in DOMAIN f : Higher(f[i], g[i])
    PROVE  /\ Count(f, "pass") <= Count(g, "pass") /\ Count(g, "fail") <= Count(f, "fail")
           /\ Count(f, "pass") \in Nat /\ Count(g, "pass") \in Nat /\ Count(f, "fail") \in Nat /\ Count(g, "fail") \in Nat
<1>1. {i \in DOMAIN f : f[i] = "pass"} \subseteq {i \in DOMAIN f : g[i] = "pass"}
      /\ {i \in DOMAIN f : g[i] = "fail"} \subseteq {i \in DOMAIN f : f[i] = "fail"}
  BY DEF Higher, P!Ranks, Ranking
<1>2. \A v : IsFiniteSet({i \in DOMAIN f : f[i] = v}) /\ IsFiniteSet({i \in DOMAIN f : g[i] = v})
  BY FS_Subset
<1>q. QED
  BY <1>1, <1>2, FS_Subset, FS_CardinalityType DEF Count

\* The verdict of the majority is no lower then.
LEMMA MajorityRises ==
    ASSUME NEW f, NEW g, IsFiniteSet(DOMAIN f), DOMAIN g = DOMAIN f, \A i \in DOMAIN f : Higher(f[i], g[i]),
           P!Majority(f) \in Ranking, P!Majority(g) \in Ranking
    PROVE  P!Ranks[P!Majority(f)] <= P!Ranks[P!Majority(g)]
<1>0. Cardinality(DOMAIN f) \in Nat
  BY FS_CardinalityType
<1>1. CASE P!Majority(f) = "pass"
  <2>1. 2 * Count(f, "pass") > Cardinality(DOMAIN f) /\ "pass" \in P!Range(f)
    BY <1>1, MajorityIs
  <2>2. 2 * Count(g, "pass") > Cardinality(DOMAIN g)
    BY <1>0, <2>1, CountsMove
  <2>3. "pass" \in P!Range(g)
    BY <2>1 DEF P!Range, Higher, P!Ranks, Ranking
  <2>4. P!Majority(g) = "pass"
    BY <2>2, <2>3, MajorityIs
  <2>q. QED
    BY <1>1, <2>4 DEF P!Ranks
<1>2. CASE P!Majority(f) = "warn"
  <2>1. ASSUME P!Majority(g) = "fail" PROVE FALSE
    <3>1. 2 * Count(g, "fail") > Cardinality(DOMAIN g) /\ "fail" \in P!Range(g)
      BY <2>1, MajorityIs
    <3>2. 2 * Count(f, "fail") > Cardinality(DOMAIN f)
      BY <1>0, <3>1, CountsMove
    <3>3. "fail" \in P!Range(f)
      BY <3>1 DEF P!Range, Higher, P!Ranks, Ranking
    <3>4. P!Majority(f) = "fail"
      BY <3>2, <3>3, MajorityIs
    <3>q. QED
      BY <1>2, <3>4
  <2>q. QED
    BY <1>2, <2>1 DEF P!Ranks, Ranking
<1>3. CASE P!Majority(f) = "fail"
  BY <1>3 DEF P!Ranks, Ranking
<1>q. QED
  BY <1>1, <1>2, <1>3 DEF Ranking

\* Nor is the verdict they all have.
LEMMA UnanimousRises ==
    ASSUME NEW f, NEW g, IsFiniteSet(DOMAIN f), DOMAIN f \subseteq Int, DOMAIN f # {}, DOMAIN g = DOMAIN f,
           \A i \in DOMAIN f : Higher(f[i], g[i]),
           P!Unanimous(f) \in Ranking, P!Unanimous(g) \in Ranking
    PROVE  P!Ranks[P!Unanimous(f)] <= P!Ranks[P!Unanimous(g)]
<1>1. PICK m \in DOMAIN f : m = P!Min(DOMAIN f)
  BY LeastOf
<1>2. \A h : DOMAIN h = DOMAIN f =>
        /\ \A v : (\A i \in DOMAIN h : h[i] = v) => P!Unanimous(h) = v
        /\ P!Unanimous(h) # "warn" => \A i \in DOMAIN h : h[i] = P!Unanimous(h)
  <2> SUFFICES ASSUME NEW h, DOMAIN h = DOMAIN f
               PROVE  /\ \A v : (\A i \in DOMAIN h : h[i] = v) => P!Unanimous(h) = v
                      /\ P!Unanimous(h) # "warn" => \A i \in DOMAIN h : h[i] = P!Unanimous(h)
    OBVIOUS
  <2>1. P!Unanimous(h) = IF \E v \in P!Range(h) : P!Range(h) = {v} THEN h[m] ELSE "warn"
    BY <1>1 DEF P!Unanimous
  <2>2. ASSUME NEW v, \A i \in DOMAIN h : h[i] = v PROVE P!Unanimous(h) = v
    <3>1. P!Range(h) = {v}
      BY <1>1, <2>2 DEF P!Range
    <3>q. QED
      BY <1>1, <2>1, <2>2, <3>1
  <2>3. ASSUME P!Unanimous(h) # "warn" PROVE \A i \in DOMAIN h : h[i] = P!Unanimous(h)
    <3>1. PICK v : P!Range(h) = {v} /\ P!Unanimous(h) = h[m]
      BY <2>1, <2>3
    <3>q. QED
      BY <1>1, <3>1 DEF P!Range
  <2>q. QED
    BY <2>2, <2>3
<1>3. CASE P!Unanimous(f) = "pass"
  <2>1. \A i \in DOMAIN f : g[i] = "pass"
    BY <1>2, <1>3 DEF Higher, P!Ranks, Ranking
  <2>2. P!Unanimous(g) = "pass"
    BY <1>2, <2>1
  <2>q. QED
    BY <1>3, <2>2 DEF P!Ranks
<1>4. CASE P!Unanimous(f) = "warn"
  <2>1. ASSUME P!Unanimous(g) = "fail" PROVE FALSE
    <3>1. \A i \in DOMAIN f : f[i] = "fail"
      BY <1>2, <2>1 DEF Higher, P!Ranks, Ranking
    <3>2. P!Unanimous(f) = "fail"
      BY <1>2, <3>1
    <3>q. QED
      BY <1>4, <3>2
  <2>q. QED
    BY <1>4, <2>1 DEF P!Ranks, Ranking
<1>5. CASE P!Unanimous(f) = "fail"
  BY <1>5 DEF P!Ranks, Ranking
<1>q. QED
  BY <1>3, <1>4, <1>5 DEF Ranking

\* The scores, the verdicts and the weighted mean of what several judges answered.
ScoresOf(a) == [i \in DOMAIN a |-> a[i].said.score]
VerdictsOf(a) == [i \in DOMAIN a |-> P!Normal(a[i].said.verdict)]
WeightedMean(a) == P!Total([i \in DOMAIN P!Weights(a) |-> P!Weights(a)[i] * ScoresOf(a)[i]]) \div P!Total(P!Weights(a))

\* The consensus, policy by policy.
LEMMA AggregateIs ==
    ASSUME NEW a, NEW policy
    PROVE  LET o == P!Aggregate(a, policy)
               first == P!Min(DOMAIN a)
               alone == policy = "single" \/ P!Cardinality(DOMAIN a) = 1
           IN /\ alone => o = P!Outcome(ScoresOf(a)[first], VerdictsOf(a)[first])
              /\ ~alone /\ policy = "unanimous" => o = P!Outcome(P!Min(P!Range(ScoresOf(a))), P!Unanimous(VerdictsOf(a)))
              /\ ~alone /\ policy = "weighted" => o = P!Outcome(WeightedMean(a), P!FromScore(WeightedMean(a)))
              /\ ~alone /\ policy = "majority" => o = P!Outcome(P!Mean(ScoresOf(a)), P!Majority(VerdictsOf(a)))
              /\ ~alone /\ policy \notin {"unanimous", "weighted", "majority"} =>
                    o = P!Outcome(P!Mean(ScoresOf(a)), P!FromScore(P!Mean(ScoresOf(a))))
<1>1. CASE policy = "single" \/ P!Cardinality(DOMAIN a) = 1
  BY <1>1 DEF P!Aggregate, ScoresOf, VerdictsOf
<1>2. CASE ~(policy = "single" \/ P!Cardinality(DOMAIN a) = 1)
  <2>1. CASE policy = "unanimous"
    BY <1>2, <2>1 DEF P!Aggregate, ScoresOf, VerdictsOf
  <2>2. CASE policy = "weighted"
    BY <1>2, <2>2 DEF P!Aggregate, ScoresOf, WeightedMean
  <2>3. CASE policy = "majority"
    BY <1>2, <2>3 DEF P!Aggregate, ScoresOf, VerdictsOf
  <2>4. CASE policy \notin {"unanimous", "weighted", "majority"}
    BY <1>2, <2>4 DEF P!Aggregate, ScoresOf
  <2>q. QED
    BY <1>2, <2>1, <2>2, <2>3, <2>4
<1>q. QED
  BY <1>1, <1>2

\* What makes one outcome as good as another.
LEMMA Comparison ==
    ASSUME NEW x \in Int, NEW y \in Int, NEW v, NEW u, x <= y,
           v \in Ranking /\ u \in Ranking => P!Ranks[v] <= P!Ranks[u]
    PROVE  P!AtLeast(P!Outcome(y, u), P!Outcome(x, v))
<1>1. P!Outcome(y, u).score = y /\ P!Outcome(y, u).verdict = u /\ P!Outcome(x, v).score = x /\ P!Outcome(x, v).verdict = v
  BY DEF P!Outcome
<1>2. \A w \in Ranking : P!Ranks[w] \in Int
  BY DEF Ranking, P!Ranks
<1>3. v \in Ranking /\ u \in Ranking => P!Ranks[u] >= P!Ranks[v]
  BY <1>2
<1>q. QED
  BY <1>1, <1>3, RankedIs DEF P!AtLeast

\* A higher verdict has no lower rank.
LEMMA HigherIs ==
    ASSUME NEW v, NEW u, Higher(v, u)
    PROVE  v \in Ranking /\ u \in Ranking => P!Ranks[v] <= P!Ranks[u]
  BY DEF Higher, Ranking, P!Ranks

\* Better answers make a consensus that is no worse, whatever the policy.
LEMMA AggregateRises ==
    ASSUME Units, NEW a, NEW b, Answers(a), Answers(b), DOMAIN b = DOMAIN a,
           \A i \in DOMAIN a : Better(a[i], b[i]), NEW policy
    PROVE  /\ P!Aggregate(a, policy).score \in 0..One
           /\ P!AtLeast(P!Aggregate(b, policy), P!Aggregate(a, policy))
<1> DEFINE D == DOMAIN a
           s == ScoresOf(a)
           t == ScoresOf(b)
           v == VerdictsOf(a)
           u == VerdictsOf(b)
           first == P!Min(D)
           alone == policy = "single" \/ P!Cardinality(D) = 1
<1>1. IsFiniteSet(D) /\ D \subseteq Int /\ D # {} /\ One \in Nat
  BY DEF Answers, Units
<1>2. DOMAIN s = D /\ DOMAIN t = D /\ DOMAIN v = D /\ DOMAIN u = D
  BY DEF ScoresOf, VerdictsOf
<1>3. \A i \in D : s[i] \in 0..One /\ t[i] \in 0..One /\ s[i] <= t[i] /\ Higher(v[i], u[i])
  BY DEF Answers, Better, Raised, ScoresOf, VerdictsOf
<1>4. first \in D
  BY <1>1, LeastOf
<1>5. P!Weights(a) = P!Weights(b)
  BY WeightsSame DEF Better
<1>a. \A x \in 0..One : x \in Int
  OBVIOUS
<1>o. \A x, w : P!Outcome(x, w).score = x
  BY DEF P!Outcome
<1> HIDE DEF s, t, v, u, D
<1>6. CASE alone
  <2>1. P!Aggregate(a, policy) = P!Outcome(s[first], v[first]) /\ P!Aggregate(b, policy) = P!Outcome(t[first], u[first])
    BY <1>6, AggregateIs DEF s, t, v, u, D
  <2>2. s[first] \in 0..One /\ t[first] \in 0..One /\ s[first] <= t[first] /\ Higher(v[first], u[first])
    BY <1>3, <1>4
  <2> HIDE DEF first, alone
  <2>3. P!AtLeast(P!Outcome(t[first], u[first]), P!Outcome(s[first], v[first]))
    BY <1>a, <2>2, Comparison, HigherIs
  <2>q. QED
    BY <1>o, <2>1, <2>2, <2>3
<1>7. CASE ~alone /\ policy = "unanimous"
  <2> DEFINE x == P!Min(P!Range(s))
             y == P!Min(P!Range(t))
  <2>1. P!Aggregate(a, policy) = P!Outcome(x, P!Unanimous(v)) /\ P!Aggregate(b, policy) = P!Outcome(y, P!Unanimous(u))
    BY <1>7, AggregateIs DEF s, t, v, u, D
  <2>2. ASSUME NEW h, DOMAIN h = D, \A i \in D : h[i] \in 0..One
        PROVE  P!Min(P!Range(h)) \in P!Range(h) /\ \A n \in P!Range(h) : P!Min(P!Range(h)) <= n
    <3>1. P!Range(h) \subseteq 0..One /\ P!Range(h) # {}
      BY <1>1, <2>2 DEF P!Range
    <3>2. IsFiniteSet(0..One) /\ 0..One \subseteq Int
      BY <1>1, FS_Interval
    <3>3. IsFiniteSet(P!Range(h))
      BY <3>1, <3>2, FS_Subset
    <3>q. QED
      BY <3>1, <3>2, <3>3, LeastOf
  <2>3. x \in P!Range(s) /\ y \in P!Range(t) /\ (\A n \in P!Range(s) : x <= n)
    BY <1>2, <1>3, <2>2
  <2> HIDE DEF x, y
  <2>4. PICK i \in D : y = t[i]
    BY <1>2, <2>3 DEF P!Range
  <2>5. x <= s[i] /\ x \in 0..One /\ y \in 0..One
    BY <1>2, <1>3, <2>3, <2>4 DEF P!Range
  <2>6. s[i] <= y /\ s[i] \in 0..One
    BY <1>3, <2>4
  <2>7. x <= y
    BY <1>a, <2>5, <2>6
  <2>8. P!Unanimous(v) \in Ranking /\ P!Unanimous(u) \in Ranking => P!Ranks[P!Unanimous(v)] <= P!Ranks[P!Unanimous(u)]
    BY <1>1, <1>2, <1>3, UnanimousRises
  <2>9. P!AtLeast(P!Outcome(y, P!Unanimous(u)), P!Outcome(x, P!Unanimous(v)))
    BY <1>a, <2>5, <2>7, <2>8, Comparison
  <2>q. QED
    BY <1>o, <2>1, <2>5, <2>9
<1>m. P!Mean(s) \in 0..One /\ P!Mean(t) \in 0..One /\ P!Mean(s) <= P!Mean(t)
  BY <1>1, <1>2, <1>3, MeanIs
<1>8. CASE ~alone /\ policy = "majority"
  <2>1. P!Aggregate(a, policy) = P!Outcome(P!Mean(s), P!Majority(v)) /\ P!Aggregate(b, policy) = P!Outcome(P!Mean(t), P!Majority(u))
    BY <1>8, AggregateIs DEF s, t, v, u, D
  <2>2. P!Majority(v) \in Ranking /\ P!Majority(u) \in Ranking => P!Ranks[P!Majority(v)] <= P!Ranks[P!Majority(u)]
    BY <1>1, <1>2, <1>3, MajorityRises
  <2>3. P!AtLeast(P!Outcome(P!Mean(t), P!Majority(u)), P!Outcome(P!Mean(s), P!Majority(v)))
    BY <1>a, <1>m, <2>2, Comparison
  <2>q. QED
    BY <1>o, <1>m, <2>1, <2>3
<1>f. ASSUME NEW x \in 0..One, NEW y \in 0..One, x <= y
      PROVE  P!AtLeast(P!Outcome(y, P!FromScore(y)), P!Outcome(x, P!FromScore(x)))
  <2>1. x \in Int /\ y \in Int
    OBVIOUS
  <2>2. Higher(P!FromScore(x), P!FromScore(y))
    BY <1>f, <2>1, FromScoreIs
  <2>q. QED
    BY <1>f, <2>1, <2>2, HigherIs, Comparison
<1>9. CASE ~alone /\ policy = "weighted"
  <2> DEFINE w == P!Weights(a)
             x == WeightedMean(a)
             y == WeightedMean(b)
             p == [i \in D |-> w[i] * s[i]]
             q == [i \in D |-> w[i] * t[i]]
  <2>1. P!Aggregate(a, policy) = P!Outcome(x, P!FromScore(x)) /\ P!Aggregate(b, policy) = P!Outcome(y, P!FromScore(y))
    BY <1>9, AggregateIs DEF D
  <2>2. DOMAIN w = D /\ (\A i \in D : w[i] \in Nat) /\ \E i \in D : w[i] # 0
    BY WeightsAre DEF D
  <2>3. x = P!Total(p) \div P!Total(w) /\ y = P!Total(q) \div P!Total(w)
    BY <1>5, <2>2 DEF WeightedMean, s, t
  <2> HIDE DEF w, x, y
  <2>4. /\ P!Total(w) \in Nat /\ \A i \in D : w[i] <= P!Total(w)
        /\ P!Total(p) \in 0..(One * P!Total(w))
    BY <1>1, <1>2, <1>3, <2>2, TotalBounds
  <2>5. P!Total(q) \in 0..(One * P!Total(w))
    BY <1>1, <1>2, <1>3, <2>2, TotalBounds
  <2>6. P!Total(w) \in Nat \ {0}
    BY <2>2, <2>4
  <2>7. P!Total(p) <= P!Total(q)
    <3>1. \A i \in D : p[i] \in Int /\ q[i] \in Int /\ p[i] <= q[i]
      <4> SUFFICES ASSUME NEW i \in D PROVE p[i] \in Int /\ q[i] \in Int /\ p[i] <= q[i]
        OBVIOUS
      <4>1. w[i] \in Nat /\ s[i] \in Nat /\ t[i] \in Nat /\ s[i] <= t[i]
        BY <1>3, <2>2
      <4>2. \A k, m, n \in Nat : m <= n => k * m \in Int /\ k * n \in Int /\ k * m <= k * n
        BY WeightTimes
      <4>q. QED
        BY <4>1, <4>2
    <3>2. DOMAIN p = D /\ DOMAIN q = D
      OBVIOUS
    <3> HIDE DEF p, q
    <3>q. QED
      BY <1>1, <3>1, <3>2, TotalMonotone DEF Numbers
  <2> HIDE DEF p, q
  <2>8. One * P!Total(w) \in Int
    BY <1>1, <2>6
  <2>9. P!Total(p) \div P!Total(w) \in 0..One /\ P!Total(q) \div P!Total(w) \in 0..One
    BY <1>1, <2>4, <2>5, <2>6, <2>8, DivisionBound
  <2>10. P!Total(p) \div P!Total(w) <= P!Total(q) \div P!Total(w)
    BY <2>4, <2>5, <2>6, <2>7, <2>8, DivisionMonotone
  <2>11. x \in 0..One /\ y \in 0..One /\ x <= y
    BY <2>3, <2>9, <2>10
  <2>q. QED
    BY <1>o, <1>f, <2>1, <2>11
<1>10. CASE ~alone /\ policy \notin {"unanimous", "weighted", "majority"}
  <2>1. P!Aggregate(a, policy) = P!Outcome(P!Mean(s), P!FromScore(P!Mean(s)))
        /\ P!Aggregate(b, policy) = P!Outcome(P!Mean(t), P!FromScore(P!Mean(t)))
    BY <1>10, AggregateIs DEF s, t, D
  <2>q. QED
    BY <1>o, <1>f, <1>m, <2>1
<1>q. QED
  BY <1>6, <1>7, <1>8, <1>9, <1>10

-------------------------------------------------------------------------------
(* The panel.                                                              *)

\* A panel of any judges, and one that differs in what they think.
IsPanel(p) == IsFiniteSet(DOMAIN p) /\ DOMAIN p \subseteq Int /\ \A i \in DOMAIN p : IsJudge(p[i])

NoWorse(p, q) ==
    /\ DOMAIN q = DOMAIN p
    /\ \A i \in DOMAIN p : /\ P!CallOne(q[i]).ok = P!CallOne(p[i]).ok
                           /\ P!CallOne(p[i]).ok => Better(P!Weighed(p[i]), P!Weighed(q[i]))

\* Who answered has a score and a weight.
LEMMA SurvivorsAre ==
    ASSUME Units, NEW p, IsPanel(p)
    PROVE  /\ DOMAIN P!Survivors(p) = P!Answered(p)
           /\ P!Answered(p) # {} => Answers(P!Survivors(p))
<1> DEFINE a == P!Survivors(p)
<1>1. DOMAIN a = P!Answered(p) /\ \A i \in P!Answered(p) : a[i] = P!Weighed(p[i])
  BY DEF P!Survivors
<1>2. P!Answered(p) \subseteq DOMAIN p
  BY DEF P!Answered
<1>3. IsFiniteSet(P!Answered(p)) /\ P!Answered(p) \subseteq Int
  BY <1>2, FS_Subset DEF IsPanel
<1>4. ASSUME NEW i \in P!Answered(p) PROVE a[i].said.score \in 0..One /\ a[i].weight \in Int
  <2>1. IsJudge(p[i]) /\ P!CallOne(p[i]).ok
    BY <1>4 DEF P!Answered, IsPanel
  <2>2. P!CallOne(p[i]).score \in 0..One
    BY <2>1, CallOneIs DEF IsResult
  <2>3. a[i].said.score = P!CallOne(p[i]).score /\ a[i].weight = p[i].model.weight
    BY <1>1, <1>4 DEF P!Weighed
  <2>q. QED
    BY <2>1, <2>2, <2>3 DEF IsJudge
<1>q. QED
  BY <1>1, <1>3, <1>4 DEF Answers

\* What the panel says: nothing, an error, or the consensus of those who answered.
LEMMA RunJudgesIs ==
    ASSUME NEW p, NEW policy
    PROVE  LET j == P!RunJudges(p, policy)
           IN /\ DOMAIN p = {} => j.score = 0 /\ j.verdict = "unset" /\ j.failed = FALSE
              /\ DOMAIN p # {} /\ P!Answered(p) = {} => j.score = 0 /\ j.verdict = "error" /\ j.failed = TRUE
              /\ P!Answered(p) # {} => /\ j.score = P!Aggregate(P!Survivors(p), policy).score
                                       /\ j.verdict = P!Aggregate(P!Survivors(p), policy).verdict
                                       /\ j.failed = FALSE
<1>1. DOMAIN P!Survivors(p) = P!Answered(p) /\ P!Answered(p) \subseteq DOMAIN p
  BY DEF P!Survivors, P!Answered
<1>2. CASE DOMAIN p = {}
  BY <1>1, <1>2 DEF P!RunJudges, P!Outcome
<1>3. CASE DOMAIN p # {} /\ P!Answered(p) = {}
  BY <1>1, <1>3 DEF P!RunJudges, P!Outcome
<1>4. CASE DOMAIN p # {} /\ P!Answered(p) # {}
  BY <1>1, <1>4 DEF P!RunJudges
<1>q. QED
  BY <1>1, <1>2, <1>3, <1>4

\* What a panel says of which one judge thinks better is no worse.
LEMMA PanelRises ==
    ASSUME Units, NEW p, NEW q, IsPanel(p), IsPanel(q), NoWorse(p, q), NEW policy
    PROVE  /\ P!RunJudges(p, policy).score \in 0..One
           /\ P!RunJudges(q, policy).score \in 0..One
           /\ P!RunJudges(q, policy).failed = P!RunJudges(p, policy).failed
           /\ P!AtLeast(P!RunJudges(q, policy), P!RunJudges(p, policy))
<1>1. DOMAIN q = DOMAIN p /\ P!Answered(q) = P!Answered(p) /\ One \in Nat
  BY DEF NoWorse, P!Answered, Units
<1>2. CASE P!Answered(p) = {}
  <2>1. /\ P!RunJudges(q, policy).score = 0 /\ P!RunJudges(p, policy).score = 0
        /\ P!RunJudges(q, policy).verdict = P!RunJudges(p, policy).verdict
        /\ P!RunJudges(p, policy).verdict \in {"unset", "error"}
        /\ P!RunJudges(q, policy).failed = P!RunJudges(p, policy).failed
    <3>1. CASE DOMAIN p = {}
      <4>1. P!RunJudges(p, policy).score = 0 /\ P!RunJudges(p, policy).verdict = "unset" /\ P!RunJudges(p, policy).failed = FALSE
        BY <3>1, RunJudgesIs
      <4>2. P!RunJudges(q, policy).score = 0 /\ P!RunJudges(q, policy).verdict = "unset" /\ P!RunJudges(q, policy).failed = FALSE
        BY <1>1, <3>1, RunJudgesIs
      <4>q. QED
        BY <4>1, <4>2
    <3>2. CASE DOMAIN p # {}
      <4>1. P!RunJudges(p, policy).score = 0 /\ P!RunJudges(p, policy).verdict = "error" /\ P!RunJudges(p, policy).failed = TRUE
        BY <1>2, <3>2, RunJudgesIs
      <4>2. P!RunJudges(q, policy).score = 0 /\ P!RunJudges(q, policy).verdict = "error" /\ P!RunJudges(q, policy).failed = TRUE
        BY <1>1, <1>2, <3>2, RunJudgesIs
      <4>q. QED
        BY <4>1, <4>2
    <3>q. QED
      BY <3>1, <3>2
  <2>2. P!RunJudges(p, policy).verdict \notin Ranking
    BY <2>1 DEF Ranking
  <2>q. QED
    BY <1>1, <2>1, <2>2, RankedIs DEF P!AtLeast
<1>3. CASE P!Answered(p) # {}
  <2> DEFINE a == P!Survivors(p)
             b == P!Survivors(q)
  <2>1. Answers(a) /\ Answers(b) /\ DOMAIN a = P!Answered(p) /\ DOMAIN b = DOMAIN a
    BY <1>1, <1>3, SurvivorsAre
  <2>2. \A i \in DOMAIN a : Better(a[i], b[i])
    <3> SUFFICES ASSUME NEW i \in P!Answered(p) PROVE Better(a[i], b[i])
      BY <2>1
    <3>1. a[i] = P!Weighed(p[i]) /\ b[i] = P!Weighed(q[i])
      BY <1>1 DEF P!Survivors
    <3>2. i \in DOMAIN p /\ P!CallOne(p[i]).ok
      BY DEF P!Answered
    <3> HIDE DEF a, b
    <3>q. QED
      BY <3>1, <3>2 DEF NoWorse
  <2> HIDE DEF a, b
  <2>3. /\ P!Aggregate(a, policy).score \in 0..One
        /\ P!AtLeast(P!Aggregate(b, policy), P!Aggregate(a, policy))
    BY <2>1, <2>2, AggregateRises
  <2>4. P!Aggregate(b, policy).score \in 0..One
    <3>1. \A i \in DOMAIN b : Better(b[i], b[i])
      BY <2>1 DEF Answers, Better, Raised, Higher
    <3>q. QED
      BY <2>1, <3>1, AggregateRises
  <2>5. /\ P!RunJudges(p, policy).score = P!Aggregate(a, policy).score
        /\ P!RunJudges(p, policy).verdict = P!Aggregate(a, policy).verdict
        /\ P!RunJudges(p, policy).failed = FALSE
    BY <1>3, RunJudgesIs DEF a
  <2>6. /\ P!RunJudges(q, policy).score = P!Aggregate(b, policy).score
        /\ P!RunJudges(q, policy).verdict = P!Aggregate(b, policy).verdict
        /\ P!RunJudges(q, policy).failed = FALSE
    BY <1>1, <1>3, RunJudgesIs DEF b
  <2>q. QED
    BY <2>3, <2>4, <2>5, <2>6 DEF P!AtLeast, P!Ranked
<1>q. QED
  BY <1>2, <1>3
-------------------------------------------------------------------------------
(* The rules and the trace.                                                *)

\* What the rules of a profile found, and the same with higher scores.
IsRules(r) == IsFiniteSet(DOMAIN r) /\ \A i \in DOMAIN r : r[i].score \in 0..One /\ r[i].weight \in Nat

RulesRaised(r, q) ==
    /\ DOMAIN q = DOMAIN r
    /\ \A i \in DOMAIN r : /\ q[i].score \in Int /\ r[i].score <= q[i].score
                           /\ q[i].kind = r[i].kind /\ q[i].stub = r[i].stub
                           /\ q[i].verdict = r[i].verdict /\ q[i].weight = r[i].weight

\* Higher scores of the rules make a weighted mean that is no lower.
LEMMA RuleScoreRises ==
    ASSUME Units, NEW r, NEW q, IsRules(r), RulesRaised(r, q)
    PROVE  P!RuleScore(r) \in 0..One /\ P!RuleScore(q) \in Int /\ P!RuleScore(r) <= P!RuleScore(q)
<1> DEFINE S == {i \in P!RuleFindings(r) : r[i].verdict # "unset"}
           w == [i \in S |-> r[i].weight]
           s == [i \in S |-> r[i].score]
           x == [i \in S |-> r[i].weight * r[i].score]
           y == [i \in S |-> q[i].weight * q[i].score]
<1>1. S \subseteq DOMAIN r /\ IsFiniteSet(S) /\ One \in Nat
  BY FS_Subset DEF P!RuleFindings, IsRules, Units
<1>2. S = {i \in P!RuleFindings(q) : q[i].verdict # "unset"}
  BY DEF RulesRaised, P!RuleFindings
<1>3. \A i \in S : w[i] \in Nat /\ s[i] \in 0..One /\ r[i].weight \in Nat /\ r[i].score \in 0..One /\ q[i].weight = r[i].weight
                   /\ q[i].score \in Int /\ r[i].score <= q[i].score
  BY <1>1 DEF IsRules, RulesRaised
<1>4. P!RuleScore(r) = IF P!Total(w) = 0 THEN 0 ELSE P!Total(x) \div P!Total(w)
  BY DEF P!RuleScore
<1>5. P!RuleScore(q) = IF P!Total(w) = 0 THEN 0 ELSE P!Total(y) \div P!Total(w)
  <2>1. w = [i \in S |-> q[i].weight]
    BY <1>3
  <2> HIDE DEF S, w
  <2>q. QED
    BY <1>2, <2>1, Zenon DEF P!RuleScore
<1>6. P!Total(w) \in Nat /\ P!Total(x) \in 0..(One * P!Total(w))
  <2>1. x = [i \in DOMAIN w |-> w[i] * s[i]]
    OBVIOUS
  <2>2. DOMAIN w = S /\ DOMAIN s = S
    OBVIOUS
  <2> HIDE DEF S, w, s, x
  <2>3. P!Total(w) \in Nat /\ P!Total([i \in DOMAIN w |-> w[i] * s[i]]) \in 0..(One * P!Total(w))
    BY <1>1, <1>3, <2>2, TotalBounds
  <2>q. QED
    BY <2>1, <2>3
<1>7. P!Total(x) \in Int /\ P!Total(y) \in Int /\ P!Total(x) <= P!Total(y)
  <2>1. \A i \in S : x[i] \in Int /\ y[i] \in Int /\ x[i] <= y[i]
    <3> SUFFICES ASSUME NEW i \in S PROVE x[i] \in Int /\ y[i] \in Int /\ x[i] <= y[i]
      OBVIOUS
    <3>1. PICK k \in Nat, m \in Nat, n \in Nat : k = r[i].weight /\ m = r[i].score /\ n = q[i].score /\ m <= n /\ q[i].weight = k
      <4>0. r[i].weight \in Nat /\ r[i].score \in 0..One /\ q[i].score \in Int /\ r[i].score <= q[i].score /\ q[i].weight = r[i].weight
        <5> HIDE DEF w, s, x, y, S
        <5>q. QED
          BY <1>3
      <4>1. r[i].weight \in Nat /\ r[i].score \in Nat /\ q[i].score \in Int /\ r[i].score <= q[i].score /\ q[i].weight = r[i].weight
        BY <1>1, <4>0
      <4>2. q[i].score \in Nat
        BY <4>1
      <4>q. QED
        BY <4>1, <4>2
    <3>2. k * m \in Int /\ k * n \in Int /\ k * m <= k * n
      BY <3>1, WeightTimes
    <3>q. QED
      BY <3>1, <3>2
  <2>2. DOMAIN x = S /\ DOMAIN y = S
    OBVIOUS
  <2> HIDE DEF S, x, y
  <2>q. QED
    BY <1>1, <2>1, <2>2, TotalMonotone DEF Numbers
<1> HIDE DEF S, w, s, x, y
<1>8. CASE P!Total(w) = 0
  BY <1>1, <1>4, <1>5, <1>8
<1>9. CASE P!Total(w) # 0
  <2>1. PICK t \in Nat \ {0} : t = P!Total(w)
    BY <1>6, <1>9
  <2>2. One * t \in Int
    BY <1>1
  <2>3. P!Total(x) \div t \in 0..One
    BY <1>1, <1>6, <1>7, <2>1, <2>2, DivisionBound
  <2>4. P!Total(y) \div t \in Int /\ P!Total(x) \div t <= P!Total(y) \div t
    BY <1>7, DivisionMonotone
  <2>q. QED
    BY <1>4, <1>5, <1>9, <2>1, <2>3, <2>4
<1>q. QED
  BY <1>8, <1>9

\* They make a plain mean with a golden item that is no lower.
LEMMA GoldenScoreRises ==
    ASSUME Units, NEW r, NEW q, IsRules(r), RulesRaised(r, q), NEW g, g.score \in 0..One
    PROVE  P!GoldenScore(r, g) \in 0..One /\ P!GoldenScore(q, g) \in Int /\ P!GoldenScore(r, g) <= P!GoldenScore(q, g)
<1> DEFINE S == P!RuleFindings(r)
           x == [i \in S |-> r[i].score]
           y == [i \in S |-> q[i].score]
<1>1. S \subseteq DOMAIN r /\ IsFiniteSet(S) /\ One \in Nat
  BY FS_Subset DEF P!RuleFindings, IsRules, Units
<1>2. S = P!RuleFindings(q)
  BY DEF RulesRaised, P!RuleFindings
<1>3. \A i \in S : x[i] \in 0..One /\ x[i] \in Int /\ y[i] \in Int /\ x[i] <= y[i]
  BY <1>1 DEF IsRules, RulesRaised
<1>4. DOMAIN x = S /\ DOMAIN y = S
  OBVIOUS
<1>5. PICK c \in Nat : c = Cardinality(S)
  BY <1>1, FS_CardinalityType
<1>6. P!GoldenScore(r, g) = (P!Total(x) + g.score) \div (c + 1) /\ P!GoldenScore(q, g) = (P!Total(y) + g.score) \div (c + 1)
  BY <1>2, <1>5, PanelCardinality DEF P!GoldenScore
<1> HIDE DEF S, x, y
<1>7. P!Total(x) \in 0..(One * c)
  BY <1>1, <1>3, <1>4, <1>5, TotalSize
<1>8. P!Total(x) \in Int /\ P!Total(y) \in Int /\ P!Total(x) <= P!Total(y)
  BY <1>1, <1>3, <1>4, TotalMonotone DEF Numbers
<1>9. PICK n \in Nat \ {0}, a \in Int, b \in Int : n = c + 1 /\ a = P!Total(x) + g.score /\ b = P!Total(y) + g.score
  BY <1>8
<1>10. a <= b
  BY <1>8, <1>9
<1>11. 0 <= a /\ a <= One * n
  <2>1. One * (c + 1) = One * c + One /\ One * c \in Int
    BY <1>1
  <2>q. QED
    BY <1>1, <1>7, <1>9, <2>1
<1>12. a \div n \in 0..One
  BY <1>1, <1>11, DivisionBound
<1>13. b \div n \in Int /\ a \div n <= b \div n
  BY <1>10, DivisionMonotone
<1>q. QED
  BY <1>6, <1>9, <1>12, <1>13

\* A golden item, and a subject of a run with the golden items there are.
IsItem(g) == g.alike \in 0..One

IsSubject(sub) ==
    /\ {"trace", "query", "response", "panel", "policy", "rules", "byTrace", "byQuery"} \subseteq DOMAIN sub
    /\ IsPanel(sub.panel)
    /\ \A i \in DOMAIN sub.panel : /\ {"model", "replies"} \subseteq DOMAIN sub.panel[i]
                                   /\ DOMAIN sub.panel[i].replies = 1..(Retries + 1)
    /\ IsRules(sub.rules)
    /\ \A i \in DOMAIN sub.rules : {"kind", "stub", "score", "verdict", "weight"} \subseteq DOMAIN sub.rules[i]
    /\ \A x \in DOMAIN sub.byTrace : IsItem(sub.byTrace[x])
    /\ \A x \in DOMAIN sub.byQuery : IsItem(sub.byQuery[x])

\* What one subject has and another has too.
SameBut(sub, b) ==
    /\ b.trace = sub.trace /\ b.query = sub.query /\ b.response = sub.response
    /\ b.policy = sub.policy /\ b.byTrace = sub.byTrace /\ b.byQuery = sub.byQuery

\* A finding about a golden item has a score between nothing and all.
LEMMA GoldenFindingIs ==
    ASSUME Units, NEW e, NEW r, NEW n \in 0..One
    PROVE  P!GoldenFinding(e, r, n).score \in 0..One
<1>1. One \div 2 \in 0..One
  BY DEF Units
<1>2. P!GoldenFinding(e, r, n).score \in {One \div 2, 0, n}
  BY DEF P!GoldenFinding, P!Outcome
<1>q. QED
  BY <1>1, <1>2 DEF Units

\* Higher scores of the rules make a layer of rules that scores no less.
LEMMA RuleLayerRises ==
    ASSUME Units, NEW sub, NEW b, IsSubject(sub), SameBut(sub, b), RulesRaised(sub.rules, b.rules)
    PROVE  P!RuleLayer(sub) \in 0..One /\ P!RuleLayer(b) \in Int /\ P!RuleLayer(sub) <= P!RuleLayer(b)
<1>1. PICK g : g = P!PickGolden(sub.trace, sub.query, sub.byTrace, sub.byQuery)
  OBVIOUS
<1>2. g = None \/ g.alike \in 0..One
  BY <1>1 DEF P!PickGolden, IsSubject, IsItem
<1>3. /\ P!RuleLayer(sub) = IF g = None THEN P!RuleScore(sub.rules)
                            ELSE P!GoldenScore(sub.rules, P!GoldenFinding(g.expected, sub.response, g.alike))
      /\ P!RuleLayer(b) = IF g = None THEN P!RuleScore(b.rules)
                          ELSE P!GoldenScore(b.rules, P!GoldenFinding(g.expected, sub.response, g.alike))
  BY <1>1 DEF P!RuleLayer, SameBut
<1>4. IsRules(sub.rules)
  BY DEF IsSubject
<1>5. CASE g = None
  <2>1. P!RuleScore(sub.rules) \in 0..One /\ P!RuleScore(b.rules) \in Int /\ P!RuleScore(sub.rules) <= P!RuleScore(b.rules)
    BY <1>4, RuleScoreRises
  <2>q. QED
    BY <1>3, <1>5, <2>1
<1>6. CASE g # None
  <2>1. PICK f : f = P!GoldenFinding(g.expected, sub.response, g.alike)
    OBVIOUS
  <2>2. f.score \in 0..One
    BY <1>2, <1>6, <2>1, GoldenFindingIs
  <2>3. P!GoldenScore(sub.rules, f) \in 0..One /\ P!GoldenScore(b.rules, f) \in Int
        /\ P!GoldenScore(sub.rules, f) <= P!GoldenScore(b.rules, f)
    BY <1>4, <2>2, GoldenScoreRises
  <2>q. QED
    BY <1>3, <1>6, <2>1, <2>3
<1>q. QED
  BY <1>5, <1>6

\* A higher score makes an outcome that is no worse.
LEMMA OutcomeRises ==
    ASSUME Units, NEW x \in Int, NEW y \in Int, x <= y
    PROVE  P!AtLeast(P!Outcome(y, P!FromScore(y)), P!Outcome(x, P!FromScore(x)))
  BY FromScoreIs, HigherIs, Comparison

\* Better judges and higher scores of the rules make an outcome of the trace that is no
\* worse; it is an error just when all judges failed.
LEMMA TraceRises ==
    ASSUME Units, NEW sub, NEW b, IsSubject(sub), SameBut(sub, b), RulesRaised(sub.rules, b.rules),
           IsPanel(b.panel), NoWorse(sub.panel, b.panel)
    PROVE  /\ P!AtLeast(P!TraceOutcome(b), P!TraceOutcome(sub))
           /\ P!TraceOutcome(sub).score \in 0..One
           /\ (DOMAIN sub.panel # {} /\ P!Answered(sub.panel) = {}) <=> P!TraceOutcome(sub).verdict = "error"
<1>1. PICK r \in 0..One, t \in Int : r = P!RuleLayer(sub) /\ t = P!RuleLayer(b) /\ r <= t
  BY RuleLayerRises
<1>2. IsPanel(sub.panel) /\ DOMAIN b.panel = DOMAIN sub.panel /\ b.policy = sub.policy /\ One \in Nat
  BY DEF IsSubject, NoWorse, SameBut, Units
<1>3. PICK j, k : j = P!RunJudges(sub.panel, sub.policy) /\ k = P!RunJudges(b.panel, sub.policy)
  OBVIOUS
<1>4. j.score \in 0..One /\ k.score \in 0..One /\ k.failed = j.failed /\ P!AtLeast(k, j)
  BY <1>2, <1>3, PanelRises
<1>5. j.score <= k.score /\ j.score \in Int /\ k.score \in Int
  BY <1>4 DEF P!AtLeast
<1>6. P!TraceOutcome(sub) = (IF DOMAIN sub.panel = {} THEN P!Combine(r, None)
                             ELSE IF j.failed THEN P!Outcome(0, "error") ELSE P!Combine(r, j.score))
      /\ P!TraceOutcome(b) = (IF DOMAIN sub.panel = {} THEN P!Combine(t, None)
                              ELSE IF j.failed THEN P!Outcome(0, "error") ELSE P!Combine(t, k.score))
  BY <1>1, <1>2, <1>3, <1>4 DEF P!TraceOutcome
<1>o. \A x, w : P!Outcome(x, w).score = x /\ P!Outcome(x, w).verdict = w
  BY DEF P!Outcome
<1>v. \A x \in Int : P!FromScore(x) # "error"
  BY DEF P!FromScore
<1>7. CASE DOMAIN sub.panel = {}
  <2>1. P!TraceOutcome(sub) = P!Outcome(r, P!FromScore(r)) /\ P!TraceOutcome(b) = P!Outcome(t, P!FromScore(t))
    BY <1>6, <1>7 DEF P!Combine
  <2>2. r \in Int
    OBVIOUS
  <2>3. P!AtLeast(P!Outcome(t, P!FromScore(t)), P!Outcome(r, P!FromScore(r)))
    BY <1>1, <2>2, OutcomeRises
  <2>q. QED
    BY <1>7, <1>o, <1>v, <2>1, <2>2, <2>3
<1>8. CASE DOMAIN sub.panel # {} /\ P!Answered(sub.panel) = {}
  <2>1. j.failed = TRUE
    BY <1>3, <1>8, RunJudgesIs
  <2>2. P!TraceOutcome(sub) = P!Outcome(0, "error") /\ P!TraceOutcome(b) = P!Outcome(0, "error")
    BY <1>6, <1>8, <2>1
  <2>3. P!AtLeast(P!Outcome(0, "error"), P!Outcome(0, "error"))
    BY Comparison DEF Ranking
  <2>q. QED
    BY <1>2, <1>8, <1>o, <2>2, <2>3
<1>9. CASE DOMAIN sub.panel # {} /\ P!Answered(sub.panel) # {}
  <2>1. j.failed = FALSE
    BY <1>3, <1>9, RunJudgesIs
  <2>2. PICK x \in Int, y \in Int : x = (r + j.score) \div 2 /\ y = (t + k.score) \div 2
    BY <1>5
  <2>3. x \in 0..One /\ x <= y
    BY <1>1, <1>2, <1>4, <1>5, <2>2
  <2>4. j.score # None /\ k.score # None
    BY <1>5 DEF Units
  <2>5. P!TraceOutcome(sub) = P!Outcome(x, P!FromScore(x)) /\ P!TraceOutcome(b) = P!Outcome(y, P!FromScore(y))
    BY <1>6, <1>9, <2>1, <2>2, <2>4 DEF P!Combine
  <2>6. P!AtLeast(P!Outcome(y, P!FromScore(y)), P!Outcome(x, P!FromScore(x)))
    BY <2>3, OutcomeRises
  <2>q. QED
    BY <1>9, <1>o, <1>v, <2>3, <2>5, <2>6
<1>q. QED
  BY <1>7, <1>8, <1>9

\* Nobody is worse than themselves.
LEMMA NoWorseThanSelf ==
    ASSUME Units, NEW p, IsPanel(p)
    PROVE  NoWorse(p, p)
<1> SUFFICES ASSUME NEW i \in DOMAIN p, P!CallOne(p[i]).ok PROVE Better(P!Weighed(p[i]), P!Weighed(p[i]))
  BY DEF NoWorse
<1>1. P!CallOne(p[i]).score \in 0..One
  BY CallOneIs DEF IsPanel, IsResult
<1>2. P!Weighed(p[i]).said.score \in Int
  BY <1>1 DEF P!Weighed
<1>q. QED
  BY <1>2 DEF Better, Raised, Higher

\* Nor are rules.
LEMMA RulesSame ==
    ASSUME NEW r, IsRules(r)
    PROVE  RulesRaised(r, r)
  BY DEF IsRules, RulesRaised

\* One judge of the panel thinks better of the trace.
LEMMA BetterJudgeIs ==
    ASSUME Units, NEW sub, IsSubject(sub), NEW marks \in SUBSET Int, NEW b \in P!BetterJudge(sub, marks)
    PROVE  SameBut(sub, b) /\ b.rules = sub.rules /\ IsPanel(b.panel) /\ NoWorse(sub.panel, b.panel)
<1>1. PICK i \in DOMAIN sub.panel, k \in 1..(Retries + 1), s \in marks, v \in Ranking :
        /\ b = [sub EXCEPT !.panel[i].replies[k] = P!Object(s, v)]
        /\ sub.panel[i].replies[k].kind = "object"
        /\ P!Ranked(P!Opinion(sub.panel[i].replies[k].score, sub.panel[i].replies[k].verdict))
        /\ P!AtLeast(P!Opinion(s, v), P!Opinion(sub.panel[i].replies[k].score, sub.panel[i].replies[k].verdict))
  BY DEF P!BetterJudge, Ranking
<1>2. PICK o : o = P!Object(s, v)
  OBVIOUS
<1>3. PICK p, j : p = sub.panel /\ j = p[i]
  OBVIOUS
<1>4. IsPanel(p) /\ IsJudge(j) /\ {"model", "replies"} \subseteq DOMAIN j /\ DOMAIN j.replies = 1..(Retries + 1)
  BY <1>3 DEF IsSubject, IsPanel
<1>5. PICK c : c = [j EXCEPT !.replies[k] = o]
  OBVIOUS
<1>6. c.model = j.model /\ \A n \in 1..(Retries + 1) : c.replies[n] = IF n = k THEN o ELSE j.replies[n]
  BY <1>4, <1>5
<1>7. b = [sub EXCEPT !.panel = [p EXCEPT ![i] = c]]
  BY <1>1, <1>2, <1>3, <1>5
<1>8. SameBut(sub, b) /\ b.rules = sub.rules /\ b.panel = [p EXCEPT ![i] = c]
  BY <1>7 DEF IsSubject, SameBut
<1>9. DOMAIN b.panel = DOMAIN p /\ i \in DOMAIN p /\ b.panel[i] = c /\ \A n \in DOMAIN p : n # i => b.panel[n] = p[n]
  BY <1>3, <1>8
<1>10. IsJudge(c) /\ P!CallOne(c).ok = P!CallOne(j).ok /\ (P!CallOne(j).ok => Better(P!Weighed(j), P!Weighed(c)))
  <2>1. s \in Int
    OBVIOUS
  <2>q. QED
    BY <1>1, <1>2, <1>3, <1>4, <1>6, <2>1, RaisedJudge
<1>11. IsPanel(b.panel)
  BY <1>4, <1>9, <1>10 DEF IsPanel
<1>12. NoWorse(p, p)
  BY <1>4, NoWorseThanSelf
<1>13. NoWorse(p, b.panel)
  BY <1>3, <1>9, <1>10, <1>12 DEF NoWorse
<1>q. QED
  BY <1>3, <1>8, <1>11, <1>13

\* One rule gave a higher score.
LEMMA BetterRuleIs ==
    ASSUME NEW sub, IsSubject(sub), NEW marks \in SUBSET Int, NEW b \in P!BetterRule(sub, marks)
    PROVE  SameBut(sub, b) /\ b.panel = sub.panel /\ RulesRaised(sub.rules, b.rules)
<1>1. PICK i \in DOMAIN sub.rules, s \in marks : b = [sub EXCEPT !.rules[i].score = s] /\ s >= sub.rules[i].score
  BY DEF P!BetterRule
<1>2. PICK r : r = sub.rules
  OBVIOUS
<1>3. PICK f : f = [r[i] EXCEPT !.score = s]
  OBVIOUS
<1>4. b = [sub EXCEPT !.rules = [r EXCEPT ![i] = f]]
  BY <1>1, <1>2, <1>3
<1>5. SameBut(sub, b) /\ b.panel = sub.panel /\ b.rules = [r EXCEPT ![i] = f]
  BY <1>4 DEF IsSubject, SameBut
<1>6. {"kind", "stub", "score", "verdict", "weight"} \subseteq DOMAIN r[i]
  BY <1>2 DEF IsSubject
<1>7. f.score = s /\ f.kind = r[i].kind /\ f.stub = r[i].stub /\ f.verdict = r[i].verdict /\ f.weight = r[i].weight
  BY <1>3, <1>6
<1>8. \A n \in DOMAIN r : r[n].score \in Int
  BY <1>2 DEF IsSubject, IsRules
<1>9. s \in Int /\ r[i].score <= s
  BY <1>1, <1>2, <1>8
<1>10. DOMAIN b.rules = DOMAIN r /\ i \in DOMAIN r /\ b.rules[i] = f /\ \A n \in DOMAIN r : n # i => b.rules[n] = r[n]
  BY <1>1, <1>2, <1>5
<1>11. RulesRaised(r, b.rules)
  BY <1>7, <1>8, <1>9, <1>10 DEF RulesRaised
<1>q. QED
  BY <1>2, <1>5, <1>11

\* For every panel of judges of any providers, any weights and replies, any policy, any
\* rules of weights that are not negative and any golden items: a judge or a rule that
\* thinks better of a trace never lowers what the panel or the run says of it; a judge
\* that failed counts for nothing, and the trace is an error just when all have failed
\* (judge/runner.py, judge/consensus.py, services/runs.py).
THEOREM JudgesAlwaysFair ==
    ASSUME Units, NEW sub, IsSubject(sub), NEW marks \in SUBSET Int
    PROVE  P!RaisingNeverLowers(sub, marks) /\ P!FailuresDoNotCount(sub)
<1>0. IsPanel(sub.panel) /\ IsRules(sub.rules) /\ NoWorse(sub.panel, sub.panel) /\ RulesRaised(sub.rules, sub.rules)
  BY NoWorseThanSelf, RulesSame DEF IsSubject
<1>1. P!RaisingNeverLowers(sub, marks)
  <2> SUFFICES ASSUME NEW b \in P!BetterJudge(sub, marks) \cup P!BetterRule(sub, marks)
               PROVE  /\ P!AtLeast(P!RunJudges(b.panel, b.policy), P!RunJudges(sub.panel, sub.policy))
                      /\ P!AtLeast(P!TraceOutcome(b), P!TraceOutcome(sub))
    BY DEF P!RaisingNeverLowers
  <2>1. SameBut(sub, b) /\ RulesRaised(sub.rules, b.rules) /\ IsPanel(b.panel) /\ NoWorse(sub.panel, b.panel)
    <3>1. CASE b \in P!BetterJudge(sub, marks)
      BY <1>0, <3>1, BetterJudgeIs
    <3>2. CASE b \in P!BetterRule(sub, marks)
      BY <1>0, <3>2, BetterRuleIs
    <3>q. QED
      BY <3>1, <3>2
  <2>2. P!AtLeast(P!RunJudges(b.panel, sub.policy), P!RunJudges(sub.panel, sub.policy))
    BY <1>0, <2>1, PanelRises
  <2>3. b.policy = sub.policy
    BY <2>1 DEF SameBut
  <2>q. QED
    BY <2>1, <2>2, <2>3, TraceRises
<1>2. P!FailuresDoNotCount(sub)
  <2>1. SameBut(sub, sub)
    BY DEF SameBut
  <2>2. /\ P!TraceOutcome(sub).score \in 0..One
        /\ (DOMAIN sub.panel # {} /\ P!Answered(sub.panel) = {}) <=> P!TraceOutcome(sub).verdict = "error"
    BY <1>0, <2>1, TraceRises
  <2>3. ASSUME P!Answered(sub.panel) # {}
        PROVE  P!TraceOutcome(sub) = P!TraceOutcome([sub EXCEPT !.panel = P!Restrict(sub.panel, P!Answered(sub.panel))])
    <3>1. PICK p, A, q, c : p = sub.panel /\ A = P!Answered(p) /\ q = P!Restrict(p, A) /\ c = [sub EXCEPT !.panel = q]
      OBVIOUS
    <3>2. A \subseteq DOMAIN p /\ A # {} /\ (\A i \in A : P!CallOne(p[i]).ok)
      BY <2>3, <3>1 DEF P!Answered
    <3>3. q = [i \in A |-> p[i]] /\ DOMAIN q = A
      BY <3>1 DEF P!Restrict
    <3>4. P!Answered(q) = A
      BY <3>2, <3>3 DEF P!Answered
    <3>5. P!Survivors(q) = P!Survivors(p)
      BY <3>1, <3>3, <3>4 DEF P!Survivors
    <3>6. DOMAIN P!Survivors(p) = A
      BY <3>1 DEF P!Survivors
    <3>7. P!RunJudges(q, sub.policy) = P!RunJudges(p, sub.policy)
      BY <3>2, <3>3, <3>5, <3>6 DEF P!RunJudges
    <3>8. SameBut(sub, c) /\ c.rules = sub.rules /\ c.panel = q
      BY <3>1 DEF IsSubject, SameBut
    <3>9. P!RuleLayer(c) = P!RuleLayer(sub)
      BY <3>8 DEF SameBut, P!RuleLayer
    <3>10. DOMAIN p # {} /\ DOMAIN q # {}
      BY <3>2, <3>3
    <3>11. c.policy = sub.policy
      BY <3>8 DEF SameBut
    <3>12. P!TraceOutcome(c) = P!TraceOutcome(sub)
      BY <3>1, <3>7, <3>8, <3>9, <3>10, <3>11 DEF P!TraceOutcome
    <3>q. QED
      BY <3>1, <3>12
  <2>q. QED
    BY <2>2, <2>3 DEF P!FailuresDoNotCount
<1>q. QED
  BY <1>1, <1>2


(* The panels of the run.                                                  *)

\* The units of the run.
LEMMA UnitsOfRun == Units /\ 1..(Retries + 1) = {1, 2} /\ 90 <= One
  BY InputsAssumption DEF Units

\* A judge as a subject has it.
Able(j) == IsJudge(j) /\ {"model", "replies"} \subseteq DOMAIN j /\ DOMAIN j.replies = 1..(Retries + 1)

\* The judges of the run are judges: one with two replies is,
LEMMA JudgeIsAble ==
    ASSUME NEW p, NEW has, NEW w \in Int, NEW first, NEW second, IsReply(first), IsReply(second)
    PROVE  Able(Judge(p, has, w, first, second))
<1>1. PICK j, r : j = Judge(p, has, w, first, second) /\ r = <<first, second>>
  OBVIOUS
<1>2. /\ j.model = [provider |-> p, has |-> has, hash |-> 60, weight |-> w]
      /\ j.replies = r /\ DOMAIN j = {"model", "replies"}
  BY <1>1 DEF Judge
<1>3. DOMAIN r = {1, 2} /\ r[1] = first /\ r[2] = second
  BY <1>1
<1>4. 60 \in 0..One
  BY UnitsOfRun, InputsAssumption
<1>5. \A i \in 1..(Retries + 1) : IsReply(r[i])
  BY <1>3, UnitsOfRun, Zenon
<1>6. IsJudge(j)
  BY <1>2, <1>4, <1>5 DEF IsJudge
<1>q. QED
  BY <1>1, <1>2, <1>3, <1>6, UnitsOfRun DEF Able

\* an object is a reply,
LEMMA ObjectIsReply == \A v : \A s \in Int \cup {None} : IsReply(Object(s, v))
  BY DEF Object, P!Object, IsReply

\* a failure is one,
LEMMA RaisesIsReply == \A c : IsReply(Raises(c))
  BY DEF Raises, IsReply

\* so is whatever a judge of the run says,
LEMMA RepliesAre == \A r \in Opinions \cup Replies : IsReply(r)
<1>1. ASSUME NEW r \in Opinions PROVE IsReply(r)
  <2>1. \E v : \E s \in {0, 70, 150, None, 50} : r = Object(s, v)
    BY Zenon DEF Opinions
  <2>2. {0, 70, 150, None, 50} \subseteq Int \cup {None}
    OBVIOUS
  <2>q. QED
    BY <2>1, <2>2, ObjectIsReply
<1>2. ASSUME NEW r \in Replies PROVE IsReply(r)
  <2>1. CASE \E c : r = Raises(c)
    BY <2>1, RaisesIsReply
  <2>2. CASE \E k \in {"empty", "text", "list"} : r = [kind |-> k]
    BY <2>2 DEF IsReply
  <2>3. CASE \E s \in {None, 60} : r = [kind |-> "cut", score |-> s, verdict |-> "fail"]
    BY <2>3 DEF IsReply
  <2>q. QED
    BY <2>1, <2>2, <2>3 DEF Replies
<1>q. QED
  BY <1>1, <1>2

\* and those are its judges.
LEMMA JudgesAre == \A j \in FirstJudges \cup LastJudges : Able(j)
<1>0. {0, 1, 3} \subseteq Int /\ {0, 70} \subseteq Int \cup {None}
  OBVIOUS
<1>1. \A j \in FirstJudges : Able(j)
  BY <1>0, JudgeIsAble, RepliesAre DEF FirstJudges
<1>2. ASSUME NEW j \in LastJudges PROVE Able(j)
  <2>1. CASE \E p \in Providers, r \in Replies : j = Judge(p, Everything, 1, r, Raises("timeout"))
    BY <1>0, <2>1, JudgeIsAble, RepliesAre, RaisesIsReply
  <2>2. CASE \E p \in Providers : j = Judge(p, Everything, 1, Raises("timeout"), Object(70, "good"))
    BY <1>0, <2>2, JudgeIsAble, RaisesIsReply, ObjectIsReply
  <2>3. CASE \E p \in Providers, miss \in Everything :
               j = Judge(p, Everything \ {miss}, 0, Object(0, "fail"), Object(0, "fail"))
    BY <1>0, <2>3, JudgeIsAble, ObjectIsReply
  <2>q. QED
    BY <2>1, <2>2, <2>3 DEF LastJudges
<1>q. QED
  BY <1>1, <1>2

\* Every panel of the run is a list of judges.
LEMMA PanelsAre ==
    ASSUME NEW p \in Panels
    PROVE  IsPanel(p) /\ \A i \in DOMAIN p : Able(p[i])
<1>1. PICK n \in Nat : DOMAIN p = 1..n /\ \A i \in 1..n : Able(p[i])
  <2>1. CASE p = <<>>
    <3>1. DOMAIN p = 1..0 /\ 0 \in Nat
      BY <2>1
    <3>q. QED
      BY <3>1
  <2>2. CASE \E b \in LastJudges : p = <<b>>
    <3>1. PICK b \in LastJudges : p = <<b>>
      BY <2>2
    <3>2. DOMAIN p = 1..1 /\ \A i \in 1..1 : p[i] = b
      BY <3>1
    <3>q. QED
      BY <3>2, JudgesAre
  <2>3. CASE \E a \in FirstJudges, b \in LastJudges : p = <<a, b>>
    <3>1. PICK a \in FirstJudges, b \in LastJudges : p = <<a, b>>
      BY <2>3
    <3>2. DOMAIN p = 1..2 /\ \A i \in 1..2 : p[i] \in {a, b}
      BY <3>1
    <3>q. QED
      BY <3>2, JudgesAre
  <2>4. CASE \E a, b \in FirstJudges :
               p = <<a, b, Judge("openai", Everything, 1, Raises("timeout"), Object(50, "warn"))>>
    <3>1. PICK a \in FirstJudges, b \in FirstJudges :
             p = <<a, b, Judge("openai", Everything, 1, Raises("timeout"), Object(50, "warn"))>>
      BY <2>4
    <3>c. PICK c : c = Judge("openai", Everything, 1, Raises("timeout"), Object(50, "warn"))
      OBVIOUS
    <3>2. Able(c)
      <4>1. 1 \in Int /\ 50 \in Int \cup {None}
        OBVIOUS
      <4>q. QED
        BY <3>c, <4>1, JudgeIsAble, RaisesIsReply, ObjectIsReply
    <3>3. DOMAIN p = 1..3 /\ \A i \in 1..3 : p[i] \in {a, b, c}
      BY <3>1, <3>c
    <3>q. QED
      BY <3>2, <3>3, JudgesAre
  <2>5. \/ p \in {<<>>}
        \/ p \in {<<b>> : b \in LastJudges}
        \/ p \in {<<a, b>> : a \in FirstJudges, b \in {j \in LastJudges : j.model.provider \in {"openai", "anthropic", "google_vertex"}}}
        \/ p \in {<<a, b, Judge("openai", Everything, 1, Raises("timeout"), Object(50, "warn"))>> : a, b \in FirstJudges}
    BY SMT DEF Panels
  <2>q. QED
    BY <2>1, <2>2, <2>3, <2>4, <2>5
<1>2. IsFiniteSet(1..n) /\ 1..n \subseteq Int
  BY FS_Interval
<1>q. QED
  BY <1>1, <1>2 DEF IsPanel, Able

\* The rules of the run are rules.
LEMMA RulesAre ==
    /\ IsRules(Rules)
    /\ \A i \in DOMAIN Rules : {"kind", "stub", "score", "verdict", "weight"} \subseteq DOMAIN Rules[i]
<1>1. DOMAIN Rules = 1..3
  BY DEF Rules
<1>2. IsFiniteSet(1..3)
  <2>1. 1 \in Int /\ 3 \in Int
    OBVIOUS
  <2>q. QED
    BY <2>1, FS_Interval
<1>3. 80 \in 0..One /\ 0 \in 0..One
  BY UnitsOfRun, InputsAssumption
<1>4. \A i \in 1..3 : /\ Rules[i].score \in {0, 80} /\ Rules[i].weight \in {1, 2}
                      /\ DOMAIN Rules[i] = {"kind", "stub", "score", "verdict", "weight"}
  BY DEF Rules
<1>q. QED
  BY <1>1, <1>2, <1>3, <1>4 DEF IsRules

\* The golden items of the run are alike to a part of the whole.
LEMMA ItemIs == \A e : IsItem(Item(e, 90)) /\ IsItem(Item(e, 40))
<1>1. 90 \in 0..One /\ 40 \in 0..One
  BY UnitsOfRun, InputsAssumption
<1>q. QED
  BY <1>1 DEF IsItem, Item

\* What the run takes of the panels is a subject.
LEMMA PanelsAreInputs == TakePanel => IsSubject(input')
<1> SUFFICES ASSUME TakePanel PROVE IsSubject(input')
  OBVIOUS
<1>0. PICK panel \in Panels, policy \in {"single", "majority", "unanimous", "weighted", "other"},
           known \in {"t", "other"}, query \in {None, "q"} :
        /\ known = "t" => query = "q"
        /\ input' = [topic |-> "panel", trace |-> "t", query |-> query, response |-> "r", panel |-> panel,
                     policy |-> policy, rules |-> Rules, byTrace |-> [x \in {known} |-> Item("e", 90)],
                     byQuery |-> [x \in {"q"} |-> Item(None, 40)]]
  BY Zenon DEF TakePanel
<1>1. PICK byTrace, byQuery :
        /\ input' = [topic |-> "panel", trace |-> "t", query |-> query, response |-> "r", panel |-> panel,
                     policy |-> policy, rules |-> Rules, byTrace |-> byTrace, byQuery |-> byQuery]
        /\ byTrace = [x \in {known} |-> Item("e", 90)]
        /\ byQuery = [x \in {"q"} |-> Item(None, 40)]
  BY <1>0
<1>2. PICK i : i = input'
  OBVIOUS
<1>3. /\ DOMAIN i = {"topic", "trace", "query", "response", "panel", "policy", "rules", "byTrace", "byQuery"}
      /\ i.panel = panel /\ i.rules = Rules /\ i.byTrace = byTrace /\ i.byQuery = byQuery
  BY <1>1, <1>2
<1>4. (\A x \in DOMAIN byTrace : IsItem(byTrace[x])) /\ (\A x \in DOMAIN byQuery : IsItem(byQuery[x]))
  BY <1>1, ItemIs
<1>5. IsSubject(i)
  BY <1>3, <1>4, PanelsAre, RulesAre DEF IsSubject, Able
<1>q. QED
  BY <1>2, <1>5

\* Of every panel the run takes, better opinions never lower a trace, and failed judges
\* never count.
THEOREM FairThroughout == MCSpec => []JudgesAreFair
<1>1. MCInit => JudgesAreFair
  BY DEF MCInit, Start, JudgesAreFair
<1>2. JudgesAreFair /\ [MCNext]_<<vars, input>> => JudgesAreFair'
  <2> SUFFICES ASSUME JudgesAreFair, [MCNext]_<<vars, input>> PROVE JudgesAreFair'
    OBVIOUS
  <2>1. CASE UNCHANGED input
    BY <2>1, Zenon DEF JudgesAreFair
  <2>2. CASE TakePanel
    <3>1. Scores \in SUBSET Int
      BY DEF Scores
    <3>2. P!RaisingNeverLowers(input', Scores) /\ P!FailuresDoNotCount(input')
      BY <2>2, <3>1, UnitsOfRun, PanelsAreInputs, JudgesAlwaysFair
    <3>q. QED
      BY <3>2, Zenon DEF JudgesAreFair
  <2>3. CASE TakeQueries \/ TakeTrust \/ TakeRanking \/ TakeMeasures \/ TakeFindings
    <3>1. input'.topic # "panel"
      <4>1. CASE TakeQueries
        BY <4>1 DEF TakeQueries
      <4>2. CASE TakeTrust
        BY <4>2 DEF TakeTrust
      <4>3. CASE TakeRanking
        BY <4>3 DEF TakeRanking
      <4>4. CASE TakeMeasures
        BY <4>4 DEF TakeMeasures
      <4>5. CASE TakeFindings
        BY <4>5 DEF TakeFindings
      <4>q. QED
        BY <2>3, <4>1, <4>2, <4>3, <4>4, <4>5
    <3>q. QED
      BY <3>1 DEF JudgesAreFair
  <2>4. [MCNext]_<<vars, input>> => UNCHANGED input \/ Take
    BY Inputs
  <2>q. QED
    BY <2>1, <2>2, <2>3, <2>4 DEF Take
<1>q. QED
  BY <1>1, <1>2, PTL DEF MCSpec
===============================================================================
