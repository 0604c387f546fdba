------------------------------- MODULE GoldenSets -------------------------------
(***************************************************************************)
(* The items of one golden set, their curation, and the revisions that     *)
(* regression runs lock while people and workers go on editing the set     *)
(* (easyobs/eval/services/goldensets.py, and the start of a run in         *)
(* golden_regression.py).                                                  *)
(*                                                                         *)
(* An action is a read or a commit of one database session, on SQLite; a   *)
(* single row loaded and committed is one action.  Revisions are           *)
(* numbered by their place; (set, number) is unique in the database.       *)
(***************************************************************************)
EXTENDS Integers, Sequences, FiniteSets

CONSTANTS Items,        \* golden items that may be created
          Starts,       \* calls of start_regression_run
          MaxReviews    \* bound: changes of an item's status

ASSUME BoundsAssumption == MaxReviews \in Nat
ASSUME SetsAssumption == IsFiniteSet(Items) /\ IsFiniteSet(Starts)

Statuses == {"candidate", "active", "archived"}

VARIABLES
    live,       \* the row of the set exists
    status,     \* of each item; absent and adding before its insert, gone after its delete
    binding,    \* its revision_id; 0 for NULL
    revisions,  \* eval_golden_revision: [immutable, count]
    pc, start,  \* where each start awaits, and its local variables
    reviews

items == <<status, binding>>
vars  == <<live, items, revisions, pc, start, reviews>>

Present == {i \in Items : status[i] \in Statuses}
Unbound == {i \in Present : binding[i] = 0}

\* The number of rev, the items the lock counted, the items of the run.
Local(n, count, invoked) == [revision |-> n, count |-> count, invoked |-> invoked]
NoStart == Local(0, 0, {})

Init ==
    /\ live = TRUE
    /\ status = [i \in Items |-> "absent"]
    /\ binding = [i \in Items |-> 0]
    /\ revisions = <<>>
    /\ pc = [r \in Starts |-> "load"]
    /\ start = [r \in Starts |-> NoStart]
    /\ reviews = 0

To(r, step, l) == pc' = [pc EXCEPT ![r] = step] /\ start' = [start EXCEPT ![r] = l]
-------------------------------------------------------------------------------
(* Curation.                                                               *)

\* An insert loads the set first; without it add_* answers LookupError, the
\* synthesizer's just returns.
LoadForInsert(i) ==
    /\ live /\ status[i] = "absent"
    /\ status' = [status EXCEPT ![i] = "adding"]
    /\ UNCHANGED <<live, binding, revisions, pc, start, reviews>>

\* add_manual_item and add_from_trace insert an active item; upload, sweep and
\* synthesizer insert candidates.
AddItem(i) ==
    /\ status[i] = "adding"
    /\ \E s \in {"active", "candidate"} : status' = [status EXCEPT ![i] = s]
    /\ UNCHANGED <<live, binding, revisions, pc, start, reviews>>

\* update_item_status: any status to any other.
UpdateStatus(i) ==
    /\ i \in Present
    /\ reviews < MaxReviews /\ reviews' = reviews + 1
    /\ \E s \in Statuses \ {status[i]} : status' = [status EXCEPT ![i] = s]
    /\ UNCHANGED <<live, binding, revisions, pc, start>>

\* delete_item asks no question about the revision of the item.
DeleteItem(i) ==
    /\ i \in Present
    /\ status' = [status EXCEPT ![i] = "gone"]
    /\ UNCHANGED <<live, binding, revisions, pc, start, reviews>>

\* delete_set removes one row; SQLite does not enforce the cascade.
DeleteSet ==
    /\ live /\ live' = FALSE
    /\ UNCHANGED <<items, revisions, pc, start, reviews>>
-------------------------------------------------------------------------------
(* ensure_active_revision.                                                 *)

\* get_set answers LookupError without the set.
LoadSet(r) ==
    /\ pc[r] = "load"
    /\ To(r, IF live THEN "ensure" ELSE "failed", NoStart)
    /\ UNCHANGED <<live, items, revisions, reviews>>

Latest == Len(revisions)

ReadLatest(r) ==
    /\ pc[r] = "ensure"
    /\ IF ~live THEN To(r, "failed", NoStart)
       ELSE IF Latest > 0 /\ ~revisions[Latest].immutable
       THEN To(r, "lock", Local(Latest, 0, {}))
       ELSE To(r, "insert", Local(Latest + 1, 0, {}))
    /\ UNCHANGED <<live, items, revisions, reviews>>

\* Mutant: without the unique constraint a second revision is opened.
InsertRevision_NotUnique(r) ==
    /\ pc[r] = "insert"
    /\ revisions' = Append(revisions, [immutable |-> FALSE, count |-> 0])
    /\ To(r, "lock", Local(Latest + 1, 0, {}))
    /\ UNCHANGED <<live, items, reviews>>

\* A revision with this number, inserted meanwhile, makes the INSERT fail.
InsertRevision(r) ==
    /\ pc[r] = "insert"
    /\ IF Latest < start[r].revision
       THEN /\ revisions' = Append(revisions, [immutable |-> FALSE, count |-> 0])
            /\ To(r, "lock", start[r])
       ELSE UNCHANGED revisions /\ To(r, "failed", NoStart)
    /\ UNCHANGED <<live, items, reviews>>
-------------------------------------------------------------------------------
(* lock_revision_for_run.                                                  *)

\* An immutable revision is returned as it is; otherwise the items are counted.
ReadRevision(r) ==
    /\ pc[r] = "lock"
    /\ IF revisions[start[r].revision].immutable THEN To(r, "select", start[r])
       ELSE To(r, "commit", Local(start[r].revision, Cardinality(Present), {}))
    /\ UNCHANGED <<live, items, revisions, reviews>>

Locked(r) == [immutable |-> TRUE, count |-> start[r].count]

\* Mutant: every item of the set is bound, not just those with a NULL revision_id.
CommitLock_Rebinds(r) ==
    /\ pc[r] = "commit"
    /\ LET n == start[r].revision
       IN /\ revisions' = [revisions EXCEPT ![n] = Locked(r)]
          /\ binding' = [i \in Items |-> IF i \in Present THEN n ELSE binding[i]]
    /\ To(r, "select", start[r])
    /\ UNCHANGED <<live, status, reviews>>

\* The query for the items with a NULL revision_id flushes the changed revision
\* first, which takes SQLite's write lock: what it returns is bound before anybody
\* else commits.  The revision is written whoever locked it since it was read.
CommitLock(r) ==
    /\ pc[r] = "commit"
    /\ LET n == start[r].revision
       IN /\ revisions' = [revisions EXCEPT ![n] = Locked(r)]
          /\ binding' = [i \in Items |-> IF i \in Unbound THEN n ELSE binding[i]]
    /\ To(r, "select", start[r])
    /\ UNCHANGED <<live, status, reviews>>

Eligible == {i \in Present : status[i] = "active"}

\* _select_invocation_items asks for the active items of the set, of any
\* revision; without one the start is refused.
SelectItems(r) ==
    /\ pc[r] = "select"
    /\ IF Eligible = {} THEN To(r, "failed", NoStart)
       ELSE To(r, "started", Local(start[r].revision, start[r].count, Eligible))
    /\ UNCHANGED <<live, items, revisions, reviews>>

Next ==
    \/ \E i \in Items : LoadForInsert(i) \/ AddItem(i) \/ UpdateStatus(i) \/ DeleteItem(i)
    \/ DeleteSet
    \/ \E r \in Starts : \/ LoadSet(r) \/ ReadLatest(r) \/ InsertRevision(r) \/ ReadRevision(r)
                         \/ CommitLock(r) \/ SelectItems(r)

Spec == Init /\ [][Next]_vars
-------------------------------------------------------------------------------
(* Properties.                                                             *)

Revision  == [immutable : BOOLEAN, count : 0..Cardinality(Items)]
LocalType == [revision : Nat, count : 0..Cardinality(Items), invoked : SUBSET Items]
Steps     == {"load", "ensure", "insert", "lock", "commit", "select", "started", "failed"}

TypeOK ==
    /\ live \in BOOLEAN
    /\ status \in [Items -> Statuses \cup {"absent", "adding", "gone"}]
    /\ binding \in [Items -> Nat]
    /\ revisions \in Seq(Revision)
    /\ pc \in [Starts -> Steps]
    /\ start \in [Starts -> LocalType]
    /\ reviews \in Nat

\* Only the newest revision may still be open, however many starts open one at
\* the same time.
OnlyLatestIsOpen == \A n \in 1..(Latest - 1) : revisions[n].immutable

\* An item that carries a revision carries a locked one: binding and locking
\* become visible together.
BoundIsLocked ==
    \A i \in Items : binding[i] # 0 =>
        binding[i] \in DOMAIN revisions /\ revisions[binding[i]].immutable

\* A start that has its revision from the lock has a locked one, whichever start
\* locked it.
RunIsPinned ==
    \A r \in Starts : pc[r] \in {"select", "started"} =>
        start[r].revision \in DOMAIN revisions /\ revisions[start[r].revision].immutable

\* ensure_active_revision and lock_revision_for_run keep one revision open for
\* edits and give runs and items locked ones only.
RevisionsClose == OnlyLatestIsOpen /\ BoundIsLocked /\ RunIsPinned

\* An item never moves to another revision and no revision is opened again: "this
\* is what makes the snapshot reproducible" (goldensets.py).
SnapshotStays ==
    [][/\ \A i \in Items : binding[i] # 0 => binding'[i] = binding[i]
       /\ \A n \in DOMAIN revisions : revisions[n].immutable => revisions'[n].immutable]_vars

\* golden_regression.py calls the lock "so the Run pins immutable inputs": the
\* items of a run belong to the revision it records, or to an earlier one.
InputsArePinned ==
    \A r \in Starts : \A i \in start[r].invoked : binding[i] \in 1..start[r].revision
===============================================================================
