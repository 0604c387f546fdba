----------------------------- MODULE RunLifecycle -----------------------------
(***************************************************************************)
(* What an eval_run row promises to whoever polls it, whichever worker     *)
(* writes it (RunStatus of easyobs/eval/types.py): the status walks        *)
(* through its phases in order, the counts appear when it completes and    *)
(* not before, and a row that no worker owns any more does not change.     *)
(* GoldenRegression and EvalRun implement it.                              *)
(***************************************************************************)
EXTENDS Integers, Sequences

CONSTANTS Runs,
          Phases,   \* the statuses of a run that is not over, in their order
          Size      \* [Runs -> Nat], eval_run.subject_count

VARIABLES status,   \* eval_run.status ("none": no row yet)
          counts,   \* eval_run.completed_count, .failed_count
          owned     \* runs whose row a coroutine of a live process may yet write

vars == <<status, counts, owned>>

Aborted == {"failed", "cancelled"}
Zero    == [completed |-> 0, failed |-> 0]
InPhases == {Phases[i] : i \in DOMAIN Phases}

Init ==
    /\ status = [r \in Runs |-> "none"]
    /\ counts = [r \in Runs |-> Zero]
    /\ owned = {}

Submit(r) ==
    /\ status[r] = "none"
    /\ status' = [status EXCEPT ![r] = Phases[1]]
    /\ owned' = owned \cup {r}
    /\ UNCHANGED counts

Advance(r) ==
    /\ r \in owned
    /\ \E i \in 1..(Len(Phases) - 1) :
          /\ status[r] = Phases[i]
          /\ status' = [status EXCEPT ![r] = Phases[i + 1]]
    /\ UNCHANGED <<counts, owned>>

\* The only step that writes counts; no more verdicts than subjects.
Complete(r) ==
    /\ r \in owned
    /\ status[r] = Phases[Len(Phases)]
    /\ status' = [status EXCEPT ![r] = "completed"]
    /\ counts' = [counts EXCEPT ![r] = counts'[r]]
    /\ counts'[r].completed \in 0..Size[r]
    /\ counts'[r].failed \in Nat
    /\ owned' \in {owned, owned \ {r}}

\* A worker that has completed its row and still owns it may yet fail.
Abort(r) ==
    /\ r \in owned
    /\ status[r] \in InPhases \cup {"completed"}
    /\ \E s \in Aborted : status' = [status EXCEPT ![r] = s]
    /\ owned' = owned \ {r}
    /\ UNCHANGED counts

\* Workers return, raise, or die with their process.
Release ==
    /\ owned' \subseteq owned
    /\ UNCHANGED <<status, counts>>

Next == Release \/ \E r \in Runs : Submit(r) \/ Advance(r) \/ Complete(r) \/ Abort(r)

Spec == Init /\ [][Next]_vars
===============================================================================
