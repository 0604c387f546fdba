------------------------ MODULE GoldenRegressionProofs ------------------------
(***************************************************************************)
(* Proofs about GoldenRegression for every set of items and clients and    *)
(* every value of the bounds; at the end, that it implements RunLifecycle.  *)
(***************************************************************************)
EXTENDS GoldenRegression, Sequences, FiniteSetTheorems, TLAPS

\* The variables keep their types: every status written to a row is one the
\* data model has and every await of the worker is one of those listed.
THEOREM TypeCorrect == Spec => []TypeOK
<1>1. Init => TypeOK
  <2> SUFFICES ASSUME Init PROVE TypeOK
    OBVIOUS
  <2>1. summary \in Counts /\ tally \in Counts
    BY DEF Init, Counts, Zero
  <2>2. inner \in [status : {"none", "running", "completed"}, counts : Counts]
    BY DEF Init, Counts, Zero
  <2>3. invoke \in [Items -> InvokeStatuses] /\ status \in Statuses
    BY DEF Init, InvokeStatuses, Pending, Statuses, Terminal
  <2>4. faults \in 0..MaxFaults /\ crashes \in 0..MaxCrashes
    BY BoundsAssumption DEF Init
  <2> QED
    BY <2>1, <2>2, <2>3, <2>4 DEF Init, TypeOK
<1>2. TypeOK /\ [Next]_vars => TypeOK'
  <2> SUFFICES ASSUME TypeOK, [Next]_vars PROVE TypeOK'
    OBVIOUS
  <2> USE BoundsAssumption DEF TypeOK, Statuses, Terminal, InvokeStatuses, Pending, Counts,
          Zero, Live, Handlers, Active, rows, task, locals, bounds
  <2>1. CASE StartCommit
    BY <2>1 DEF StartCommit
  <2>2. CASE StartSpawn
    BY <2>2 DEF StartSpawn
  <2>3. CASE WriteInvoking
    BY <2>3 DEF WriteInvoking, At
  <2>4. CASE LoadItems
    BY <2>4 DEF LoadItems, At
  <2>5. CASE GatherDone
    BY <2>5 DEF GatherDone, At
  <2>6. CASE WriteCollecting
    BY <2>6 DEF WriteCollecting, At
  <2>7. CASE Shortcut
    BY <2>7 DEF Shortcut, At
  <2>8. CASE Poll
    BY <2>8 DEF Poll, At
  <2>9. CASE ExpireRead
    BY <2>9 DEF ExpireRead, At, Unsettled
  <2>10. CASE ExpireWrite
    BY <2>10 DEF ExpireWrite, At
  <2>11. CASE Collect
    BY <2>11 DEF Collect, At, Collected
  <2>12. CASE WriteEvaluating
    BY <2>12 DEF WriteEvaluating, At
  <2>13. CASE FinaliseEmpty
    <3>1. Cardinality(Items) \in Nat
      BY ItemsAssumption, FS_CardinalityType
    <3> QED
      BY <2>13, <3>1 DEF FinaliseEmpty, At
  <2>14. CASE ExecRefused
    BY <2>14 DEF ExecRefused, At
  <2>15. CASE ExecStart
    BY <2>15 DEF ExecStart, At
  <2>16. CASE ExecFinish
    BY <2>16 DEF ExecFinish, At
  <2>17. CASE CopySummary
    BY <2>17 DEF CopySummary, At
  <2>18. CASE Refresh
    BY <2>18 DEF Refresh, At
  <2>19. CASE WriteCancelled
    BY <2>19 DEF WriteCancelled, At
  <2>20. CASE WriteFailed
    BY <2>20 DEF WriteFailed, At
  <2>21. CASE RaiseCancelled
    BY <2>21 DEF RaiseCancelled
  <2>22. CASE DeadlinePasses
    BY <2>22 DEF DeadlinePasses
  <2>23. CASE WorkerFault
    BY <2>23 DEF WorkerFault
  <2>24. CASE Crash
    <3>1. crashes' \in 0..MaxCrashes
      BY <2>24 DEF Crash
    <3>2. child' \in [Items -> {"none", "waiting", "done", "stopped"} \cup Active]
      BY <2>24 DEF Crash
    <3>3. client' \in [Clients -> {"idle", "checked", "accepted", "refused", "lost"}]
      BY <2>24 DEF Crash
    <3> QED
      BY <2>24, <3>1, <3>2, <3>3 DEF Crash
  <2>25. ASSUME NEW c \in Clients, CancelRead(c) PROVE TypeOK'
    BY <2>25 DEF CancelRead
  <2>26. ASSUME NEW c \in Clients, CancelAct(c) PROVE TypeOK'
    BY <2>26 DEF CancelAct
  <2>27. ASSUME NEW i \in Items, ExecSubject(i) PROVE TypeOK'
    BY <2>27 DEF ExecSubject, At, Outcomes
  <2>28. ASSUME NEW i \in Items, SkipCancelled(i) PROVE TypeOK'
    BY <2>28 DEF SkipCancelled, ChildMoves
  <2>29. ASSUME NEW i \in Items, AcquireSlot(i) PROVE TypeOK'
    BY <2>29 DEF AcquireSlot, ChildMoves
  <2>30. ASSUME NEW i \in Items, MarkStarted(i) PROVE TypeOK'
    BY <2>30 DEF MarkStarted, ChildMoves
  <2>31. ASSUME NEW i \in Items, CallReturns(i) PROVE TypeOK'
    BY <2>31 DEF CallReturns, ChildMoves
  <2>32. ASSUME NEW i \in Items, RecordResult(i) PROVE TypeOK'
    BY <2>32 DEF RecordResult, ChildMoves
  <2>33. ASSUME NEW i \in Items, TraceSeen(i) PROVE TypeOK'
    BY <2>33 DEF TraceSeen
  <2>34. ASSUME NEW i \in Items, TraceRecorded(i) PROVE TypeOK'
    BY <2>34 DEF TraceRecorded
  <2>35. ASSUME NEW i \in Items, ChildFault(i) PROVE TypeOK'
    BY <2>35 DEF ChildFault
  <2>36. CASE UNCHANGED vars
    BY <2>36 DEF vars
  <2> QED
    BY <2>1, <2>2, <2>3, <2>4, <2>5, <2>6, <2>7, <2>8, <2>9, <2>10, <2>11, <2>12, <2>13, <2>14, <2>15, <2>16, <2>17, <2>18, <2>19, <2>20, <2>21, <2>22, <2>23, <2>24, <2>25, <2>26, <2>27, <2>28, <2>29, <2>30, <2>31, <2>32, <2>33, <2>34, <2>35, <2>36 DEF Next, Worker, Child
<1>3. QED
  BY <1>1, <1>2, PTL DEF Spec
-------------------------------------------------------------------------------
(* The inductive invariant.  Quiet separates what can still be undone by a *)
(* gathered call from what cannot: once the gather has ended well, only a   *)
(* correlation hook changes the trace map, and it only collects.           *)

Quiet   == \A i \in Items : child[i] \notin Active \cup {"waiting"}
Before  == {"none", "scheduled", "load", "gather"}
Waiting == {"collecting", "shortcut", "poll", "expireRead", "expireWrite", "collect"}

\* The launcher runs before the worker.
LaunchInv ==
    /\ launch \in {"idle", "committed"} => pc = "none"
    /\ launch = "idle" => status = "none"

\* A cancellation is pending only in a live task, and stops its children.
CancelInv ==
    /\ cancelReq => pc \in Live
    /\ pc = "gather" /\ cancelReq => Quiet
    /\ CancelReachesWorker

\* Only a failed gather leaves calls behind.
CallsInv == pc \notin {"gather", "failWrite", "done", "lost"} => Quiet

\* What the status of the row says about the worker.
StatusInv ==
    /\ status \in {"evaluating", "completed", "cancelled"} =>
          Quiet /\ pc \notin Before \cup Waiting \cup {"evaluating"}
    /\ status \in Terminal => pc \in {"refresh", "done", "lost"} \cup Handlers
    /\ status \in {"failed", "cancelled"} => pc \in {"done", "lost"}

\* From the collected rows to the evaluated ones.
SubjectsInv ==
    /\ subjects # {} => Quiet /\ pc \notin Before \cup Waiting
    /\ EvaluatedStayCollected

\* From the pending rows to the settled ones.
SettledInv ==
    /\ pc = "expireWrite" => Unsettled \subseteq stale
    /\ pc \in {"collect", "evaluating"} => Unsettled = {}
    /\ SettledBeforeEvaluation

\* From the evaluation's row to the run's.
SummaryInv ==
    /\ pc \in {"finaliseEmpty", "execStart", "exec", "copy"} => status = "evaluating"
    /\ pc = "finaliseEmpty" => subjects = {}
    /\ pc \in {"execStart", "exec", "copy"} => subjects # {}
    /\ pc = "copy" => inner.status = "completed"
    /\ SummaryFromInner

IInv == LaunchInv /\ CancelInv /\ CallsInv /\ StatusInv /\ SubjectsInv /\ SettledInv /\ SummaryInv

\* IInv holds at the start and every step keeps it.
THEOREM Inductive == Spec => []IInv
<1>1. Init => IInv
  BY DEF Init, IInv, LaunchInv, CancelInv, CallsInv, StatusInv, SubjectsInv, SettledInv,
        SummaryInv, Quiet, Before, Waiting, CancelReachesWorker, EvaluatedStayCollected,
        SettledBeforeEvaluation, SummaryFromInner, Collected, Unsettled,
        Statuses, Terminal, InvokeStatuses, Pending, Live, Handlers, Active
<1>2. TypeOK /\ IInv /\ [Next]_vars => IInv'
  <2> SUFFICES ASSUME TypeOK, IInv, [Next]_vars PROVE IInv'
    OBVIOUS
  <2> USE DEF IInv, LaunchInv, CancelInv, CallsInv, StatusInv, SubjectsInv, SettledInv,
          SummaryInv, Quiet, Before, Waiting, CancelReachesWorker, EvaluatedStayCollected,
          SettledBeforeEvaluation, SummaryFromInner, Collected, Unsettled,
          Statuses, Terminal, InvokeStatuses, Pending, Live, Handlers, Active
  <2> USE DEF TypeOK, rows, task, locals, bounds
  <2>1. CASE StartCommit
    BY <2>1 DEF StartCommit
  <2>2. CASE StartSpawn
    BY <2>2 DEF StartSpawn
  <2>3. CASE WriteInvoking
    BY <2>3 DEF WriteInvoking, At
  <2>4. CASE LoadItems
    BY <2>4 DEF LoadItems, At
  <2>5. CASE GatherDone
    BY <2>5 DEF GatherDone, At
  <2>6. CASE WriteCollecting
    BY <2>6 DEF WriteCollecting, At
  <2>7. CASE Shortcut
    BY <2>7 DEF Shortcut, At
  <2>8. CASE Poll
    BY <2>8 DEF Poll, At
  <2>9. CASE ExpireRead
    BY <2>9 DEF ExpireRead, At
  <2>10. CASE ExpireWrite
    BY <2>10 DEF ExpireWrite, At
  <2>11. CASE Collect
    BY <2>11 DEF Collect, At
  <2>12. CASE WriteEvaluating
    BY <2>12 DEF WriteEvaluating, At
  <2>13. CASE FinaliseEmpty
    BY <2>13 DEF FinaliseEmpty, At
  <2>14. CASE ExecRefused
    BY <2>14 DEF ExecRefused, At
  <2>15. CASE ExecStart
    BY <2>15 DEF ExecStart, At
  <2>16. CASE ExecFinish
    BY <2>16 DEF ExecFinish, At
  <2>17. CASE CopySummary
    BY <2>17 DEF CopySummary, At
  <2>18. CASE Refresh
    BY <2>18 DEF Refresh, At
  <2>19. CASE WriteCancelled
    BY <2>19 DEF WriteCancelled, At
  <2>20. CASE WriteFailed
    BY <2>20 DEF WriteFailed, At
  <2>21. CASE RaiseCancelled
    BY <2>21 DEF RaiseCancelled
  <2>22. CASE DeadlinePasses
    BY <2>22 DEF DeadlinePasses
  <2>23. CASE WorkerFault
    BY <2>23 DEF WorkerFault
  <2>24. CASE Crash
    BY <2>24 DEF Crash
  <2>25. ASSUME NEW c \in Clients, CancelRead(c) PROVE IInv'
    BY <2>25 DEF CancelRead
  <2>26. ASSUME NEW c \in Clients, CancelAct(c) PROVE IInv'
    <3>1. \A i \in Items : child'[i] \in Active \cup {"waiting"} => child'[i] = child[i]
      BY <2>26 DEF CancelAct
    <3>2. Quiet => Quiet'
      BY <3>1
    <3>3. UNCHANGED <<rows, launch, pc, locals>> /\ (cancelReq' <=> (cancelReq \/ pc \in Live))
      BY <2>26 DEF CancelAct
    <3>4. pc = "gather" => Quiet'
      BY <2>26 DEF CancelAct
    <3>5. LaunchInv' /\ CallsInv' /\ StatusInv'
      BY <3>2, <3>3
    <3>6. CancelInv'
      BY <3>3, <3>4
    <3>7. SubjectsInv' /\ SettledInv' /\ SummaryInv'
      BY <3>2, <3>3
    <3> QED
      BY <3>5, <3>6, <3>7
  <2>27. ASSUME NEW i \in Items, ExecSubject(i) PROVE IInv'
    BY <2>27 DEF ExecSubject, At
  <2>28. ASSUME NEW i \in Items, SkipCancelled(i) PROVE IInv'
    BY <2>28 DEF SkipCancelled, ChildMoves
  <2>29. ASSUME NEW i \in Items, AcquireSlot(i) PROVE IInv'
    BY <2>29 DEF AcquireSlot, ChildMoves
  <2>30. ASSUME NEW i \in Items, MarkStarted(i) PROVE IInv'
    BY <2>30 DEF MarkStarted, ChildMoves
  <2>31. ASSUME NEW i \in Items, CallReturns(i) PROVE IInv'
    BY <2>31 DEF CallReturns, ChildMoves
  <2>32. ASSUME NEW i \in Items, RecordResult(i) PROVE IInv'
    BY <2>32 DEF RecordResult, ChildMoves
  <2>33. ASSUME NEW i \in Items, TraceSeen(i) PROVE IInv'
    BY <2>33 DEF TraceSeen
  <2>34. ASSUME NEW i \in Items, TraceRecorded(i) PROVE IInv'
    BY <2>34 DEF TraceRecorded
  <2>35. ASSUME NEW i \in Items, ChildFault(i) PROVE IInv'
    BY <2>35 DEF ChildFault
  <2>36. CASE UNCHANGED vars
    BY <2>36 DEF vars
  <2> QED
    BY <2>1, <2>2, <2>3, <2>4, <2>5, <2>6, <2>7, <2>8, <2>9, <2>10, <2>11, <2>12, <2>13, <2>14, <2>15, <2>16, <2>17, <2>18, <2>19, <2>20, <2>21, <2>22, <2>23, <2>24, <2>25, <2>26, <2>27, <2>28, <2>29, <2>30, <2>31, <2>32, <2>33, <2>34, <2>35, <2>36 DEF Next, Worker, Child
<1>3. QED
  BY <1>1, <1>2, TypeCorrect, PTL DEF Spec
-------------------------------------------------------------------------------
\* Evaluation starts and completes only with every item settled.
THEOREM EvaluationWaits == Spec => []SettledBeforeEvaluation
<1>1. IInv => SettledBeforeEvaluation
  BY DEF IInv, SettledInv
<1>2. QED
  BY <1>1, Inductive, PTL

\* What is evaluated stays collected in the trace map.
THEOREM EvaluatedKept == Spec => []EvaluatedStayCollected
<1>1. IInv => EvaluatedStayCollected
  BY DEF IInv, SubjectsInv
<1>2. QED
  BY <1>1, Inductive, PTL

\* A completed run shows a finished evaluation's counts.
THEOREM SummaryFaithful == Spec => []SummaryFromInner
<1>1. IInv => SummaryFromInner
  BY DEF IInv, SummaryInv
<1>2. QED
  BY <1>1, Inductive, PTL

\* No agent call outlives a run that is shown completed or cancelled.
THEOREM CallsEnd == Spec => []NoCallAfterEnd
<1>1. IInv => NoCallAfterEnd
  BY DEF IInv, StatusInv, Quiet, NoCallAfterEnd
<1>2. QED
  BY <1>1, Inductive, PTL

\* The worker's own flag checks are never what stops it.
THEOREM CancelDelivered == Spec => []CancelReachesWorker
<1>1. IInv => CancelReachesWorker
  BY DEF IInv, CancelInv
<1>2. QED
  BY <1>1, Inductive, PTL

\* The agent is never asked for more concurrent calls than configured.
THEOREM Semaphore == Spec => []SemaphoreBound
<1>1. Init => SemaphoreBound
  <2> SUFFICES ASSUME Init PROVE Holding = {}
    BY FS_EmptySet, BoundsAssumption DEF SemaphoreBound
  <2> QED
    BY DEF Init, Holding, Active
<1>2. TypeOK /\ SemaphoreBound /\ [Next]_vars => SemaphoreBound'
  <2> SUFFICES ASSUME TypeOK, SemaphoreBound, [Next]_vars PROVE SemaphoreBound'
    OBVIOUS
  <2>1. IsFiniteSet(Holding) /\ Cardinality(Holding) \in Nat
    <3>1. Holding \subseteq Items
      BY DEF Holding
    <3> QED
      BY <3>1, ItemsAssumption, FS_Subset, FS_CardinalityType
  <2>2. Holding' \subseteq Holding => SemaphoreBound'
    <3> SUFFICES ASSUME Holding' \subseteq Holding PROVE SemaphoreBound'
      OBVIOUS
    <3>1. Cardinality(Holding') <= Cardinality(Holding) /\ Cardinality(Holding') \in Nat
      BY <2>1, FS_Subset, FS_CardinalityType
    <3> QED
      BY <2>1, <3>1, BoundsAssumption DEF SemaphoreBound
  <2>3. ASSUME NEW i \in Items, AcquireSlot(i) PROVE SemaphoreBound'
    <3>1. Holding' \subseteq Holding \cup {i}
      BY <2>3 DEF AcquireSlot, ChildMoves, Holding, TypeOK
    <3>2. /\ IsFiniteSet(Holding \cup {i})
          /\ Cardinality(Holding \cup {i}) =
                IF i \in Holding THEN Cardinality(Holding) ELSE Cardinality(Holding) + 1
      BY <2>1, FS_AddElement, Zenon
    <3>3. Cardinality(Holding \cup {i}) \in Nat
      BY <3>2, FS_CardinalityType
    <3>4. Cardinality(Holding') <= Cardinality(Holding \cup {i}) /\ Cardinality(Holding') \in Nat
      BY <3>1, <3>2, FS_Subset, FS_CardinalityType
    <3> QED
      BY <2>1, <2>3, <3>2, <3>3, <3>4, BoundsAssumption DEF AcquireSlot, SemaphoreBound
  <2>4. ASSUME NEW i \in Items, Child(i) \/ TraceSeen(i) \/ TraceRecorded(i) \/ ChildFault(i),
               ~AcquireSlot(i)
        PROVE  Holding' \subseteq Holding
    BY <2>4 DEF Child, SkipCancelled, MarkStarted, CallReturns, RecordResult, ChildMoves,
       TraceSeen, TraceRecorded, ChildFault, Holding, Active, TypeOK
  <2>5. ASSUME NEW c \in Clients, CancelRead(c) \/ CancelAct(c) PROVE Holding' \subseteq Holding
    BY <2>5 DEF CancelRead, CancelAct, Holding, Active
  <2>6. ASSUME Worker PROVE Holding' \subseteq Holding
    <3>1. CASE LoadItems
      BY <3>1 DEF LoadItems, Holding, Active
    <3>2. CASE UNCHANGED child
      BY <3>2 DEF Holding
    <3> QED
      BY <2>6, <3>1, <3>2 DEF Worker, WriteInvoking, GatherDone, WriteCollecting, Shortcut, Poll,
         ExpireRead, ExpireWrite, Collect, WriteEvaluating, FinaliseEmpty, ExecRefused,
         ExecStart, ExecSubject, ExecFinish, CopySummary, Refresh, WriteCancelled,
         WriteFailed, RaiseCancelled
  <2>7. ASSUME StartCommit \/ StartSpawn \/ DeadlinePasses \/ WorkerFault
        PROVE  Holding' \subseteq Holding
    BY <2>7 DEF StartCommit, StartSpawn, DeadlinePasses, WorkerFault, Holding
  <2>8. ASSUME Crash PROVE Holding' \subseteq Holding
    BY <2>8 DEF Crash, Holding, Active
  <2>9. ASSUME UNCHANGED vars PROVE Holding' \subseteq Holding
    BY <2>9 DEF vars, Holding
  <2> QED
    BY <2>2, <2>3, <2>4, <2>5, <2>6, <2>7, <2>8, <2>9 DEF Next
<1>3. QED
  BY <1>1, <1>2, TypeCorrect, PTL DEF Spec
-------------------------------------------------------------------------------
(* The row of the run keeps the abstract lifecycle.                        *)

\* Launcher or worker still has the run's row to write.
Owned == launch = "committed" \/ pc \in Live

\* Where the worker awaits says which phase the row shows.
PhaseInv ==
    /\ launch = "committed" \/ pc = "scheduled" => status = "queued"
    /\ pc \in {"load", "gather", "collecting"} => status = "invoking"
    /\ pc \in (Waiting \ {"collecting"}) \cup {"evaluating"} => status = "collecting"
    /\ pc = "markCancelled" => status \in {"invoking", "collecting"}
    /\ launch # "idle" => status # "none"

\* The evaluation counts no subject twice as completed.
CountInv ==
    /\ pc = "exec" => tally.completed + Cardinality(left) <= Cardinality(Items)
    /\ pc = "copy" => inner.counts.completed <= Cardinality(Items)

\* The items can be counted.
LEMMA ItemCount == Cardinality(Items) \in Nat
BY ItemsAssumption, FS_CardinalityType

\* So can a part of them, and taking one out of it counts one less.
LEMMA PartCount ==
    ASSUME NEW S \in SUBSET Items
    PROVE  /\ IsFiniteSet(S) /\ Cardinality(S) \in Nat
           /\ Cardinality(S) <= Cardinality(Items)
           /\ \A i \in S : Cardinality(S \ {i}) = Cardinality(S) - 1
<1>1. IsFiniteSet(S) /\ Cardinality(S) <= Cardinality(Items)
  BY ItemsAssumption, FS_Subset
<1>2. Cardinality(S) \in Nat
  BY <1>1, FS_CardinalityType
<1>3. \A i \in S : Cardinality(S \ {i}) = Cardinality(S) - 1
  BY <1>1, FS_RemoveElement
<1> QED
  BY <1>1, <1>2, <1>3

\* The status of the row follows the worker's progress.
THEOREM PhasesFollow == Spec => []PhaseInv
<1>1. Init => PhaseInv
  BY DEF Init, PhaseInv, Waiting
<1>2. TypeOK /\ IInv /\ PhaseInv /\ [Next]_vars => PhaseInv'
  <2> SUFFICES ASSUME TypeOK, IInv, PhaseInv, [Next]_vars PROVE PhaseInv'
    OBVIOUS
  <2> USE DEF PhaseInv, IInv, LaunchInv, Waiting, Live, Handlers, At, rows, task, locals, bounds
  <2>1. CASE StartCommit \/ StartSpawn
    BY <2>1 DEF StartCommit, StartSpawn
  <2>2. CASE WriteInvoking \/ LoadItems \/ GatherDone \/ WriteCollecting \/ Shortcut
    BY <2>2 DEF WriteInvoking, LoadItems, GatherDone, WriteCollecting, Shortcut
  <2>3. CASE Poll \/ ExpireRead \/ ExpireWrite \/ Collect \/ WriteEvaluating
    BY <2>3 DEF Poll, ExpireRead, ExpireWrite, Collect, WriteEvaluating
  <2>4. CASE FinaliseEmpty \/ ExecRefused \/ ExecStart \/ ExecFinish \/ CopySummary \/ Refresh
    BY <2>4 DEF FinaliseEmpty, ExecRefused, ExecStart, ExecFinish, CopySummary, Refresh
  <2>5. CASE WriteCancelled \/ WriteFailed \/ RaiseCancelled
    BY <2>5 DEF WriteCancelled, WriteFailed, RaiseCancelled
  <2>6. CASE DeadlinePasses \/ WorkerFault \/ Crash
    BY <2>6 DEF DeadlinePasses, WorkerFault, Crash
  <2>7. ASSUME NEW c \in Clients, CancelRead(c) \/ CancelAct(c) PROVE PhaseInv'
    BY <2>7 DEF CancelRead, CancelAct
  <2>8. ASSUME NEW i \in Items, ExecSubject(i) \/ Child(i) PROVE PhaseInv'
    BY <2>8 DEF ExecSubject, Child, SkipCancelled, AcquireSlot, MarkStarted, CallReturns,
                RecordResult, ChildMoves
  <2>9. ASSUME NEW i \in Items, TraceSeen(i) \/ TraceRecorded(i) \/ ChildFault(i) PROVE PhaseInv'
    BY <2>9 DEF TraceSeen, TraceRecorded, ChildFault
  <2>10. CASE UNCHANGED vars
    BY <2>10 DEF vars
  <2> QED
    BY <2>1, <2>2, <2>3, <2>4, <2>5, <2>6, <2>7, <2>8, <2>9, <2>10 DEF Next, Worker
<1>3. QED
  BY <1>1, <1>2, TypeCorrect, Inductive, PTL DEF Spec

\* No more completed verdicts than items.
THEOREM CountsFit == Spec => []CountInv
<1>1. Init => CountInv
  BY DEF Init, CountInv
<1>2. TypeOK /\ CountInv /\ [Next]_vars => CountInv'
  <2> SUFFICES ASSUME TypeOK, CountInv, [Next]_vars PROVE CountInv'
    OBVIOUS
  <2> USE ItemCount DEF CountInv, At, rows, task, locals, bounds
  <2>1. CASE ExecStart
    <3>1. Cardinality(subjects) <= Cardinality(Items) /\ Cardinality(subjects) \in Nat
      BY PartCount DEF TypeOK
    <3> QED
      BY <2>1, <3>1 DEF ExecStart, Zero
  <2>2. ASSUME NEW i \in Items, ExecSubject(i) PROVE CountInv'
    <3>1. Cardinality(left \ {i}) = Cardinality(left) - 1 /\ Cardinality(left) \in Nat
      BY <2>2, PartCount DEF TypeOK, ExecSubject
    <3>2. tally'.completed <= tally.completed + 1 /\ tally.completed \in Nat
          /\ tally'.completed \in Nat
      BY <2>2 DEF ExecSubject, Outcomes, TypeOK, Counts
    <3> QED
      BY <2>2, <3>1, <3>2 DEF ExecSubject
  <2>3. CASE ExecFinish
    <3>1. Cardinality(left) = 0
      BY <2>3, FS_EmptySet DEF ExecFinish
    <3> QED
      BY <2>3, <3>1 DEF ExecFinish, TypeOK, Counts
  <2>4. CASE UNCHANGED <<inner, left, tally>> /\ (pc' # pc => pc' \notin {"exec", "copy"})
    BY <2>4
  <2>5. CASE StartCommit \/ StartSpawn \/ DeadlinePasses \/ WorkerFault \/ Crash \/ UNCHANGED vars
    BY <2>4, <2>5 DEF StartCommit, StartSpawn, DeadlinePasses, WorkerFault, Crash, vars
  <2>6. ASSUME Worker, ~ExecStart, ~ExecFinish, ~ \E i \in Items : ExecSubject(i) PROVE CountInv'
    BY <2>4, <2>6 DEF Worker, WriteInvoking, LoadItems, GatherDone, WriteCollecting, Shortcut, Poll,
         ExpireRead, ExpireWrite, Collect, WriteEvaluating, FinaliseEmpty, ExecRefused,
         CopySummary, Refresh, WriteCancelled, WriteFailed, RaiseCancelled
  <2>7. ASSUME NEW c \in Clients, CancelRead(c) \/ CancelAct(c) PROVE CountInv'
    BY <2>4, <2>7 DEF CancelRead, CancelAct
  <2>8. ASSUME NEW i \in Items, Child(i) \/ TraceSeen(i) \/ TraceRecorded(i) \/ ChildFault(i)
        PROVE  CountInv'
    BY <2>4, <2>8 DEF Child, SkipCancelled, AcquireSlot, MarkStarted, CallReturns,
                RecordResult, ChildMoves, TraceSeen, TraceRecorded, ChildFault
  <2> QED
    BY <2>1, <2>2, <2>3, <2>5, <2>6, <2>7, <2>8 DEF Next
<1>3. QED
  BY <1>1, <1>2, TypeCorrect, PTL DEF Spec
-------------------------------------------------------------------------------
(* Steps of the abstract specification, said of the detailed state.        *)

\* A step that shows and owns the same is none of the abstract run.
LEMMA Stutters ==
    ASSUME UNCHANGED <<status, summary>>, Owned' <=> Owned
    PROVE  UNCHANGED Lifecycle!vars
BY DEF Lifecycle!vars, Owned

\* The row is given up as it is: an abstract Release.
LEMMA Releases ==
    ASSUME UNCHANGED <<status, summary>>, Owned' => Owned
    PROVE  Lifecycle!Release
BY DEF Lifecycle!Release, Owned

\* The insert of the row is an abstract Submit.
LEMMA Submits ==
    ASSUME status = "none", status' = "queued", UNCHANGED summary, Owned'
    PROVE  Lifecycle!Submit("run")
BY DEF Lifecycle!Submit, Owned

\* A change of phase is an abstract Advance.
LEMMA Advances ==
    ASSUME Owned, Owned', UNCHANGED summary,
           \/ status = "queued" /\ status' = "invoking"
           \/ status = "invoking" /\ status' = "collecting"
           \/ status = "collecting" /\ status' = "evaluating"
    PROVE  Lifecycle!Advance("run")
BY DEF Lifecycle!Advance, Owned

\* The copied summary is an abstract Complete.
LEMMA Completes ==
    ASSUME Owned, Owned', status = "evaluating", status' = "completed",
           summary' \in Counts, summary'.completed <= Cardinality(Items)
    PROVE  Lifecycle!Complete("run")
<1>1. Len(<<"queued", "invoking", "collecting", "evaluating">>) = 4
  OBVIOUS
<1>2. <<"queued", "invoking", "collecting", "evaluating">>[4] = "evaluating"
  OBVIOUS
<1>3. summary'.completed \in 0..Cardinality(Items) /\ summary'.failed \in Nat
  BY ItemCount DEF Counts
<1>4. [r \in {"run"} |-> status'] = [[r \in {"run"} |-> status] EXCEPT !["run"] = "completed"]
  OBVIOUS
<1>5. [r \in {"run"} |-> summary'] = [[r \in {"run"} |-> summary] EXCEPT !["run"] = summary']
  OBVIOUS
<1>6. {r \in {"run"} : Owned'} = {r \in {"run"} : Owned}
  OBVIOUS
<1> QED
  BY <1>1, <1>2, <1>3, <1>4, <1>5, <1>6 DEF Lifecycle!Complete, Owned

\* A failure or cancellation that is recorded is an abstract Abort.
LEMMA Aborts ==
    ASSUME Owned, ~Owned', UNCHANGED summary, status' \in {"failed", "cancelled"},
           status \in {"queued", "invoking", "collecting", "evaluating", "completed"}
    PROVE  Lifecycle!Abort("run")
<1>1. status \in Lifecycle!InPhases \cup {"completed"}
  <2>1. DOMAIN <<"queued", "invoking", "collecting", "evaluating">> = 1..4
    OBVIOUS
  <2> QED
    BY <2>1 DEF Lifecycle!InPhases
<1>2. \E s \in Lifecycle!Aborted :
         [r \in {"run"} |-> status'] = [[r \in {"run"} |-> status] EXCEPT !["run"] = s]
  BY DEF Lifecycle!Aborted
<1>3. {r \in {"run"} : Owned'} = {r \in {"run"} : Owned} \ {"run"}
  OBVIOUS
<1> QED
  BY <1>1, <1>2, <1>3 DEF Lifecycle!Abort, Owned
-------------------------------------------------------------------------------
\* The run's row keeps the promise of RunLifecycle.
THEOREM ImplementsLifecycle == Spec => KeepsLifecycle
<1>1. Init => Lifecycle!Init
  BY DEF Init, Zero, Live, Handlers, Lifecycle!Init, Lifecycle!Zero
<1>2. TypeOK /\ IInv /\ PhaseInv /\ CountInv /\ [Next]_vars => [Lifecycle!Next]_(Lifecycle!vars)
  <2> SUFFICES ASSUME TypeOK, IInv, PhaseInv, CountInv, [Next]_vars
               PROVE  Lifecycle!Next \/ UNCHANGED Lifecycle!vars
    OBVIOUS
  <2> USE DEF At, rows, task
  <2> DEFINE Goal == Lifecycle!Next \/ UNCHANGED Lifecycle!vars
  <2>1. ASSUME UNCHANGED <<status, summary>>, Owned' => Owned PROVE Goal
    BY <2>1, Releases DEF Lifecycle!Next
  <2>2. CASE StartCommit
    BY <2>2, Submits DEF StartCommit, IInv, LaunchInv, Owned, Lifecycle!Next
  <2>3. CASE StartSpawn
    BY <2>1, <2>3 DEF StartSpawn, Owned
  <2>4. CASE WriteInvoking \/ WriteCollecting \/ WriteEvaluating
    BY <2>4, Advances DEF WriteInvoking, WriteCollecting, WriteEvaluating, PhaseInv, Waiting, Owned,
                          Live, Lifecycle!Next
  <2>5. CASE FinaliseEmpty \/ CopySummary
    <3>1. summary' \in Counts /\ summary'.completed <= Cardinality(Items)
      BY <2>5, ItemCount DEF FinaliseEmpty, CopySummary, TypeOK, Counts, CountInv
    <3> QED
      BY <2>5, <3>1, Completes DEF FinaliseEmpty, CopySummary, IInv, SummaryInv, Owned, Live,
                          Lifecycle!Next
  <2>6. CASE WriteCancelled \/ WriteFailed
    <3>1. pc \in Live /\ pc' = "done" /\ launch' = launch /\ launch # "committed"
      BY <2>6 DEF WriteCancelled, WriteFailed, Live, Handlers, IInv, LaunchInv
    <3>2. status \in {"queued", "invoking", "collecting", "evaluating", "completed"}
      BY <2>6, <3>1 DEF TypeOK, Statuses, Terminal, IInv, StatusInv, LaunchInv, PhaseInv, Live, Handlers
    <3> QED
      BY <2>6, <3>1, <3>2, Aborts DEF WriteCancelled, WriteFailed, Owned, Live, Handlers, Lifecycle!Next
  <2>7. CASE LoadItems \/ GatherDone \/ Shortcut \/ Poll \/ ExpireRead \/ ExpireWrite \/ Collect
    BY <2>1, <2>7 DEF LoadItems, GatherDone, Shortcut, Poll, ExpireRead, ExpireWrite, Collect, Owned, Live
  <2>8. CASE ExecRefused \/ ExecStart \/ ExecFinish \/ Refresh \/ RaiseCancelled
    BY <2>1, <2>8 DEF ExecRefused, ExecStart, ExecFinish, Refresh, RaiseCancelled, Owned, Live,
                      IInv, CancelInv
  <2>9. CASE DeadlinePasses \/ WorkerFault \/ Crash \/ UNCHANGED vars
    BY <2>1, <2>9 DEF DeadlinePasses, WorkerFault, Crash, vars, Owned, Live
  <2>10. ASSUME NEW c \in Clients, CancelRead(c) \/ CancelAct(c) PROVE Goal
    BY <2>1, <2>10 DEF CancelRead, CancelAct, Owned
  <2>11. ASSUME NEW i \in Items, ExecSubject(i) \/ Child(i) \/ TraceSeen(i) \/ TraceRecorded(i)
         PROVE  Goal
    BY <2>1, <2>11 DEF ExecSubject, Child, SkipCancelled, AcquireSlot, MarkStarted, CallReturns,
                RecordResult, ChildMoves, TraceSeen, TraceRecorded, Owned
  <2>12. ASSUME NEW i \in Items, ChildFault(i) PROVE Goal
    BY <2>1, <2>12 DEF ChildFault, Owned, Live
  <2> QED
    BY <2>2, <2>3, <2>4, <2>5, <2>6, <2>7, <2>8, <2>9, <2>10, <2>11, <2>12 DEF Next, Worker
<1>3. QED
  BY <1>1, <1>2, TypeCorrect, Inductive, PhasesFollow, CountsFit, PTL
     DEF Spec, KeepsLifecycle, Lifecycle!Spec
===============================================================================
