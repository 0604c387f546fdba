---------------------------- MODULE EvalRunProofs ----------------------------
(***************************************************************************)
(* EvalRun: its safety invariants hold for every number of runs, subjects  *)
(* and models and whatever the limits of the guard are, and it implements  *)
(* RunLifecycle.                                                           *)
(***************************************************************************)
EXTENDS EvalRun, Sequences, FiniteSetTheorems, WellFoundedInduction, TLAPS

Setup == {"idle", "estimate", "guard", "insert", "prepare"}
Ended == {"record", "finalise", "done"}

\* Where the loop stands: the subjects before at[r] have been gone through.
PositionInv(r) ==
    /\ at[r] <= Size[r] + 1
    /\ pc[r] \in Setup => at[r] = 1 /\ completed[r] + errors[r] = 0
    /\ pc[r] \in Loop => at[r] <= Size[r]
    /\ pc[r] \in Ended => at[r] = Size[r] + 1
    /\ results[r] \subseteq 1..at[r]
    /\ at[r] \in results[r] => pc[r] \notin {"prepare", "fetch", "judge", "persist"} \cup Setup

\* A subject gone through has a result or was counted as failed.
AccountInv(r) ==
    /\ pc[r] \in {"prepare", "fetch", "judge", "persist"} =>
           at[r] <= Cardinality(results[r]) + failed[r] + 1
    /\ pc[r] \in {"improve"} \cup Ended =>
           at[r] <= Cardinality(results[r]) + failed[r]
              + (IF pc[r] = "improve" THEN 0 ELSE 1)

\* Each subject is counted at most once among evaluated and judge errors.
CountInv(r) ==
    /\ passed[r] <= completed[r]
    /\ completed[r] + errors[r] <= at[r]
    /\ pc[r] \in {"fetch", "judge"} \cup Ended => completed[r] + errors[r] < at[r]

\* The completed row holds the counters of a run that went through the loop.
RowInv(r) ==
    row[r].status = "completed" =>
        /\ pc[r] = "done"
        /\ row[r].completed = completed[r]
        /\ row[r].failed = failed[r] + errors[r]

\* Judges are resolved only for a run that still wants them.
PayInv(r) ==
    /\ pc[r] \in {"idle", "estimate", "guard"} => note[r] = "none"
    /\ wants[r] => r \in JudgedRuns /\ note[r] # "downgraded"
    /\ specs[r] # {} => wants[r] /\ pc[r] \notin Setup
    /\ pc[r] = "judge" \/ cost[r] > 0 => specs[r] # {}

RunInv(r) == PositionInv(r) /\ AccountInv(r) /\ CountInv(r) /\ RowInv(r) /\ PayInv(r)

IInv == TypeOK /\ \A r \in Runs : RunInv(r)
-------------------------------------------------------------------------------
(* Types.                                                                  *)

\* Any set of judge models can be counted.
LEMMA Counts == \A S \in SUBSET Models : Cardinality(S) \in Nat
BY FS_Subset, FS_CardinalityType, SetsAssumption

\* The types hold at first.
LEMMA TypeInit == Init => TypeOK
BY SetsAssumption, BoundsAssumption, SMT
   DEF Init, TypeOK, Rows, NoRow, Live, Opened, Loop, Over, Verdicts

\* Every step keeps them.
LEMMA TypeStep == TypeOK /\ [Next]_vars => TypeOK'
<1> SUFFICES ASSUME TypeOK, [Next]_vars PROVE TypeOK'
    OBVIOUS
<1> USE SetsAssumption, MoneyAssumption, BoundsAssumption
<1> USE DEF TypeOK, Goto, Fault, NextSubject, guards, counters, bounds,
            Live, Opened, Loop, Over, Verdicts
<1>1. ASSUME NEW r \in Runs, RunStep(r) PROVE TypeOK'
  <2>1. CASE Begin(r)
      BY <2>1, SMT DEF Begin
  <2>2. CASE Estimate(r)
      BY <2>2, Counts, SMT DEF Estimate
  <2>3. CASE Guard(r)
      BY <2>3, SMT DEF Guard, GuardNote
  <2>4. CASE Insert(r)
      BY <2>4, SMT DEF Insert, Rows
  <2>5. CASE SetupRaises(r)
      BY <2>5, SMT DEF SetupRaises
  <2>6. CASE Prepare(r)
      BY <2>6, SMT DEF Prepare
  <2>7. CASE Missing(r)
      BY <2>7, SMT DEF Missing
  <2>8. CASE FetchRules(r)
      BY <2>8, SMT DEF FetchRules, Count
  <2>9. CASE FetchJudged(r)
      BY <2>9, SMT DEF FetchJudged
  <2>10. CASE Judge(r)
      BY <2>10, Counts, SMT DEF Judge, Count
  <2>11. CASE Persist(r)
      BY <2>11, SMT DEF Persist
  <2>12. CASE Improve(r)
      BY <2>12, SMT DEF Improve
  <2>13. CASE SubjectRaises(r)
      BY <2>13, SMT DEF SubjectRaises
  <2>14. CASE Record(r)
      BY <2>14, SMT DEF Record
  <2>15. CASE RecordLocked(r)
      BY <2>15, SMT DEF RecordLocked
  <2>16. CASE Finalise(r)
      BY <2>16, SMT DEF Finalise, Summary, Rows
  <2>17. CASE EndRaises(r)
      BY <2>17, SMT DEF EndRaises
  <2>q. QED
      BY <1>1, <2>1, <2>2, <2>3, <2>4, <2>5, <2>6, <2>7, <2>8, <2>9, <2>10, <2>11, <2>12, <2>13, <2>14, <2>15, <2>16, <2>17 DEF RunStep
<1>2. CASE Crash
    BY <1>2, SMT DEF Crash
<1>3. CASE Toggle
    BY <1>3, SMT DEF Toggle
<1>4. CASE UNCHANGED vars
    BY <1>4, SMT DEF vars
<1>q. QED
    BY <1>1, <1>2, <1>3, <1>4 DEF Next
-------------------------------------------------------------------------------
(* The invariant of each run.                                              *)

\* What the invariant of a run reads.
Same(r) ==
    /\ pc'[r] = pc[r] /\ row'[r] = row[r] /\ results'[r] = results[r]
    /\ wants'[r] = wants[r] /\ note'[r] = note[r] /\ specs'[r] = specs[r]
    /\ at'[r] = at[r] /\ completed'[r] = completed[r] /\ failed'[r] = failed[r]
    /\ errors'[r] = errors[r] /\ passed'[r] = passed[r] /\ cost'[r] = cost[r]

\* What is known of a run lasts while nothing of it changes.
LEMMA SameKeeps == ASSUME NEW r \in Runs, RunInv(r), Same(r) PROVE RunInv(r)'
BY DEF RunInv, PositionInv, AccountInv, CountInv, RowInv, PayInv, Same

\* A run does not touch another run.
LEMMA OtherRun ==
    ASSUME TypeOK, NEW q \in Runs, NEW r \in Runs, q # r, RunStep(q) PROVE Same(r)
<1> USE DEF TypeOK, Same, Goto, NextSubject, guards, counters
<1>1. CASE Begin(q)
    BY <1>1, SMT DEF Begin
<1>2. CASE Estimate(q)
    BY <1>2, SMT DEF Estimate
<1>3. CASE Guard(q)
    BY <1>3, SMT DEF Guard
<1>4. CASE Insert(q)
    BY <1>4, SMT DEF Insert
<1>5. CASE SetupRaises(q)
    BY <1>5, SMT DEF SetupRaises
<1>6. CASE Prepare(q)
    BY <1>6, SMT DEF Prepare
<1>7. CASE Missing(q)
    BY <1>7, SMT DEF Missing
<1>8. CASE FetchRules(q)
    BY <1>8, SMT DEF FetchRules, Count
<1>9. CASE FetchJudged(q)
    BY <1>9, SMT DEF FetchJudged
<1>10. CASE Judge(q)
    BY <1>10, SMT DEF Judge, Count
<1>11. CASE Persist(q)
    BY <1>11, SMT DEF Persist
<1>12. CASE Improve(q)
    BY <1>12, SMT DEF Improve
<1>13. CASE SubjectRaises(q)
    BY <1>13, SMT DEF SubjectRaises
<1>14. CASE Record(q)
    BY <1>14, SMT DEF Record
<1>15. CASE RecordLocked(q)
    BY <1>15, SMT DEF RecordLocked
<1>16. CASE Finalise(q)
    BY <1>16, SMT DEF Finalise
<1>17. CASE EndRaises(q)
    BY <1>17, SMT DEF EndRaises
<1>q. QED
    BY <1>1, <1>2, <1>3, <1>4, <1>5, <1>6, <1>7, <1>8, <1>9, <1>10, <1>11, <1>12, <1>13, <1>14, <1>15, <1>16, <1>17 DEF RunStep

\* A result for the subject in hand adds one to the results.
LEMMA OneMore ==
    ASSUME NEW n \in Nat \ {0}, NEW S \in SUBSET (1..n), n \notin S
    PROVE  Cardinality(S \cup {n}) = Cardinality(S) + 1
<1>1. IsFiniteSet(1..n)
    BY FS_Interval
<1>2. IsFiniteSet(S)
    BY <1>1, FS_Subset
<1>q. QED
    BY <1>2, FS_AddElement

\* A run has finitely many results.
LEMMA ResultCount ==
    ASSUME TypeOK, NEW r \in Runs, PositionInv(r) PROVE Cardinality(results[r]) \in Nat
<1>1. results[r] \subseteq 1..at[r] /\ at[r] \in Nat
    BY DEF PositionInv, TypeOK
<1>2. IsFiniteSet(1..at[r])
    BY <1>1, FS_Interval
<1>q. QED
    BY <1>1, <1>2, FS_Subset, FS_CardinalityType

\* A step of a run keeps what is known of it.
LEMMA OwnStep ==
    ASSUME TypeOK, TypeOK', NEW r \in Runs, RunInv(r), RunStep(r) PROVE RunInv(r)'
<1> USE SetsAssumption
<1>a. Cardinality(results[r]) \in Nat
    BY ResultCount DEF RunInv
<1> USE DEF TypeOK, RunInv, PositionInv, AccountInv, CountInv, RowInv, PayInv, Setup, Ended,
            Live, Opened, Loop, Over, Goto, NextSubject, guards, counters
<1>1. CASE Begin(r)
  <2>1. wants' = [wants EXCEPT ![r] = r \in JudgedRuns /\ Models # {}]
      BY <1>1 DEF Begin
  <2>2. wants'[r] = (r \in JudgedRuns /\ Models # {})
      BY <2>1, Zenon
  <2>3. note'[r] = "none"
      BY <1>1, SMT DEF Begin
  <2>4. /\ wants'[r] => r \in JudgedRuns /\ note'[r] # "downgraded"
        /\ note'[r] = "none"
      BY <2>2, <2>3, Zenon
  <2>5. PositionInv(r)' /\ AccountInv(r)' /\ CountInv(r)' /\ RowInv(r)'
      BY <1>a, <1>1, SMT DEF Begin
  <2>6. specs'[r] = {} /\ cost'[r] = 0 /\ pc'[r] # "judge"
      BY <1>1, SMT DEF Begin
  <2>q. QED
      BY <2>4, <2>5, <2>6
<1>2. CASE Estimate(r)
    BY <1>a, <1>2, SMT DEF Estimate
<1>3. CASE Guard(r)
  <2>1. wants' = [wants EXCEPT ![r] = @ /\ ~(Exceeds(r) /\ OnExceed = "downgrade")]
      BY <1>3 DEF Guard
  <2>2. wants'[r] = (wants[r] /\ ~(Exceeds(r) /\ OnExceed = "downgrade"))
      BY <2>1, Zenon
  <2>3. note'[r] = "downgraded" => Exceeds(r) /\ OnExceed = "downgrade"
      BY <1>3, SMT DEF Guard, GuardNote
  <2>4. pc'[r] \notin {"idle", "estimate", "guard"}
      BY <1>3, SMT DEF Guard
  <2>5. /\ wants'[r] => r \in JudgedRuns /\ note'[r] # "downgraded"
        /\ pc'[r] \notin {"idle", "estimate", "guard"}
      BY <2>2, <2>3, <2>4, Zenon
  <2>6. PositionInv(r)' /\ AccountInv(r)' /\ CountInv(r)' /\ RowInv(r)'
      BY <1>a, <1>3, SMT DEF Guard
  <2>7. specs'[r] = {} /\ cost'[r] = 0 /\ pc'[r] # "judge"
      BY <1>3, SMT DEF Guard
  <2>q. QED
      BY <2>5, <2>6, <2>7
<1>4. CASE Insert(r)
    BY <1>a, <1>4, SMT DEF Insert, Rows
<1>5. CASE SetupRaises(r)
    BY <1>a, <1>5, SMT DEF SetupRaises
<1>6. CASE Prepare(r)
    BY <1>a, <1>6, SMT DEF Prepare
<1>7. CASE Missing(r)
  <2>1. at'[r] = at[r] + 1 /\ results'[r] = results[r]
      BY <1>7, SMT DEF Missing
  <2>2. results'[r] \subseteq 1..at'[r] /\ at'[r] \notin results'[r]
      BY <2>1, SMT
  <2>3. pc'[r] = IF at[r] < Size[r] THEN "fetch" ELSE "record"
      BY <1>7, SMT DEF Missing
  <2>4. at[r] <= Size[r]
      BY <1>7, SMT DEF Missing
  <2>5. PositionInv(r)'
      BY <2>1, <2>2, <2>3, <2>4, SMT
  <2>6. AccountInv(r)'
      BY <1>a, <1>7, SMT DEF Missing
  <2>7. CountInv(r)'
      BY <1>a, <1>7, SMT DEF Missing
  <2>8. RowInv(r)'
      BY <1>a, <1>7, SMT DEF Missing
  <2>9. PayInv(r)'
      BY <1>a, <1>7, SMT DEF Missing
  <2>q. QED
      BY <2>5, <2>6, <2>7, <2>8, <2>9
<1>8. CASE FetchRules(r)
    BY <1>a, <1>8, SMT DEF FetchRules, Count
<1>9. CASE FetchJudged(r)
    BY <1>a, <1>9, SMT DEF FetchJudged
<1>10. CASE Judge(r)
    BY <1>a, <1>10, SMT DEF Judge, Count
<1>11. CASE Persist(r)
  <2>1. Cardinality(results'[r]) = Cardinality(results[r]) + 1
    <3>1. results'[r] = results[r] \cup {at[r]} /\ at[r] \notin results[r]
        BY <1>11, SMT DEF Persist
    <3>2. results[r] \in SUBSET (1..at[r]) /\ at[r] \in Nat \ {0}
        BY Zenon
    <3>3. Cardinality(results[r] \cup {at[r]}) = Cardinality(results[r]) + 1
        BY <3>1, <3>2, OneMore, Zenon
    <3>q. QED
        BY <3>1, <3>3, Zenon
  <2>2. PositionInv(r)'
      BY <1>a, <1>11, <2>1, SMT DEF Persist
  <2>3. AccountInv(r)'
      BY <1>a, <1>11, <2>1, SMT DEF Persist
  <2>4. CountInv(r)'
      BY <1>a, <1>11, <2>1, SMT DEF Persist
  <2>5. RowInv(r)'
      BY <1>a, <1>11, <2>1, SMT DEF Persist
  <2>6. PayInv(r)'
      BY <1>a, <1>11, <2>1, SMT DEF Persist
  <2>q. QED
      BY <2>2, <2>3, <2>4, <2>5, <2>6
<1>12. CASE Improve(r)
    BY <1>a, <1>12, SMT DEF Improve
<1>13. CASE SubjectRaises(r)
  <2>1. at'[r] = at[r] + 1 /\ results'[r] = results[r] /\ failed'[r] = failed[r] + 1
      BY <1>13, SMT DEF SubjectRaises
  <2>2. results'[r] \subseteq 1..at'[r] /\ at'[r] \notin results'[r]
      BY <2>1, SMT
  <2>3. pc'[r] = IF at[r] < Size[r] THEN "fetch" ELSE "record"
      BY <1>13, SMT DEF SubjectRaises
  <2>4. at[r] <= Size[r]
      BY <1>13, SMT DEF SubjectRaises
  <2>5. PositionInv(r)'
      BY <2>1, <2>2, <2>3, <2>4, SMT
  <2>6. AccountInv(r)'
      BY <1>a, <1>13, <2>1, <2>3, SMT DEF SubjectRaises
  <2>7. CountInv(r)' /\ RowInv(r)' /\ PayInv(r)'
      BY <1>13, <2>1, <2>3, SMT DEF SubjectRaises
  <2>q. QED
      BY <2>5, <2>6, <2>7
<1>14. CASE Record(r)
    BY <1>a, <1>14, SMT DEF Record
<1>15. CASE RecordLocked(r)
    BY <1>a, <1>15, SMT DEF RecordLocked
<1>16. CASE Finalise(r)
    BY <1>a, <1>16, SMT DEF Finalise, Summary, Rows
<1>17. CASE EndRaises(r)
    BY <1>a, <1>17, SMT DEF EndRaises
<1>q. QED
    BY <1>1, <1>2, <1>3, <1>4, <1>5, <1>6, <1>7, <1>8, <1>9, <1>10, <1>11, <1>12, <1>13, <1>14, <1>15, <1>16, <1>17 DEF RunStep
-------------------------------------------------------------------------------
(* The theorems.                                                           *)

\* So does a restart, which ends it.
LEMMA CrashKeeps ==
    ASSUME TypeOK, NEW r \in Runs, RunInv(r), Crash PROVE RunInv(r)'
<1>1. pc'[r] = pc[r] \/ (pc[r] \in Live /\ pc'[r] = "lost")
    BY SMT DEF Crash, TypeOK
<1>2. /\ row' = row /\ results' = results /\ guards' = guards /\ at' = at
      /\ counters' = counters
    BY DEF Crash
<1>3. CASE pc'[r] = pc[r]
  <2>1. Same(r)
      BY <1>2, <1>3 DEF Same, guards, counters
  <2>q. QED
      BY <2>1, SameKeeps
<1>4. CASE pc[r] \in Live /\ pc'[r] = "lost"
    BY <1>2, <1>4, SMT DEF RunInv, PositionInv, AccountInv, CountInv, RowInv, PayInv, Setup,
       Ended, Live, Opened, Loop, guards, counters
<1>q. QED
    BY <1>1, <1>3, <1>4

\* The invariant holds at first.
LEMMA IInvInit == Init => IInv
<1> SUFFICES ASSUME Init, NEW r \in Runs PROVE RunInv(r)
    BY TypeInit DEF IInv
<1>1. /\ pc[r] = "idle" /\ row[r] = NoRow /\ results[r] = {} /\ at[r] = 1
      /\ completed[r] = 0 /\ failed[r] = 0 /\ errors[r] = 0 /\ passed[r] = 0
      /\ cost[r] = 0 /\ specs[r] = {} /\ note[r] = "none" /\ ~wants[r]
    BY DEF Init
<1>2. Size[r] \in Nat
    BY SetsAssumption
<1>q. QED
    BY <1>1, <1>2, SMT DEF RunInv, PositionInv, AccountInv, CountInv, RowInv, PayInv, Setup,
       Ended, Loop, NoRow

\* Every step keeps it.
LEMMA IInvStep == IInv /\ [Next]_vars => IInv'
<1> SUFFICES ASSUME IInv, [Next]_vars, NEW r \in Runs PROVE RunInv(r)'
    BY TypeStep DEF IInv
<1>1. TypeOK /\ TypeOK' /\ RunInv(r)
    BY TypeStep DEF IInv
<1>2. ASSUME NEW q \in Runs, RunStep(q) PROVE RunInv(r)'
    BY <1>1, <1>2, OwnStep, OtherRun, SameKeeps
<1>3. CASE Crash
    BY <1>1, <1>3, CrashKeeps
<1>4. CASE Toggle \/ UNCHANGED vars
  <2>1. Same(r)
      BY <1>4 DEF Toggle, vars, guards, counters, Same
  <2>q. QED
      BY <1>1, <2>1, SameKeeps
<1>q. QED
    BY <1>2, <1>3, <1>4 DEF Next

\* So it always holds.
LEMMA Inductive == Spec => []IInv
<1>q. QED
    BY IInvInit, IInvStep, PTL DEF Spec

\* The variables keep their types: no counter, amount or count of attempts goes
\* below zero.
THEOREM TypeCorrect == Spec => []TypeOK
<1>1. IInv => TypeOK
    BY DEF IInv
<1>q. QED
    BY <1>1, Inductive, PTL

\* A completed run accounts for every subject: a result row or a failure.
THEOREM SubjectsAccounted == Spec => []NobodyDropped
<1>1. IInv => NobodyDropped
  <2> SUFFICES ASSUME IInv, NEW r \in Runs, row[r].status = "completed"
               PROVE  Size[r] <= Cardinality(results[r]) + row[r].failed
      BY DEF NobodyDropped
  <2>1. TypeOK /\ RunInv(r)
      BY DEF IInv
  <2>2. Cardinality(results[r]) \in Nat
      BY <2>1, ResultCount DEF RunInv
  <2>q. QED
      BY <2>1, <2>2, SetsAssumption, SMT
      DEF TypeOK, RunInv, PositionInv, AccountInv, RowInv, Ended
<1>q. QED
    BY <1>1, Inductive, PTL

\* No subject is in the pass rate twice, or both there and among the errors.
THEOREM PassRateSound == Spec => []PassRateOverEvaluated
<1>1. IInv => PassRateOverEvaluated
  <2> SUFFICES ASSUME IInv, NEW r \in Runs, row[r].status = "completed"
               PROVE  completed[r] + errors[r] <= Size[r] /\ passed[r] <= row[r].completed
      BY DEF PassRateOverEvaluated
  <2>1. TypeOK /\ RunInv(r)
      BY DEF IInv
  <2>q. QED
      BY <2>1, SetsAssumption, SMT
      DEF TypeOK, RunInv, PositionInv, CountInv, RowInv, Ended
<1>q. QED
    BY <1>1, Inductive, PTL

\* A completed run drops nobody and counts nobody twice.
THEOREM FiguresSound == Spec => []FiguresAddUp
<1>q. QED
    BY SubjectsAccounted, PassRateSound, PTL DEF FiguresAddUp

\* Rule lanes and downgraded runs are free, whatever is enabled in between.
THEOREM FreeWithoutJudges == Spec => []OnlyAdmittedPay
<1>1. IInv => OnlyAdmittedPay
    BY DEF IInv, OnlyAdmittedPay, RunInv, PayInv
<1>q. QED
    BY <1>1, Inductive, PTL
-------------------------------------------------------------------------------
(* The refinement of RunLifecycle.                                         *)


Unopened == {"idle", "estimate", "guard", "insert", "refused"}

\* The row is opened by Insert and shows running while the coroutine is in it.
OpenInv ==
    \A r \in Runs :
        /\ pc[r] \in Unopened => row[r] = NoRow
        /\ pc[r] \in Opened => row[r].status = "running"

\* The status of each row follows its coroutine.
THEOREM RowsFollow == Spec => []OpenInv
<1>1. Init => OpenInv
  BY DEF Init, OpenInv, Unopened, Opened, Loop
<1>2. TypeOK /\ OpenInv /\ [Next]_vars => OpenInv'
  <2> SUFFICES ASSUME TypeOK, OpenInv, [Next]_vars, NEW r \in Runs
               PROVE  /\ pc'[r] \in Unopened => row'[r] = NoRow
                      /\ pc'[r] \in Opened => row'[r].status = "running"
    BY DEF OpenInv
  <2> USE DEF OpenInv, TypeOK, Unopened, Opened, Loop, Goto, NextSubject, Fault
  <2>1. ASSUME NEW q \in Runs, q # r, RunStep(q) PROVE pc'[r] = pc[r] /\ row'[r] = row[r]
    BY <2>1, OtherRun DEF Same
  <2>2. CASE Insert(r)
    BY <2>2, SMT DEF Insert
  <2>3. CASE Begin(r) \/ Estimate(r) \/ Guard(r) \/ SetupRaises(r) \/ Prepare(r)
    BY <2>3, SMT DEF Begin, Estimate, Guard, SetupRaises, Prepare
  <2>4. CASE Missing(r) \/ FetchRules(r) \/ FetchJudged(r) \/ Judge(r) \/ Persist(r)
    BY <2>4, SMT DEF Missing, FetchRules, FetchJudged, Judge, Persist
  <2>5. CASE Improve(r) \/ SubjectRaises(r) \/ Record(r) \/ RecordLocked(r) \/ EndRaises(r)
    BY <2>5, SMT DEF Improve, SubjectRaises, Record, RecordLocked, EndRaises
  <2>6. CASE Finalise(r)
    BY <2>6, SMT DEF Finalise
  <2>7. CASE Crash
    BY <2>7, SMT DEF Crash
  <2>8. CASE Toggle \/ UNCHANGED vars
    BY <2>8 DEF Toggle, vars
  <2> QED
    BY <2>1, <2>2, <2>3, <2>4, <2>5, <2>6, <2>7, <2>8 DEF Next, RunStep
<1>3. QED
  BY <1>1, <1>2, TypeCorrect, PTL DEF Spec
-------------------------------------------------------------------------------
(* Steps of the abstract specification, said of the detailed state.        *)

\* Runs whose coroutine is between opening its row and ending.
Owned == {r \in Runs : pc[r] \in Opened}

\* Nobody writes a row and some are given up: an abstract Release.
LEMMA Releases ==
    ASSUME UNCHANGED row, Owned' \subseteq Owned
    PROVE  Lifecycle!Release
BY DEF Lifecycle!Release, Owned

\* The insert of a row is an abstract Submit.
LEMMA Submits ==
    ASSUME NEW r \in Runs, row[r] = NoRow,
           row' = [row EXCEPT ![r] = [status |-> "running", completed |-> 0, failed |-> 0,
                                      estimate |-> estimate[r], cost |-> 0]],
           row \in [Runs -> Rows], Owned' = Owned \cup {r}
    PROVE  Lifecycle!Submit(r)
<1>1. [q \in Runs |-> row'[q].status] = [[q \in Runs |-> row[q].status] EXCEPT ![r] = "running"]
  OBVIOUS
<1>2. [q \in Runs |-> [completed |-> row'[q].completed, failed |-> row'[q].failed]]
      = [q \in Runs |-> [completed |-> row[q].completed, failed |-> row[q].failed]]
  <2>1. ASSUME NEW q \in Runs
        PROVE  row'[q].completed = row[q].completed /\ row'[q].failed = row[q].failed
    BY DEF NoRow
  <2> QED
    BY <2>1
<1> QED
  BY <1>1, <1>2 DEF Lifecycle!Submit, Owned, NoRow

\* The final write of a row is an abstract Complete.
LEMMA Completes ==
    ASSUME NEW r \in Runs, r \in Owned, row[r].status = "running", row \in [Runs -> Rows],
           Size \in [Runs -> Nat],
           NEW s \in Rows, s.status = "completed", s.completed <= Size[r],
           row' = [row EXCEPT ![r] = s], Owned' = Owned \ {r}
    PROVE  Lifecycle!Complete(r)
<1>1. [q \in Runs |-> row'[q].status] = [[q \in Runs |-> row[q].status] EXCEPT ![r] = "completed"]
  OBVIOUS
<1> DEFINE Shown(q) == [completed |-> row[q].completed, failed |-> row[q].failed]
<1>2. [q \in Runs |-> Shown(q)'] = [[q \in Runs |-> Shown(q)] EXCEPT ![r] = Shown(r)']
  <2>1. ASSUME NEW q \in Runs, q # r PROVE Shown(q)' = Shown(q)
    BY <2>1
  <2> QED
    BY <2>1
<1>3. row'[r].completed \in 0..Size[r] /\ row'[r].failed \in Nat
  BY DEF Rows
<1>4. Len(<<"running">>) = 1 /\ <<"running">>[1] = "running"
  OBVIOUS
<1> QED
  BY <1>1, <1>2, <1>3, <1>4 DEF Lifecycle!Complete, Owned
-------------------------------------------------------------------------------
\* Every run's row keeps the promise of RunLifecycle.
THEOREM ImplementsLifecycle == Spec => KeepsLifecycle
<1>1. Init => Lifecycle!Init
  BY DEF Init, NoRow, Opened, Loop, Lifecycle!Init, Lifecycle!Zero
<1>2. IInv /\ OpenInv /\ [Next]_vars => [Lifecycle!Next]_(Lifecycle!vars)
  <2> SUFFICES ASSUME IInv, OpenInv, [Next]_vars
               PROVE  Lifecycle!Next \/ UNCHANGED Lifecycle!vars
    OBVIOUS
  <2> DEFINE Goal == Lifecycle!Next \/ UNCHANGED Lifecycle!vars
  <2>0. TypeOK
    BY DEF IInv
  <2>1. ASSUME UNCHANGED row, Owned' \subseteq Owned PROVE Goal
    BY <2>1, Releases DEF Lifecycle!Next
  <2>2. ASSUME NEW r \in Runs, Insert(r) PROVE Goal
    <3>1. row[r] = NoRow /\ row \in [Runs -> Rows] /\ pc[r] = "insert"
      BY <2>0, <2>2 DEF OpenInv, TypeOK, Insert, Unopened
    <3>2. Owned' = Owned \cup {r}
      BY <2>0, <2>2 DEF Insert, Goto, Owned, Opened, TypeOK
    <3> QED
      BY <2>2, <3>1, <3>2, Submits DEF Insert, Lifecycle!Next
  <2>3. ASSUME NEW r \in Runs, Finalise(r) PROVE Goal
    <3>1. row[r].status = "running" /\ row \in [Runs -> Rows] /\ r \in Owned
      BY <2>0, <2>3 DEF OpenInv, TypeOK, Finalise, Opened, Owned
    <3>2. Owned' = Owned \ {r}
      BY <2>0, <2>3 DEF Finalise, Goto, Owned, Opened, Loop, TypeOK
    <3>3. Summary(r) \in Rows /\ Summary(r).status = "completed" /\ row' = [row EXCEPT ![r] = Summary(r)]
      BY <2>0, <2>3, SMT DEF Finalise, Summary, Rows, TypeOK
    <3>4. Summary(r).completed <= Size[r]
      <4>1. RunInv(r) /\ pc[r] = "finalise"
        BY <2>3 DEF IInv, Finalise
      <4>2. Size[r] \in Nat /\ completed[r] \in Nat /\ errors[r] \in Nat /\ at[r] \in Nat
        BY <2>0, SetsAssumption DEF TypeOK
      <4> QED
        BY <4>1, <4>2, SMT DEF RunInv, CountInv, PositionInv, Ended, Summary
    <3> QED
      BY <2>3, <3>1, <3>2, <3>3, <3>4, SetsAssumption, Completes DEF Lifecycle!Next
  <2>4. ASSUME NEW r \in Runs, RunStep(r), ~Insert(r), ~Finalise(r) PROVE Goal
    <3>1. UNCHANGED row
      BY <2>4 DEF RunStep, Begin, Estimate, Guard, SetupRaises, Prepare, Missing, FetchRules,
         FetchJudged, Judge, Persist, Improve, SubjectRaises, Record, RecordLocked, EndRaises
    <3>2. pc' = [pc EXCEPT ![r] = pc'[r]] /\ (pc'[r] \in Opened => pc[r] \in Opened)
      <4> USE <2>0 DEF Goto, Opened, Loop, TypeOK, NextSubject
      <4>1. CASE Begin(r) \/ Estimate(r) \/ Guard(r) \/ SetupRaises(r) \/ Prepare(r)
        BY <4>1, SMT DEF Begin, Estimate, Guard, SetupRaises, Prepare
      <4>2. CASE Missing(r) \/ FetchRules(r) \/ FetchJudged(r) \/ Judge(r)
        BY <4>2, SMT DEF Missing, FetchRules, FetchJudged, Judge
      <4>3. CASE Persist(r) \/ Improve(r) \/ SubjectRaises(r)
        BY <4>3, SMT DEF Persist, Improve, SubjectRaises
      <4>4. CASE Record(r) \/ RecordLocked(r) \/ EndRaises(r)
        BY <4>4, SMT DEF Record, RecordLocked, EndRaises
      <4> QED
        BY <2>4, <4>1, <4>2, <4>3, <4>4 DEF RunStep
    <3>3. Owned' \subseteq Owned
      BY <2>0, <3>2 DEF Owned, TypeOK
    <3> QED
      BY <2>1, <3>1, <3>3
  <2>5. CASE Crash
    <3>1. UNCHANGED row /\ Owned' \subseteq Owned
      BY <2>5 DEF Crash, Owned, Opened, Loop
    <3> QED
      BY <2>1, <3>1
  <2>6. CASE Toggle \/ UNCHANGED vars
    BY <2>1, <2>6 DEF Toggle, vars, Owned
  <2> QED
    BY <2>2, <2>3, <2>4, <2>5, <2>6 DEF Next
<1>3. QED
  BY <1>1, <1>2, Inductive, RowsFollow, PTL DEF Spec, KeepsLifecycle, Lifecycle!Spec
-------------------------------------------------------------------------------
(* The books: sums over the runs of a project.                             *)

\* The summand that SumFunctionOnSet takes out first.
Least(s) == CHOOSE x \in s : TRUE

\* What LET iter == ... in the fold says of iter.
Sums(f, S, h) == h = [s \in SUBSET S |-> IF s = {} THEN 0 ELSE f[Least(s)] + h[s \ {Least(s)}]]

\* A set of numbers has a least one.
LEMMA LeastNumber ==
    ASSUME NEW N \in SUBSET Nat, N # {}
    PROVE  \E n \in N : \A m \in N : n <= m
<1> DEFINE R == OpToRel(<, Nat)
<1>1. IsWellFoundedOn(R, Nat)
  BY NatLessThanWellFounded
<1>2. \A m, n \in Nat : <<m, n>> \notin R => n <= m
  BY DEF OpToRel
<1>3. \E n \in N : \A m \in N : ~ (<<m, n>> \in R)
  <2> HIDE DEF R
  <2>q. QED
    BY <1>1, WFMin
<1>q. QED
  BY <1>2, <1>3

\* Of any subsets of a finite set one is smallest: what holds of the empty set and
\* cannot fail first for a set with an element holds of all.
LEMMA Smallest ==
    ASSUME NEW S, IsFiniteSet(S), NEW F \in SUBSET (SUBSET S), F # {}
    PROVE  \E T \in F : \A U \in F : Cardinality(T) <= Cardinality(U)
<1> DEFINE N == {Cardinality(T) : T \in F}
<1>1. N \in SUBSET Nat /\ N # {}
  BY FS_Subset, FS_CardinalityType
<1>2. PICK n \in N : \A m \in N : n <= m
  <2> HIDE DEF N
  <2>q. QED
    BY <1>1, LeastNumber
<1>q. QED
  BY <1>2

\* There is one function as the fold defines it.
LEMMA SumsUnique ==
    ASSUME NEW S, IsFiniteSet(S), NEW f, NEW g, NEW h, Sums(f, S, g), Sums(f, S, h)
    PROVE  g = h
<1> DEFINE F == {T \in SUBSET S : g[T] # h[T]}
<1>1. ASSUME F # {} PROVE FALSE
  <2>1. PICK T \in F : \A U \in F : Cardinality(T) <= Cardinality(U)
    <3> HIDE DEF F
    <3>1. F \in SUBSET (SUBSET S)
      BY DEF F
    <3>q. QED
      BY <1>1, <3>1, Smallest
  <2>2. T # {} /\ Least(T) \in T /\ T \subseteq S
    BY DEF Sums, Least
  <2>3. Cardinality(T \ {Least(T)}) = Cardinality(T) - 1 /\ Cardinality(T) \in Nat
    BY <2>2, FS_Subset, FS_RemoveElement, FS_CardinalityType
  <2>4. g[T \ {Least(T)}] = h[T \ {Least(T)}]
    BY <2>1, <2>2, <2>3
  <2>q. QED
    BY <2>1, <2>2, <2>4 DEF Sums
<1>q. QED
  BY <1>1 DEF Sums

\* There is a sum function: one for the subsets of up to n elements extends to those of n + 1.
LEMMA SumsExist ==
    ASSUME NEW S, IsFiniteSet(S), NEW f
    PROVE  \E h : Sums(f, S, h)
<1> DEFINE Rec(h, T) == h[T] = IF T = {} THEN 0 ELSE f[Least(T)] + h[T \ {Least(T)}]
           Upto(n) == \E h : \A T \in SUBSET S : Cardinality(T) <= n => Rec(h, T)
           N == {n \in Nat : ~Upto(n)}
<1>1. ASSUME NEW n \in Nat, Upto(n), NEW m, m = n + 1 PROVE Upto(m)
  <2>1. PICK h : \A T \in SUBSET S : Cardinality(T) <= n => Rec(h, T)
    BY <1>1
  <2> DEFINE g == [T \in SUBSET S |-> IF T = {} THEN 0 ELSE f[Least(T)] + h[T \ {Least(T)}]]
  <2>2. ASSUME NEW T \in SUBSET S, Cardinality(T) <= m, T # {} PROVE g[T \ {Least(T)}] = h[T \ {Least(T)}]
    <3>1. Least(T) \in T
      BY <2>2 DEF Least
    <3>2. Cardinality(T \ {Least(T)}) <= n
      BY <1>1, <2>2, <3>1, FS_Subset, FS_RemoveElement, FS_CardinalityType
    <3>q. QED
      BY <2>1, <3>2
  <2>3. \A T \in SUBSET S : Cardinality(T) <= m => Rec(g, T)
    BY <2>2
  <2>q. QED
    BY <2>3
<1>2. Upto(0)
  <2> DEFINE g == [T \in SUBSET S |-> 0]
  <2>1. ASSUME NEW T \in SUBSET S, Cardinality(T) <= 0 PROVE T = {}
    BY <2>1, FS_Subset, FS_CardinalityType, FS_EmptySet
  <2>2. \A T \in SUBSET S : Cardinality(T) <= 0 => Rec(g, T)
    BY <2>1
  <2>q. QED
    BY <2>2
<1>3. N = {}
  <2> SUFFICES ASSUME N # {} PROVE FALSE
    OBVIOUS
  <2> HIDE DEF Upto
  <2>0. N \in SUBSET Nat
    OBVIOUS
  <2>1. PICK n \in N : \A m \in N : n <= m
    <3> HIDE DEF N
    <3>q. QED
      BY <2>0, LeastNumber
  <2>2. n # 0 /\ n \in Nat
    BY <1>2
  <2>3. n - 1 \in Nat /\ n - 1 \notin N
    <3> HIDE DEF N
    <3>q. QED
      BY <2>1, <2>2
  <2>q. QED
    BY <1>1, <2>2, <2>3
<1>4. Upto(Cardinality(S))
  BY <1>3, FS_CardinalityType
<1>5. PICK h : \A T \in SUBSET S : Cardinality(T) <= Cardinality(S) => Rec(h, T)
  BY <1>4
<1>6. \A T \in SUBSET S : Rec(h, T)
  BY <1>5, FS_Subset
<1> DEFINE g == [T \in SUBSET S |-> h[T]]
<1>7. Sums(f, S, g)
  BY <1>6 DEF Sums, Least
<1>q. QED
  BY <1>7

\* SumFunctionOnSet takes that function's value.
LEMMA SumIs ==
    ASSUME NEW S, IsFiniteSet(S), NEW f, NEW h, Sums(f, S, h)
    PROVE  \A T \in SUBSET S : SumFunctionOnSet(f, T) = h[T]
<1> SUFFICES ASSUME NEW T \in SUBSET S PROVE SumFunctionOnSet(f, T) = h[T]
  OBVIOUS
<1> DEFINE g == [U \in SUBSET T |-> h[U]]
<1>1. Sums(f, T, g)
  <2>1. ASSUME NEW U \in SUBSET T PROVE h[U] = IF U = {} THEN 0 ELSE f[Least(U)] + g[U \ {Least(U)}]
    <3>1. U \in SUBSET S /\ U \ {Least(U)} \in SUBSET T
      OBVIOUS
    <3>q. QED
      BY <3>1 DEF Sums
  <2>q. QED
    BY <2>1 DEF Sums
<1>2. IsFiniteSet(T)
  BY FS_Subset
<1> HIDE DEF g
<1>3. SumFunctionOnSet(f, T) = g[T]
  <2>1. \A k : Sums(f, T, k) => k = g
    BY <1>1, <1>2, SumsUnique
  <2>q. QED
    BY <1>1, <2>1 DEF SumFunctionOnSet, FoldFunctionOnSet, MapThenFoldSet, Sums, Least
<1>q. QED
  BY <1>3 DEF g

\* A sum is one summand more than the sum over the rest.
LEMMA SumUnfolds ==
    ASSUME NEW S, IsFiniteSet(S), NEW f
    PROVE  /\ SumFunctionOnSet(f, {}) = 0
           /\ \A T \in SUBSET S : T # {} =>
                /\ Least(T) \in T
                /\ SumFunctionOnSet(f, T) = f[Least(T)] + SumFunctionOnSet(f, T \ {Least(T)})
<1>1. PICK h : Sums(f, S, h)
  BY SumsExist
<1>2. \A T \in SUBSET S : SumFunctionOnSet(f, T) = h[T]
  BY <1>1, SumIs
<1>3. ASSUME NEW T \in SUBSET S, T # {}
      PROVE  Least(T) \in T /\ SumFunctionOnSet(f, T) = f[Least(T)] + SumFunctionOnSet(f, T \ {Least(T)})
  <2>1. Least(T) \in T /\ T \ {Least(T)} \in SUBSET S
    BY <1>3 DEF Least
  <2>2. h[T] = f[Least(T)] + h[T \ {Least(T)}]
    BY <1>1, <1>3 DEF Sums
  <2>q. QED
    BY <1>2, <2>1, <2>2
<1>4. SumFunctionOnSet(f, {}) = 0
  BY <1>1, <1>2 DEF Sums
<1>q. QED
  BY <1>3, <1>4

\* A sum of integers is one.
LEMMA SumType ==
    ASSUME NEW S, IsFiniteSet(S), NEW f, \A x \in S : f[x] \in Int
    PROVE  \A T \in SUBSET S : SumFunctionOnSet(f, T) \in Int
<1> DEFINE F == {T \in SUBSET S : SumFunctionOnSet(f, T) \notin Int}
<1> SUFFICES ASSUME F # {} PROVE FALSE
  OBVIOUS
<1>1. F \in SUBSET (SUBSET S)
  OBVIOUS
<1>2. PICK T \in F : \A U \in F : Cardinality(T) <= Cardinality(U)
  <2> HIDE DEF F
  <2>q. QED
    BY <1>1, Smallest
<1>3. T # {} /\ T \in SUBSET S
  BY SumUnfolds
<1> DEFINE x == Least(T)
<1>4. x \in T /\ SumFunctionOnSet(f, T) = f[x] + SumFunctionOnSet(f, T \ {x})
  BY <1>3, SumUnfolds
<1>5. Cardinality(T \ {x}) = Cardinality(T) - 1 /\ Cardinality(T) \in Nat
  BY <1>3, <1>4, FS_Subset, FS_RemoveElement, FS_CardinalityType
<1> HIDE DEF x
<1>6. T \ {x} \notin F
  BY <1>2, <1>5
<1>q. QED
  BY <1>2, <1>3, <1>4, <1>6

\* Zeros add up to zero.
LEMMA SumZero ==
    ASSUME NEW S, IsFiniteSet(S), NEW f, \A x \in S : f[x] = 0
    PROVE  SumFunctionOnSet(f, S) = 0
<1> DEFINE F == {T \in SUBSET S : SumFunctionOnSet(f, T) # 0}
<1> SUFFICES ASSUME F # {} PROVE FALSE
  OBVIOUS
<1>1. F \in SUBSET (SUBSET S)
  OBVIOUS
<1>2. PICK T \in F : \A U \in F : Cardinality(T) <= Cardinality(U)
  <2> HIDE DEF F
  <2>q. QED
    BY <1>1, Smallest
<1>3. T # {} /\ T \in SUBSET S
  BY SumUnfolds
<1>4. PICK x \in T : SumFunctionOnSet(f, T) = f[x] + SumFunctionOnSet(f, T \ {x})
  <2>1. /\ Least(T) \in T
        /\ SumFunctionOnSet(f, T) = f[Least(T)] + SumFunctionOnSet(f, T \ {Least(T)})
    BY <1>3, SumUnfolds
  <2>q. QED
    BY <2>1
<1>5. Cardinality(T \ {x}) = Cardinality(T) - 1 /\ Cardinality(T) \in Nat
  BY <1>3, FS_Subset, FS_RemoveElement, FS_CardinalityType
<1>6. T \ {x} \notin F
  BY <1>2, <1>5
<1>q. QED
  BY <1>2, <1>3, <1>4, <1>6

\* Summands that stay below the sum of two others do so in total.
LEMMA SumAdd ==
    ASSUME NEW S, IsFiniteSet(S), NEW f, NEW a, NEW b,
           \A x \in S : f[x] \in Int /\ a[x] \in Int /\ b[x] \in Int /\ f[x] <= a[x] + b[x]
    PROVE  SumFunctionOnSet(f, S) <= SumFunctionOnSet(a, S) + SumFunctionOnSet(b, S)
<1> DEFINE Good(T) == SumFunctionOnSet(f, T) <= SumFunctionOnSet(a, T) + SumFunctionOnSet(b, T)
           F == {T \in SUBSET S : ~Good(T)}
<1>0. SUFFICES ASSUME F # {} PROVE FALSE
  OBVIOUS
<1>1. F \in SUBSET (SUBSET S)
  OBVIOUS
<1>2. PICK T \in F : \A U \in F : Cardinality(T) <= Cardinality(U)
  <2> HIDE DEF F
  <2>q. QED
    BY <1>0, <1>1, Smallest
<1>3. T # {} /\ T \in SUBSET S
  <2>1. Good({})
    BY SumUnfolds
  <2>q. QED
    BY <2>1
<1>a. PICK x \in T : x = Least(T)
  BY <1>3, SumUnfolds
<1>4. /\ SumFunctionOnSet(f, T) = f[x] + SumFunctionOnSet(f, T \ {x})
      /\ SumFunctionOnSet(a, T) = a[x] + SumFunctionOnSet(a, T \ {x})
      /\ SumFunctionOnSet(b, T) = b[x] + SumFunctionOnSet(b, T \ {x})
  BY <1>3, <1>a, SumUnfolds
<1>5. Cardinality(T \ {x}) = Cardinality(T) - 1 /\ Cardinality(T) \in Nat
  BY <1>3, FS_Subset, FS_RemoveElement, FS_CardinalityType
<1>6. Good(T \ {x})
  BY <1>2, <1>5
<1>7. T \ {x} \in SUBSET S
  OBVIOUS
<1>8. /\ SumFunctionOnSet(f, T \ {x}) \in Int
      /\ SumFunctionOnSet(a, T \ {x}) \in Int
      /\ SumFunctionOnSet(b, T \ {x}) \in Int
  BY <1>7, SumType
<1>9. Good(T)
  BY <1>4, <1>6, <1>8
<1>q. QED
  BY <1>2, <1>9

\* When one summand grows by at most d and no other grows, so does the sum.
LEMMA SumStep ==
    ASSUME NEW S, IsFiniteSet(S), NEW f, NEW g, NEW r, NEW d \in Int,
           \A x \in S : f[x] \in Int /\ g[x] \in Int /\ g[x] <= f[x] + (IF x = r THEN d ELSE 0)
    PROVE  SumFunctionOnSet(g, S) <= SumFunctionOnSet(f, S) + (IF r \in S THEN d ELSE 0)
<1> DEFINE Good(T) == SumFunctionOnSet(g, T) <= SumFunctionOnSet(f, T) + (IF r \in T THEN d ELSE 0)
           F == {T \in SUBSET S : ~Good(T)}
<1>0. SUFFICES ASSUME F # {} PROVE FALSE
  OBVIOUS
<1>1. F \in SUBSET (SUBSET S)
  OBVIOUS
<1>2. PICK T \in F : \A U \in F : Cardinality(T) <= Cardinality(U)
  <2> HIDE DEF F
  <2>q. QED
    BY <1>0, <1>1, Smallest
<1>3. T # {} /\ T \in SUBSET S
  <2>1. Good({})
    BY SumUnfolds
  <2>q. QED
    BY <2>1
<1>a. PICK x \in T : x = Least(T)
  BY <1>3, SumUnfolds
<1>4. /\ SumFunctionOnSet(f, T) = f[x] + SumFunctionOnSet(f, T \ {x})
      /\ SumFunctionOnSet(g, T) = g[x] + SumFunctionOnSet(g, T \ {x})
  BY <1>3, <1>a, SumUnfolds
<1>5. Cardinality(T \ {x}) = Cardinality(T) - 1 /\ Cardinality(T) \in Nat
  BY <1>3, FS_Subset, FS_RemoveElement, FS_CardinalityType
<1>6. Good(T \ {x})
  BY <1>2, <1>5
<1>7. T \ {x} \in SUBSET S
  OBVIOUS
<1>8. SumFunctionOnSet(f, T \ {x}) \in Int /\ SumFunctionOnSet(g, T \ {x}) \in Int
  BY <1>7, SumType
<1>9. Good(T)
  <2>1. CASE x = r
    BY <1>4, <1>6, <1>8, <2>1
  <2>2. CASE x # r
    BY <1>4, <1>6, <1>8, <2>2
  <2>q. QED
    BY <2>1, <2>2
<1>q. QED
  BY <1>2, <1>9
-------------------------------------------------------------------------------
(* The ledger and the rows.                                                *)

\* What the ledger holds of a run, at least and at most: between the upsert and
\* the final row its cost is in the ledger and not in the row; of a run that broke
\* off the state does not tell whether the upsert was reached.
AtLeast(r) == IF pc[r] = "finalise" THEN cost[r] ELSE row[r].cost
AtMost(r)  == IF pc[r] \in {"finalise", "raised", "lost"} THEN cost[r] ELSE row[r].cost

SumAtLeast(p) == SumFunctionOnSet([r \in Runs |-> AtLeast(r)], RunsOf(p))
SumAtMost(p)  == SumFunctionOnSet([r \in Runs |-> AtMost(r)], RunsOf(p))

\* Only the final row shows a cost.
RowsFree == \A r \in Runs : pc[r] # "done" => row[r].cost = 0

BookInv ==
    /\ RowsFree
    /\ \A p \in Scopes : SumAtLeast(p) <= ledger[p] /\ ledger[p] <= SumAtMost(p)

\* What a run has billed or may bill is an amount.
LEMMA BookTypes ==
    ASSUME TypeOK
    PROVE  \A r \in Runs : AtLeast(r) \in Nat /\ AtMost(r) \in Nat
BY SMT DEF TypeOK, Rows, AtLeast, AtMost

\* The step of a run bills an amount to its own project, and only that.
LEMMA RunBills ==
    ASSUME TypeOK, RowsFree, NEW r \in Runs, RunStep(r)
    PROVE  \E d \in Nat : /\ ledger' = [ledger EXCEPT ![Project[r]] = @ + d]
                          /\ AtLeast(r)' <= AtLeast(r) + d
                          /\ AtMost(r) + d <= AtMost(r)'
<1> DEFINE Bills(d) == /\ ledger' = [ledger EXCEPT ![Project[r]] = @ + d]
                       /\ AtLeast(r)' <= AtLeast(r) + d
                       /\ AtMost(r) + d <= AtMost(r)'
<1> SUFFICES \E d \in Nat : Bills(d)
  OBVIOUS
<1>a. cost[r] \in Nat /\ row[r].cost \in Nat /\ Project[r] \in Scopes
  BY SetsAssumption DEF TypeOK, Rows
<1>b. ASSUME ledger' = ledger, AtLeast(r)' <= AtLeast(r), AtMost(r) <= AtMost(r)'
      PROVE  Bills(0)
  <2>1. ledger = [ledger EXCEPT ![Project[r]] = @ + 0]
    <3>1. ledger[Project[r]] \in Nat
      BY <1>a DEF TypeOK
    <3>q. QED
      BY <3>1 DEF TypeOK
  <2>q. QED
    BY <1>b, <2>1, BookTypes
<1>0. ASSUME ledger' = ledger, AtLeast(r)' <= AtLeast(r), AtMost(r) <= AtMost(r)'
      PROVE  \E d \in Nat : Bills(d)
  <2> HIDE DEF Bills
  <2>q. QED
    BY <1>0, <1>b
<1> USE <1>a DEF TypeOK, RowsFree, AtLeast, AtMost, Goto, NextSubject, guards, counters
<1>1. CASE Begin(r) \/ Estimate(r) \/ Guard(r) \/ SetupRaises(r) \/ Prepare(r)
  BY <1>0, <1>1, SMT DEF Begin, Estimate, Guard, SetupRaises, Prepare
<1>2. CASE Insert(r)
  BY <1>0, <1>2, SMT DEF Insert
<1>3. CASE Missing(r) \/ FetchRules(r) \/ FetchJudged(r) \/ Persist(r)
  BY <1>0, <1>3, SMT DEF Missing, FetchRules, FetchJudged, Persist, Count
<1>4. CASE Judge(r)
  BY <1>0, <1>4, SMT DEF Judge, Count
<1>5. CASE Improve(r) \/ SubjectRaises(r) \/ RecordLocked(r) \/ EndRaises(r)
  BY <1>0, <1>5, SMT DEF Improve, SubjectRaises, RecordLocked, EndRaises
<1>6. CASE Record(r)
  <2>1. Bills(cost[r])
    BY <1>6, SMT DEF Record
  <2> HIDE DEF Bills
  <2>q. QED
    BY <2>1
<1>7. CASE Finalise(r)
  BY <1>0, <1>7, SMT DEF Finalise, Summary
<1>q. QED
  BY <1>1, <1>2, <1>3, <1>4, <1>5, <1>6, <1>7 DEF RunStep

\* Billing one run moves both bounds along with the ledger.
LEMMA BillKeeps ==
    ASSUME TypeOK, TypeOK', BookInv, NEW r \in Runs, NEW d \in Nat,
           ledger' = [ledger EXCEPT ![Project[r]] = @ + d],
           AtLeast(r)' <= AtLeast(r) + d, AtMost(r) + d <= AtMost(r)',
           \A q \in Runs \ {r} : AtLeast(q)' <= AtLeast(q) /\ AtMost(q) <= AtMost(q)',
           NEW p \in Scopes
    PROVE  SumAtLeast(p)' <= ledger'[p] /\ ledger'[p] <= SumAtMost(p)'
<1>1. PICK l : l = [q \in Runs |-> AtLeast(q)]
  OBVIOUS
<1>2. PICK m : m = [q \in Runs |-> AtMost(q)]
  OBVIOUS
<1>3. PICK l2 : l2 = [q \in Runs |-> AtLeast(q)']
  OBVIOUS
<1>4. PICK m2 : m2 = [q \in Runs |-> AtMost(q)']
  OBVIOUS
<1>5. /\ SumAtLeast(p) = SumFunctionOnSet(l, RunsOf(p))
      /\ SumAtMost(p) = SumFunctionOnSet(m, RunsOf(p))
      /\ SumAtLeast(p)' = SumFunctionOnSet(l2, RunsOf(p))
      /\ SumAtMost(p)' = SumFunctionOnSet(m2, RunsOf(p))
  BY <1>1, <1>2, <1>3, <1>4 DEF SumAtLeast, SumAtMost, RunsOf
<1>6. PICK S \in SUBSET Runs : S = RunsOf(p)
  BY DEF RunsOf
<1>7. IsFiniteSet(S)
  BY FS_Subset, SetsAssumption
<1>8. \A q \in Runs : /\ AtLeast(q) \in Nat /\ AtMost(q) \in Nat
                       /\ AtLeast(q)' \in Nat /\ AtMost(q)' \in Nat
  BY BookTypes, SMT DEF TypeOK, Rows, AtLeast, AtMost
<1>9. SumFunctionOnSet(l2, S) <= SumFunctionOnSet(l, S) + (IF r \in S THEN d ELSE 0)
  <2>1. \A q \in S : l[q] \in Int /\ l2[q] \in Int /\ l2[q] <= l[q] + (IF q = r THEN d ELSE 0)
    BY <1>1, <1>3, <1>8
  <2>q. QED
    BY <1>7, <2>1, SumStep
<1>10. SumFunctionOnSet(m, S) <= SumFunctionOnSet(m2, S) + (IF r \in S THEN -d ELSE 0)
  <2>1. \A q \in S : m2[q] \in Int /\ m[q] \in Int /\ m[q] <= m2[q] + (IF q = r THEN -d ELSE 0)
    BY <1>2, <1>4, <1>8
  <2>2. -d \in Int
    OBVIOUS
  <2>q. QED
    BY <1>7, <2>1, <2>2, SumStep
<1>11. /\ SumFunctionOnSet(l, S) \in Int /\ SumFunctionOnSet(l2, S) \in Int
       /\ SumFunctionOnSet(m, S) \in Int /\ SumFunctionOnSet(m2, S) \in Int
  BY <1>1, <1>2, <1>3, <1>4, <1>7, <1>8, SumType
<1>12. r \in S <=> p = Project[r]
  BY <1>6 DEF RunsOf
<1>13. ledger[p] \in Nat /\ ledger'[p] = ledger[p] + (IF r \in S THEN d ELSE 0)
  BY <1>12 DEF TypeOK
<1>14. SumFunctionOnSet(l, S) <= ledger[p] /\ ledger[p] <= SumFunctionOnSet(m, S)
  BY <1>5, <1>6 DEF BookInv
<1>q. QED
  BY <1>5, <1>6, <1>9, <1>10, <1>11, <1>13, <1>14

\* A row shows its cost only once its run is done.
LEMMA RowsFreeStep ==
    ASSUME TypeOK, RowsFree, [Next]_vars PROVE RowsFree'
<1> SUFFICES ASSUME NEW r \in Runs PROVE pc'[r] # "done" => row'[r].cost = 0
  BY DEF RowsFree
<1> USE DEF RowsFree, TypeOK, Goto, NextSubject
<1>1. ASSUME NEW q \in Runs, q # r, RunStep(q) PROVE pc'[r] = pc[r] /\ row'[r] = row[r]
  BY <1>1, OtherRun DEF Same
<1>2. CASE Begin(r) \/ Estimate(r) \/ Guard(r) \/ SetupRaises(r) \/ Prepare(r)
  BY <1>2, SMT DEF Begin, Estimate, Guard, SetupRaises, Prepare
<1>3. CASE Insert(r) \/ Finalise(r)
  BY <1>3, SMT DEF Insert, Finalise
<1>4. CASE Missing(r) \/ FetchRules(r) \/ FetchJudged(r) \/ Judge(r) \/ Persist(r)
  BY <1>4, SMT DEF Missing, FetchRules, FetchJudged, Judge, Persist
<1>5. CASE Improve(r) \/ SubjectRaises(r)
  BY <1>5, SMTT(20) DEF Improve, SubjectRaises
<1>6. CASE Record(r) \/ RecordLocked(r) \/ EndRaises(r)
  BY <1>6, SMTT(20) DEF Record, RecordLocked, EndRaises
<1>7. CASE Crash
  BY <1>7, SMT DEF Crash, Live, Opened, Loop
<1>8. CASE Toggle \/ UNCHANGED vars
  BY <1>8 DEF Toggle, vars
<1>q. QED
  BY <1>1, <1>2, <1>3, <1>4, <1>5, <1>6, <1>7, <1>8 DEF Next, RunStep

\* Every step keeps the books: it moves a ledger entry and a summand by the same amount.
LEMMA BooksStep ==
    ASSUME TypeOK, TypeOK', BookInv, [Next]_vars PROVE BookInv'
<1>0. RowsFree /\ RowsFree'
  BY RowsFreeStep DEF BookInv
<1> SUFFICES ASSUME NEW p \in Scopes
             PROVE  SumAtLeast(p)' <= ledger'[p] /\ ledger'[p] <= SumAtMost(p)'
  BY <1>0 DEF BookInv, Scopes
<1>1. ASSUME NEW r \in Runs, RunStep(r)
      PROVE  SumAtLeast(p)' <= ledger'[p] /\ ledger'[p] <= SumAtMost(p)'
  <2>1. PICK d \in Nat : /\ ledger' = [ledger EXCEPT ![Project[r]] = @ + d]
                         /\ AtLeast(r)' <= AtLeast(r) + d
                         /\ AtMost(r) + d <= AtMost(r)'
    BY <1>0, <1>1, RunBills
  <2>2. ASSUME NEW q \in Runs \ {r} PROVE AtLeast(q)' <= AtLeast(q) /\ AtMost(q) <= AtMost(q)'
    <3>1. AtLeast(q)' = AtLeast(q) /\ AtMost(q)' = AtMost(q)
      BY <1>1, OtherRun DEF Same, AtLeast, AtMost
    <3>q. QED
      BY <3>1, BookTypes
  <2>q. QED
    BY <2>1, <2>2, BillKeeps
<1>2. ASSUME ledger' = ledger,
             \A r \in Runs : AtLeast(r)' <= AtLeast(r) /\ AtMost(r) <= AtMost(r)'
      PROVE  SumAtLeast(p)' <= ledger'[p] /\ ledger'[p] <= SumAtMost(p)'
  <2>1. CASE Runs = {}
    <3>1. RunsOf(p) = {}
      BY <2>1 DEF RunsOf
    <3>2. /\ SumAtLeast(p)' = 0 /\ SumAtMost(p)' = 0
          /\ SumAtLeast(p) = 0 /\ SumAtMost(p) = 0
      BY <3>1, SumUnfolds, FS_EmptySet DEF SumAtLeast, SumAtMost
    <3>q. QED
      BY <1>2, <3>2 DEF BookInv
  <2>2. ASSUME NEW r \in Runs
        PROVE  SumAtLeast(p)' <= ledger'[p] /\ ledger'[p] <= SumAtMost(p)'
    <3>1. ledger' = [ledger EXCEPT ![Project[r]] = @ + 0]
      <4>1. Project[r] \in Scopes /\ ledger[Project[r]] \in Nat
        BY SetsAssumption DEF TypeOK
      <4>q. QED
        BY <1>2, <4>1 DEF TypeOK
    <3>2. AtLeast(r)' <= AtLeast(r) + 0 /\ AtMost(r) + 0 <= AtMost(r)'
      BY <1>2, BookTypes
    <3>q. QED
      BY <1>2, <3>1, <3>2, BillKeeps
  <2>q. QED
    BY <2>1, <2>2
<1>3. CASE Crash
  <2>1. ASSUME NEW r \in Runs PROVE AtLeast(r)' <= AtLeast(r) /\ AtMost(r) <= AtMost(r)'
    <3>1. pc'[r] = pc[r] \/ (pc[r] \in Live /\ pc'[r] = "lost")
      BY <1>3, SMT DEF Crash, TypeOK
    <3>2. row'[r] = row[r] /\ cost'[r] = cost[r]
      BY <1>3 DEF Crash, counters
    <3>3. cost[r] \in Nat /\ row[r].cost \in Nat /\ (pc[r] # "done" => row[r].cost = 0)
      BY <1>0 DEF TypeOK, Rows, RowsFree
    <3>q. QED
      BY <3>1, <3>2, <3>3, SMT DEF AtLeast, AtMost, Live, Opened, Loop
  <2>q. QED
    BY <1>2, <1>3, <2>1 DEF Crash
<1>4. CASE Toggle \/ UNCHANGED vars
  <2>1. ASSUME NEW r \in Runs PROVE AtLeast(r)' <= AtLeast(r) /\ AtMost(r) <= AtMost(r)'
    <3>1. AtLeast(r)' = AtLeast(r) /\ AtMost(r)' = AtMost(r)
      BY <1>4 DEF Toggle, vars, counters, AtLeast, AtMost
    <3>q. QED
      BY <3>1, BookTypes
  <2>q. QED
    BY <1>2, <1>4, <2>1 DEF Toggle, vars
<1>q. QED
  BY <1>1, <1>3, <1>4 DEF Next

\* Nothing is spent at first.
LEMMA BooksInit == Init => BookInv
<1> SUFFICES ASSUME Init PROVE BookInv
  OBVIOUS
<1>1. RowsFree
  BY DEF Init, RowsFree, NoRow
<1>2. ASSUME NEW p \in Scopes PROVE SumAtLeast(p) <= ledger[p] /\ ledger[p] <= SumAtMost(p)
  <2>1. PICK z : z = [r \in Runs |-> 0]
    OBVIOUS
  <2>2. \A r \in Runs : AtLeast(r) = 0 /\ AtMost(r) = 0
    BY DEF Init, NoRow, AtLeast, AtMost
  <2>3. SumAtLeast(p) = SumFunctionOnSet(z, RunsOf(p)) /\ SumAtMost(p) = SumFunctionOnSet(z, RunsOf(p))
    BY <2>1, <2>2 DEF SumAtLeast, SumAtMost
  <2>4. IsFiniteSet(RunsOf(p)) /\ RunsOf(p) \subseteq Runs
    BY FS_Subset, SetsAssumption DEF RunsOf
  <2>5. SumFunctionOnSet(z, RunsOf(p)) = 0
    BY <2>1, <2>4, SumZero
  <2>q. QED
    BY <2>3, <2>5 DEF Init
<1>q. QED
  BY <1>1, <1>2 DEF BookInv

\* The ledger the guard reads loses no spend and bills none twice, however many
\* runs overlap, break off or retry.
THEOREM LedgerAgrees == Spec => []BooksAgree
<1>1. TypeOK /\ TypeOK' /\ BookInv /\ [Next]_vars => BookInv'
  BY BooksStep
<1>2. IInv /\ BookInv => BooksAgree
  <2> SUFFICES ASSUME IInv, BookInv, NEW p \in Scopes
               PROVE  ledger[p] >= Reported(p) /\ ledger[p] <= Reported(p) + Unreported(p)
    BY DEF BooksAgree
  <2>0. TypeOK /\ ledger[p] \in Nat
    BY DEF IInv, TypeOK
  <2>1. PICK l : l = [r \in Runs |-> AtLeast(r)]
    OBVIOUS
  <2>2. PICK m : m = [r \in Runs |-> AtMost(r)]
    OBVIOUS
  <2>3. PICK a : a = [r \in Runs |-> row[r].cost]
    OBVIOUS
  <2>4. PICK b : b = [r \in Runs |-> IF row[r].status = "completed" THEN 0 ELSE cost[r]]
    OBVIOUS
  <2>5. PICK S \in SUBSET Runs : S = RunsOf(p)
    BY DEF RunsOf
  <2>6. IsFiniteSet(S)
    BY FS_Subset, SetsAssumption
  <2>7. ASSUME NEW r \in Runs
        PROVE  /\ l[r] \in Int /\ m[r] \in Int /\ a[r] \in Int /\ b[r] \in Int
               /\ a[r] <= l[r] /\ m[r] <= a[r] + b[r]
    <3>1. cost[r] \in Nat /\ row[r].cost \in Nat
      BY <2>0 DEF TypeOK, Rows
    <3>2. /\ row[r].status = "completed" => pc[r] = "done"
          /\ pc[r] # "done" => row[r].cost = 0
      BY DEF IInv, RunInv, RowInv, BookInv, RowsFree
    <3>q. QED
      BY <2>1, <2>2, <2>3, <2>4, <3>1, <3>2, SMT DEF AtLeast, AtMost
  <2>8. SumFunctionOnSet(a, S) <= SumFunctionOnSet(l, S)
    <3>1. PICK z : z = [r \in Runs |-> 0]
      OBVIOUS
    <3>2. SumFunctionOnSet(a, S) <= SumFunctionOnSet(l, S) + SumFunctionOnSet(z, S)
      BY <2>6, <2>7, <3>1, SumAdd
    <3>3. SumFunctionOnSet(l, S) \in Int /\ SumFunctionOnSet(z, S) = 0
      BY <2>6, <2>7, <3>1, SumType, SumZero
    <3>q. QED
      BY <3>2, <3>3
  <2>9. SumFunctionOnSet(m, S) <= SumFunctionOnSet(a, S) + SumFunctionOnSet(b, S)
    BY <2>6, <2>7, SumAdd
  <2>10. /\ SumFunctionOnSet(l, S) \in Int /\ SumFunctionOnSet(m, S) \in Int
         /\ SumFunctionOnSet(a, S) \in Int /\ SumFunctionOnSet(b, S) \in Int
    BY <2>6, <2>7, SumType
  <2>11. SumFunctionOnSet(l, S) <= ledger[p] /\ ledger[p] <= SumFunctionOnSet(m, S)
    BY <2>1, <2>2, <2>5 DEF BookInv, SumAtLeast, SumAtMost
  <2>12. Reported(p) = SumFunctionOnSet(a, S) /\ Unreported(p) = SumFunctionOnSet(b, S)
    BY <2>3, <2>4, <2>5 DEF Reported, Unreported
  <2>q. QED
    BY <2>0, <2>8, <2>9, <2>10, <2>11, <2>12
<1>q. QED
  BY <1>1, <1>2, BooksInit, Inductive, TypeCorrect, PTL DEF Spec
-------------------------------------------------------------------------------
(* The limits of the guard, for up to Overlap runs at a time.              *)

\* What one subject may cost a run with the judges it resolved.
Unit(r) == CallCost * Cardinality(specs[r])

\* A run spends at most that for each subject it has gone through.
SpentInv(r) ==
    /\ pc[r] \in {"fetch", "judge"} => cost[r] <= Unit(r) * (at[r] - 1)
    /\ pc[r] \in {"persist", "improve"} => cost[r] <= Unit(r) * at[r]
    /\ cost[r] <= Unit(r) * Size[r]

Admitted == {"insert", "prepare", "record"} \cup Loop       \* and not yet billed

\* An admitted run was estimated at no less than it may spend, and its estimate was
\* within the cap per run.
AdmittedInv(r) ==
    /\ wants[r] /\ pc[r] \in {"guard", "insert", "prepare"} =>
           Price * Cardinality(enabled) * Size[r] <= estimate[r]
    /\ specs[r] # {} =>
           Unit(r) * Size[r] <= estimate[r] /\ (OnExceed # "notify" => estimate[r] <= MaxPerRun)
    /\ OnExceed # "notify" /\ wants[r] /\ pc[r] \in Admitted => estimate[r] <= MaxPerRun

\* What the admitted runs of a project, and those without one, may still bill; and what
\* the project's month comes to with it.
Shares(r, p) == Project[r] \in {p, NoProject}
Reserve(r) == IF wants[r] /\ pc[r] \in Admitted THEN estimate[r] ELSE 0
Reserves(p) == [r \in Runs |-> IF Shares(r, p) THEN Reserve(r) ELSE 0]
Committed(p) == ledger[p] + ledger[NoProject] + SumFunctionOnSet(Reserves(p), Runs)
Limit == MonthlyBudget + (Overlap - 1) * MaxPerRun

\* The guard of the last run admitted saw the ledger and not the reserves of the others
\* under way, of which there are Overlap - 1.
CommitInv == OnExceed # "notify" => \A p \in Projects : Committed(p) <= Limit

LimitInv == Cardinality(Running) <= Overlap /\ CommitInv /\ \A r \in Runs : SpentInv(r) /\ AdmittedInv(r)

\* Products are monotonic.
LEMMA Products ==
    ASSUME NEW a \in Nat, NEW b \in Nat, NEW c \in Nat
    PROVE  /\ a * b \in Nat /\ a * (b + 1) = a * b + a
           /\ b <= c => a * b <= a * c /\ b * a <= c * a
BY Z3

\* What a subject may cost is an amount.
LEMMA Units ==
    ASSUME TypeOK, NEW r \in Runs PROVE Unit(r) \in Nat /\ Size[r] \in Nat
<1>1. specs[r] \in SUBSET Models /\ Size[r] \in Nat /\ CallCost \in Nat
  BY SetsAssumption, MoneyAssumption DEF TypeOK
<1>2. Cardinality(specs[r]) \in Nat
  BY <1>1, Counts
<1>q. QED
  BY <1>1, <1>2, Products DEF Unit

\* The month's spend of a run covers its project and the runs without one.
LEMMA SpendCovers ==
    ASSUME TypeOK, NEW r \in Runs
    PROVE  /\ MonthlySpend(r) \in Nat
           /\ \A p \in Projects : p = Project[r] \/ Project[r] = NoProject =>
                  ledger[p] + ledger[NoProject] <= MonthlySpend(r)
<1>1. \A p \in Scopes : ledger[p] \in Nat
  BY DEF TypeOK
<1>2. CASE Project[r] # NoProject
  BY <1>1, <1>2, SetsAssumption DEF MonthlySpend, Scopes
<1>3. CASE Project[r] = NoProject
  <2>0. MonthlySpend(r) = SumFunctionOnSet(ledger, Scopes)
    BY <1>3 DEF MonthlySpend
  <2>1. PICK z : z = [p \in Scopes |-> 0]
    OBVIOUS
  <2>2. SumFunctionOnSet(z, Scopes) = 0
    BY <2>1, SumZero, SetsAssumption
  <2>3. SumFunctionOnSet(ledger, Scopes) \in Int
    BY <1>1, SumType, SetsAssumption
  <2>4. SumFunctionOnSet(z, Scopes) <= SumFunctionOnSet(ledger, Scopes)
    <3>1. \A x \in Scopes : /\ z[x] \in Int /\ ledger[x] \in Int
                            /\ z[x] <= ledger[x] + (IF x = NoProject THEN 0 ELSE 0)
      BY <1>1, <2>1
    <3>2. SumFunctionOnSet(z, Scopes)
            <= SumFunctionOnSet(ledger, Scopes) + (IF NoProject \in Scopes THEN 0 ELSE 0)
      BY <3>1, SumStep, SetsAssumption
    <3>q. QED
      BY <2>3, <3>2
  <2>5. ASSUME NEW p \in Projects
        PROVE  ledger[p] + ledger[NoProject] <= SumFunctionOnSet(ledger, Scopes)
    <3>0. p \in Scopes /\ NoProject \in Scopes /\ p # NoProject
      BY SetsAssumption DEF Scopes
    <3>1. PICK u : u = [z EXCEPT ![p] = ledger[p]]
      OBVIOUS
    <3>2. \A x \in Scopes : u[x] = (IF x = p THEN ledger[p] ELSE 0) /\ u[x] \in Int
      BY <1>1, <2>1, <3>0, <3>1
    <3>3. SumFunctionOnSet(u, Scopes) \in Int
      BY <3>2, SumType, SetsAssumption
    <3>4. SumFunctionOnSet(z, Scopes) <= SumFunctionOnSet(u, Scopes) + (-ledger[p])
      <4>1. \A x \in Scopes : /\ u[x] \in Int /\ z[x] \in Int
                              /\ z[x] <= u[x] + (IF x = p THEN -ledger[p] ELSE 0)
        BY <1>1, <2>1, <3>0, <3>2
      <4>2. -ledger[p] \in Int
        BY <1>1, <3>0
      <4>3. SumFunctionOnSet(z, Scopes)
              <= SumFunctionOnSet(u, Scopes) + (IF p \in Scopes THEN -ledger[p] ELSE 0)
        BY <4>1, <4>2, SumStep, SetsAssumption
      <4>q. QED
        BY <3>0, <4>3
    <3>5. SumFunctionOnSet(u, Scopes) <= SumFunctionOnSet(ledger, Scopes) + (-ledger[NoProject])
      <4>1. \A x \in Scopes : /\ ledger[x] \in Int /\ u[x] \in Int
                              /\ u[x] <= ledger[x] + (IF x = NoProject THEN -ledger[NoProject] ELSE 0)
        BY <1>1, <3>0, <3>2
      <4>2. -ledger[NoProject] \in Int
        BY <1>1, <3>0
      <4>3. SumFunctionOnSet(u, Scopes)
              <= SumFunctionOnSet(ledger, Scopes)
                   + (IF NoProject \in Scopes THEN -ledger[NoProject] ELSE 0)
        BY <4>1, <4>2, SumStep, SetsAssumption
      <4>q. QED
        BY <3>0, <4>3
    <3>q. QED
      BY <1>1, <2>2, <2>3, <3>0, <3>3, <3>4, <3>5
  <2>q. QED
    BY <2>0, <2>2, <2>3, <2>4, <2>5
<1>q. QED
  BY <1>2, <1>3

\* A step spends no more than one subject may cost.
LEMMA SpentStep ==
    ASSUME TypeOK, TypeOK', NEW r \in Runs, PositionInv(r), PayInv(r), SpentInv(r), RunStep(r)
    PROVE  SpentInv(r)'
<1>1. PICK K \in Nat : K = Unit(r)
  BY Units
<1>2. PICK n \in Nat : n = at[r] - 1 /\ n + 1 = at[r]
  <2>1. at[r] \in Nat \ {0}
    BY DEF TypeOK
  <2>2. at[r] - 1 \in Nat /\ (at[r] - 1) + 1 = at[r]
    BY <2>1
  <2>q. QED
    BY <2>2
<1>3. PICK m \in Nat : m = Size[r]
  BY Units
<1>4. /\ K * n \in Nat /\ K * m \in Nat /\ K * (n + 1) = K * n + K
      /\ n + 1 <= m => K * (n + 1) <= K * m
      /\ n <= m => K * n <= K * m
  BY Products
<1>5. ASSUME specs'[r] = specs[r]
      PROVE  SpentInv(r)' <=>
                /\ pc'[r] \in {"fetch", "judge"} => cost'[r] <= K * (at'[r] - 1)
                /\ pc'[r] \in {"persist", "improve"} => cost'[r] <= K * at'[r]
                /\ cost'[r] <= K * m
  BY <1>1, <1>3, <1>5 DEF SpentInv, Unit
<1>6. /\ pc[r] \in {"fetch", "judge"} => cost[r] <= K * n
      /\ pc[r] \in {"persist", "improve"} => cost[r] <= K * (n + 1)
      /\ cost[r] <= K * m /\ cost[r] \in Nat
  <2>1. cost[r] \in Nat
    BY DEF TypeOK
  <2>q. QED
    BY <1>1, <1>2, <1>3, <2>1, Zenon DEF SpentInv
<1>7. pc[r] \in Loop => n + 1 <= m
  BY <1>2, <1>3 DEF PositionInv
<1>8. (cost'[r] = cost[r] /\ specs'[r] = specs[r]) \/ Judge(r) \/ Prepare(r)
  BY SMT DEF RunStep, Begin, Estimate, Guard, Insert, SetupRaises, Missing, FetchRules, FetchJudged,
     Persist, Improve, SubjectRaises, Record, RecordLocked, Finalise, EndRaises, counters, guards
<1>9. CASE Judge(r)
  <2>1. specs'[r] = specs[r] /\ pc'[r] = "persist" /\ at'[r] = n + 1 /\ pc[r] = "judge"
    BY <1>2, <1>9 DEF Judge, Goto, TypeOK, guards
  <2>2. PICK c \in 0..K : cost'[r] = cost[r] + c
    BY <1>1, <1>9 DEF Judge, Unit, TypeOK
  <2>q. QED
    BY <1>4, <1>5, <1>6, <1>7, <2>1, <2>2 DEF Loop
<1>10. CASE Prepare(r)
  <2>1. /\ pc[r] = "prepare" /\ at'[r] = at[r] /\ cost'[r] = cost[r]
        /\ pc'[r] \in {"fetch", "record"}
    BY <1>10 DEF Prepare, Goto, TypeOK, counters
  <2>2. cost[r] = 0 /\ at[r] = 1
    BY <2>1, <1>6 DEF PayInv, PositionInv, Setup
  <2>3. PICK k \in Nat : k = Unit(r)'
    <3>1. specs'[r] \in SUBSET Models /\ CallCost \in Nat
      BY MoneyAssumption DEF TypeOK
    <3>q. QED
      BY <3>1, Counts, Products DEF Unit
  <2>4. k * m \in Nat /\ k * 0 \in Nat
    BY Products
  <2>5. Size[r]' = m /\ at'[r] - 1 = 0
    BY <1>3, <2>1, <2>2
  <2>q. QED
    BY <2>1, <2>2, <2>3, <2>4, <2>5 DEF SpentInv
<1>11. CASE cost'[r] = cost[r] /\ specs'[r] = specs[r]
  <2> USE <1>11
  <2>1. CASE pc'[r] \notin Loop
    BY <1>5, <1>6, <2>1 DEF Loop
  <2>2. CASE Missing(r) \/ SubjectRaises(r) \/ Improve(r) \/ Persist(r)
    <3>1. /\ \/ at'[r] = n + 2 /\ pc'[r] \in {"fetch", "record"}
             \/ at'[r] = n + 1 /\ pc'[r] = "improve" /\ pc[r] = "persist"
          /\ pc[r] \in {"fetch", "persist", "improve"}
      BY <1>2, <2>2 DEF Missing, SubjectRaises, Improve, Persist, NextSubject, Goto, TypeOK
    <3>2. cost[r] <= K * (n + 1)
      BY <1>4, <1>6, <3>1
    <3>3. at'[r] = n + 2 => at'[r] - 1 = n + 1
      OBVIOUS
    <3>q. QED
      BY <1>5, <1>6, <3>1, <3>2, <3>3
  <2>3. CASE FetchRules(r) \/ FetchJudged(r)
    <3>1. pc[r] = "fetch" /\ at'[r] = n + 1 /\ pc'[r] \in {"persist", "judge"}
      BY <1>2, <2>3 DEF FetchRules, FetchJudged, Goto, TypeOK
    <3>2. at'[r] - 1 = n
      BY <3>1
    <3>q. QED
      BY <1>4, <1>5, <1>6, <3>1, <3>2
  <2>4. pc'[r] \notin Loop \/ Missing(r) \/ SubjectRaises(r) \/ Improve(r) \/ Persist(r)
          \/ FetchRules(r) \/ FetchJudged(r) \/ Judge(r) \/ Prepare(r)
    BY SMT DEF RunStep, Begin, Estimate, Guard, Insert, SetupRaises, Record, RecordLocked,
       Finalise, EndRaises, Goto, TypeOK, Loop
  <2>q. QED
    BY <1>9, <1>10, <2>1, <2>2, <2>3, <2>4
<1>q. QED
  BY <1>8, <1>9, <1>10, <1>11

\* An estimate covers what the enabled models may cost, and no fewer cost more.
LEMMA Covers ==
    ASSUME CallCost <= Price, NEW S \in SUBSET Models, NEW T \in SUBSET S, NEW m \in Nat
    PROVE  /\ CallCost * Cardinality(T) * m <= Price * Cardinality(T) * m
           /\ Price * Cardinality(T) * m <= Price * Cardinality(S) * m
<1>1. Cardinality(S) \in Nat /\ Cardinality(T) \in Nat /\ Cardinality(T) <= Cardinality(S)
  BY Counts, FS_Subset, SetsAssumption
<1>2. PICK a, b \in Nat : a = Cardinality(T) /\ b = Cardinality(S) /\ a <= b
  BY <1>1
<1>3. PICK c, d \in Nat : c = CallCost /\ d = Price /\ c <= d
  BY MoneyAssumption
<1>4. c * a \in Nat /\ d * a \in Nat /\ d * b \in Nat /\ c * a <= d * a /\ d * a <= d * b
  BY <1>2, <1>3, Products
<1>5. c * a * m <= d * a * m /\ d * a * m <= d * b * m
  BY <1>4, Products
<1>q. QED
  BY <1>2, <1>3, <1>5

\* The guard admits a run with judges only within the limits.
LEMMA GuardAdmits ==
    ASSUME TypeOK, NEW r \in Runs, Guard(r), OnExceed # "notify", wants'[r], pc'[r] = "insert"
    PROVE  ~Exceeds(r)
<1>1. wants' = [wants EXCEPT ![r] = @ /\ ~(Exceeds(r) /\ OnExceed = "downgrade")]
  BY DEF Guard
<1>2. wants'[r] = (wants[r] /\ ~(Exceeds(r) /\ OnExceed = "downgrade"))
  BY <1>1, Zenon DEF TypeOK
<1>3. ~(Exceeds(r) /\ OnExceed = "block")
  BY DEF Guard, Goto, TypeOK
<1>q. QED
  BY <1>2, <1>3, MoneyAssumption

\* A step of a run keeps what its admission promised.
LEMMA AdmittedStep ==
    ASSUME CallCost <= Price, TypeOK, TypeOK', NEW r \in Runs, PayInv(r), AdmittedInv(r), RunStep(r)
    PROVE  AdmittedInv(r)'
<1>0. Size[r] \in Nat /\ estimate[r] \in Nat
  BY Units DEF TypeOK
<1>1. ASSUME wants'[r] => wants[r], specs'[r] = specs[r], estimate'[r] = estimate[r],
             enabled' = enabled,
             pc'[r] \in {"guard", "insert", "prepare"} => pc[r] \in {"guard", "insert", "prepare"},
             pc'[r] \in Admitted => pc[r] \in Admitted
      PROVE  AdmittedInv(r)'
  BY <1>1 DEF AdmittedInv, Unit
<1> USE DEF TypeOK, Goto, NextSubject, Admitted, Loop, guards, counters
<1>2. CASE Begin(r)
  <2>1. wants' = [wants EXCEPT ![r] = r \in JudgedRuns /\ Models # {}]
    BY <1>2 DEF Begin
  <2>2. pc' = [pc EXCEPT ![r] = IF wants'[r] THEN "estimate" ELSE "insert"]
    BY <1>2 DEF Begin
  <2>3. pc'[r] = "estimate" \/ ~wants'[r]
    BY <2>2
  <2>4. specs'[r] = {}
    BY <1>2 DEF Begin, PayInv, Setup
  <2>q. QED
    BY <2>3, <2>4, Zenon DEF AdmittedInv
<1>3. CASE Estimate(r)
  <2>1. /\ estimate'[r] = Price * Cardinality(enabled) * Size[r] /\ enabled' = enabled
        /\ pc'[r] = "guard" /\ specs'[r] = {}
    BY <1>3 DEF Estimate, PayInv, Setup
  <2>2. Price * Cardinality(enabled) * Size[r] \in Nat
    BY <2>1
  <2>q. QED
    BY <2>1, <2>2 DEF AdmittedInv
<1>4. CASE Guard(r)
  <2>1. /\ enabled' = enabled /\ specs'[r] = {} /\ pc[r] = "guard"
        /\ pc'[r] \in {"refused", "insert"}
    BY <1>4 DEF Guard, PayInv, Setup
  <2>2. wants' = [wants EXCEPT ![r] = @ /\ ~(Exceeds(r) /\ OnExceed = "downgrade")]
    BY <1>4 DEF Guard
  <2>3. wants'[r] = (wants[r] /\ ~(Exceeds(r) /\ OnExceed = "downgrade"))
    BY <2>2, Zenon
  <2>4. estimate'[r] = IF Exceeds(r) /\ OnExceed = "downgrade" THEN 0 ELSE estimate[r]
    BY <1>4 DEF Guard
  <2>5. wants'[r] => wants[r] /\ estimate'[r] = estimate[r]
    BY <2>3, <2>4, Zenon
  <2>6. OnExceed # "notify" /\ wants'[r] /\ pc'[r] = "insert" => estimate[r] <= MaxPerRun
    <3> SUFFICES ASSUME OnExceed # "notify", wants'[r], pc'[r] = "insert" PROVE estimate[r] <= MaxPerRun
      OBVIOUS
    <3>1. ~Exceeds(r)
      BY <1>4, GuardAdmits
    <3>q. QED
      BY <1>0, <3>1, MoneyAssumption DEF Exceeds
  <2>q. QED
    BY <2>1, <2>5, <2>6 DEF AdmittedInv
<1>5. CASE Prepare(r)
  <2>1. /\ enabled' = enabled /\ wants' = wants /\ estimate' = estimate
        /\ specs'[r] = IF wants[r] THEN enabled ELSE {}
        /\ pc[r] = "prepare" /\ pc'[r] \in {"fetch", "record"}
    BY <1>5 DEF Prepare
  <2>3. specs'[r] # {} => wants[r] /\ specs'[r] = enabled
    BY <2>1
  <2>4. specs'[r] # {} => Unit(r)' * Size[r] <= estimate[r]
    <3> SUFFICES ASSUME specs'[r] # {} PROVE Unit(r)' * Size[r] <= estimate[r]
      OBVIOUS
    <3>1. Unit(r)' = CallCost * Cardinality(enabled)
      BY <2>3 DEF Unit
    <3>2. CallCost * Cardinality(enabled) * Size[r] <= Price * Cardinality(enabled) * Size[r]
      BY <1>0, Covers
    <3>3. Price * Cardinality(enabled) * Size[r] <= estimate[r]
      BY <2>1, <2>3 DEF AdmittedInv
    <3>4. CallCost * Cardinality(enabled) * Size[r] \in Nat /\ Price * Cardinality(enabled) * Size[r] \in Nat
      <4>1. Cardinality(enabled) \in Nat
        BY Counts
      <4>q. QED
        BY <1>0, <4>1, MoneyAssumption, Products
    <3>q. QED
      BY <1>0, <3>1, <3>2, <3>3, <3>4
  <2>5. OnExceed # "notify" /\ wants[r] => estimate[r] <= MaxPerRun
    BY <2>1 DEF AdmittedInv
  <2>q. QED
    BY <2>1, <2>3, <2>4, <2>5 DEF AdmittedInv
<1>6. CASE Insert(r) \/ SetupRaises(r)
  BY <1>1, <1>6 DEF Insert, SetupRaises
<1>7. CASE Missing(r) \/ FetchRules(r) \/ FetchJudged(r) \/ Judge(r)
  BY <1>1, <1>7 DEF Missing, FetchRules, FetchJudged, Judge
<1>8. CASE Persist(r) \/ Improve(r) \/ SubjectRaises(r)
  BY <1>1, <1>8 DEF Persist, Improve, SubjectRaises
<1>9. CASE Record(r) \/ RecordLocked(r) \/ Finalise(r) \/ EndRaises(r)
  BY <1>1, <1>9 DEF Record, RecordLocked, Finalise, EndRaises
<1>q. QED
  BY <1>2, <1>3, <1>4, <1>5, <1>6, <1>7, <1>8, <1>9 DEF RunStep

\* No step but the upsert changes the ledger, and none of a run its estimate.
LEMMA OtherAdmission ==
    ASSUME TypeOK, NEW q \in Runs, RunStep(q)
    PROVE  /\ enabled' = enabled /\ (ledger' = ledger \/ Record(q))
           /\ (pc[q] = "idle" /\ pc'[q] \in Live) \/ pc[q] \in Live
           /\ \A r \in Runs : r # q => estimate'[r] = estimate[r]
<1> USE DEF TypeOK, Goto, NextSubject, guards, counters, Live, Opened, Loop
<1>1. CASE Begin(q) \/ Estimate(q) \/ Guard(q) \/ Insert(q) \/ SetupRaises(q) \/ Prepare(q)
  BY <1>1 DEF Begin, Estimate, Guard, Insert, SetupRaises, Prepare
<1>2. CASE Missing(q) \/ FetchRules(q) \/ FetchJudged(q) \/ Judge(q)
  BY <1>2 DEF Missing, FetchRules, FetchJudged, Judge
<1>3. CASE Persist(q) \/ Improve(q) \/ SubjectRaises(q)
  BY <1>3 DEF Persist, Improve, SubjectRaises
<1>4. CASE Record(q) \/ RecordLocked(q) \/ Finalise(q) \/ EndRaises(q)
  BY <1>4 DEF Record, RecordLocked, Finalise, EndRaises
<1>q. QED
  BY <1>1, <1>2, <1>3, <1>4 DEF RunStep

\* Summands within a bound, and none outside a set, add up to no more than the bound for
\* each element of it.
LEMMA SumBounded ==
    ASSUME NEW S, IsFiniteSet(S), NEW f, NEW L \in SUBSET S, NEW M \in Nat,
           \A x \in S : f[x] \in Int /\ f[x] <= (IF x \in L THEN M ELSE 0)
    PROVE  SumFunctionOnSet(f, S) <= Cardinality(L) * M
<1> DEFINE Good(T) == SumFunctionOnSet(f, T) <= Cardinality(T \cap L) * M
           F == {T \in SUBSET S : ~Good(T)}
<1>0. SUFFICES ASSUME F # {} PROVE FALSE
  <2>1. S \cap L = L
    OBVIOUS
  <2>q. QED
    BY <2>1
<1>1. F \in SUBSET (SUBSET S)
  OBVIOUS
<1>2. PICK T \in F : \A U \in F : Cardinality(T) <= Cardinality(U)
  <2> HIDE DEF F
  <2>q. QED
    BY <1>0, <1>1, Smallest
<1>3. T # {} /\ T \in SUBSET S
  <2>1. Good({})
    <3>1. {} \cap L = {} /\ Cardinality({}) = 0
      BY FS_EmptySet
    <3>q. QED
      BY <3>1, SumUnfolds
  <2>q. QED
    BY <2>1
<1>a. PICK x \in T : x = Least(T)
  BY <1>3, SumUnfolds
<1>4. SumFunctionOnSet(f, T) = f[x] + SumFunctionOnSet(f, T \ {x})
  BY <1>3, <1>a, SumUnfolds
<1>5. Cardinality(T \ {x}) = Cardinality(T) - 1 /\ Cardinality(T) \in Nat
  BY <1>3, FS_Subset, FS_RemoveElement, FS_CardinalityType
<1>6. Good(T \ {x})
  BY <1>2, <1>5
<1>7. SumFunctionOnSet(f, T \ {x}) \in Int /\ f[x] \in Int /\ f[x] <= (IF x \in L THEN M ELSE 0)
  <2>1. T \ {x} \in SUBSET S /\ x \in S
    BY <1>3
  <2>q. QED
    BY <2>1, SumType
<1>8. IsFiniteSet(T \cap L) /\ Cardinality(T \cap L) \in Nat
  BY <1>3, FS_Subset, FS_CardinalityType
<1>9. CASE x \in L
  <2>1. x \in T \cap L /\ (T \ {x}) \cap L = (T \cap L) \ {x}
    BY <1>9
  <2>2. PICK n \in Nat : Cardinality(T \cap L) = n + 1 /\ Cardinality((T \ {x}) \cap L) = n
    <3>1. PICK V : V = T \cap L
      OBVIOUS
    <3>2. x \in V /\ IsFiniteSet(V) /\ Cardinality(V) \in Nat
      BY <1>8, <2>1, <3>1
    <3>3. IsFiniteSet(V \ {x}) /\ Cardinality(V \ {x}) = Cardinality(V) - 1
      BY <3>2, FS_RemoveElement
    <3>4. Cardinality(V \ {x}) \in Nat
      BY <3>3, FS_CardinalityType
    <3>5. PICK n \in Nat : n = Cardinality(V \ {x})
      BY <3>4
    <3>6. Cardinality(V) = n + 1
      BY <3>2, <3>3, <3>5
    <3>7. (T \ {x}) \cap L = V \ {x}
      BY <2>1, <3>1
    <3>q. QED
      BY <3>1, <3>5, <3>6, <3>7
  <2>3. n * M \in Nat /\ (n + 1) * M = n * M + M
    BY Z3
  <2>q. QED
    BY <1>2, <1>4, <1>6, <1>7, <1>9, <2>2, <2>3
<1>10. CASE x \notin L
  <2>1. (T \ {x}) \cap L = T \cap L
    BY <1>10
  <2>2. Cardinality(T \cap L) * M \in Int
    BY <1>8, Z3
  <2>q. QED
    BY <1>2, <1>4, <1>6, <1>7, <1>10, <2>1, <2>2
<1>q. QED
  BY <1>9, <1>10

\* Reserves are amounts, and so are the sums.
LEMMA ReservesType ==
    ASSUME TypeOK, NEW p
    PROVE  /\ \A r \in Runs : Reserve(r) \in Nat /\ Reserves(p)[r] = IF Shares(r, p) THEN Reserve(r) ELSE 0
           /\ SumFunctionOnSet(Reserves(p), Runs) \in Nat
<1>1. \A r \in Runs : Reserve(r) \in Nat /\ Reserves(p)[r] = IF Shares(r, p) THEN Reserve(r) ELSE 0
  BY DEF TypeOK, Reserve, Reserves
<1>2. \A r \in Runs : Reserves(p)[r] \in Int
  BY <1>1
<1>3. SumFunctionOnSet(Reserves(p), Runs) \in Int
  BY <1>2, SumType, SetsAssumption
<1>4. PICK z : z = [r \in Runs |-> 0]
  OBVIOUS
<1>5. SumFunctionOnSet(z, Runs) <= SumFunctionOnSet(Reserves(p), Runs) + SumFunctionOnSet(z, Runs)
  <2>1. \A x \in Runs : /\ z[x] \in Int /\ Reserves(p)[x] \in Int
                        /\ z[x] <= Reserves(p)[x] + z[x]
    BY <1>1, <1>4
  <2>q. QED
    BY <2>1, SumAdd, SetsAssumption
<1>6. SumFunctionOnSet(z, Runs) = 0
  BY <1>4, SumZero, SetsAssumption
<1>q. QED
  BY <1>1, <1>3, <1>5, <1>6

\* The guard lets a judged run through to its insert.
Admits(r) == Guard(r) /\ wants'[r] /\ pc'[r] = "insert"

\* Only a run that the guard admits reserves more than before.
LEMMA ReserveStep ==
    ASSUME TypeOK, TypeOK', NEW r \in Runs, RunStep(r)
    PROVE  \/ Record(r) /\ Reserve(r)' = 0
           \/ Admits(r) /\ Reserve(r)' = estimate[r]
           \/ ~Record(r) /\ Reserve(r)' <= Reserve(r)
<1> USE DEF TypeOK, Goto, NextSubject, Admitted, Loop, guards, counters
<1>0. Reserve(r) \in Nat /\ Reserve(r)' \in Nat
  BY DEF Reserve
<1>1. ASSUME wants'[r] => wants[r], estimate'[r] = estimate[r], pc'[r] \in Admitted => pc[r] \in Admitted
      PROVE  Reserve(r)' <= Reserve(r)
  BY <1>0, <1>1 DEF Reserve
<1>2. CASE Begin(r)
  <2>1. pc' = [pc EXCEPT ![r] = IF wants'[r] THEN "estimate" ELSE "insert"]
    BY <1>2 DEF Begin
  <2>2. Reserve(r)' = 0
    BY <2>1 DEF Reserve
  <2>q. QED
    BY <1>0, <1>2, <2>2 DEF Begin, Record
<1>3. CASE Estimate(r)
  <2>1. pc'[r] = "guard" /\ pc[r] = "estimate"
    BY <1>3 DEF Estimate
  <2>q. QED
    BY <1>0, <2>1 DEF Reserve, Record
<1>4. CASE Guard(r)
  <2>1. wants' = [wants EXCEPT ![r] = @ /\ ~(Exceeds(r) /\ OnExceed = "downgrade")]
    BY <1>4 DEF Guard
  <2>2. wants'[r] = (wants[r] /\ ~(Exceeds(r) /\ OnExceed = "downgrade"))
    BY <2>1, Zenon
  <2>3. estimate'[r] = IF Exceeds(r) /\ OnExceed = "downgrade" THEN 0 ELSE estimate[r]
    BY <1>4 DEF Guard
  <2>4. wants'[r] => estimate'[r] = estimate[r]
    BY <2>2, <2>3, Zenon
  <2>5. pc'[r] \in {"refused", "insert"} /\ pc[r] = "guard"
    BY <1>4 DEF Guard
  <2>6. CASE wants'[r] /\ pc'[r] = "insert"
    BY <1>4, <2>4, <2>6 DEF Admits, Reserve
  <2>7. CASE ~(wants'[r] /\ pc'[r] = "insert")
    BY <1>0, <2>5, <2>7 DEF Reserve, Record
  <2>q. QED
    BY <2>6, <2>7
<1>5. CASE Prepare(r) \/ Insert(r) \/ SetupRaises(r)
  <2>1. ~Record(r)
    BY <1>5 DEF Prepare, Insert, SetupRaises, Record
  <2>q. QED
    BY <1>1, <1>5, <2>1 DEF Prepare, Insert, SetupRaises
<1>6. CASE Missing(r) \/ FetchRules(r) \/ FetchJudged(r) \/ Judge(r)
  <2>1. ~Record(r)
    BY <1>6 DEF Missing, FetchRules, FetchJudged, Judge, Record
  <2>q. QED
    BY <1>1, <1>6, <2>1 DEF Missing, FetchRules, FetchJudged, Judge
<1>7. CASE Persist(r) \/ Improve(r) \/ SubjectRaises(r)
  <2>1. ~Record(r)
    BY <1>7 DEF Persist, Improve, SubjectRaises, Record
  <2>q. QED
    BY <1>1, <1>7, <2>1 DEF Persist, Improve, SubjectRaises
<1>8. CASE Record(r)
  BY <1>8 DEF Record, Reserve
<1>9. CASE RecordLocked(r) \/ Finalise(r) \/ EndRaises(r)
  <2>1. Reserve(r)' <= Reserve(r)
    BY <1>1, <1>9 DEF RecordLocked, Finalise, EndRaises
  <2>q. QED
    BY <1>8, <2>1
<1>q. QED
  BY <1>2, <1>3, <1>4, <1>5, <1>6, <1>7, <1>8, <1>9 DEF RunStep

\* A run bills no more than it had reserved.
LEMMA BilledReserved ==
    ASSUME TypeOK, NEW r \in Runs, PayInv(r), SpentInv(r), AdmittedInv(r), Record(r)
    PROVE  cost[r] <= Reserve(r)
<1>1. cost[r] \in Nat /\ estimate[r] \in Nat /\ pc[r] = "record"
  BY DEF TypeOK, Record
<1>2. CASE cost[r] = 0
  BY <1>2, ReservesType
<1>3. CASE cost[r] > 0
  <2>1. specs[r] # {} /\ wants[r]
    BY <1>3 DEF PayInv
  <2>2. PICK u \in Nat : u = Unit(r) * Size[r]
    BY Units, Products
  <2>3. cost[r] <= u /\ u <= estimate[r]
    BY <2>1, <2>2 DEF SpentInv, AdmittedInv
  <2>q. QED
    BY <1>1, <2>1, <2>3 DEF Reserve, Admitted
<1>q. QED
  BY <1>1, <1>2, <1>3

\* What others may bill when a run is admitted.
LEMMA OthersReserve ==
    ASSUME OnExceed # "notify", TypeOK', NEW r \in Runs, NEW p, Cardinality(Running') <= Overlap,
           pc'[r] \in Live, \A q \in Runs : AdmittedInv(q)'
    PROVE  /\ SumFunctionOnSet(Reserves(p)', Runs) \in Int
           /\ SumFunctionOnSet(Reserves(p)', Runs) <= Reserve(r)' + (Overlap - 1) * MaxPerRun
<1> DEFINE others == Running' \ {r}
           f == [q \in Runs |-> IF q = r THEN 0 ELSE Reserves(p)'[q]]
<1>1. /\ IsFiniteSet(Runs) /\ MaxPerRun \in Nat /\ Overlap \in Nat
      /\ Running' \in SUBSET Runs /\ r \in Running' /\ others \in SUBSET Runs
  BY SetsAssumption, MoneyAssumption, BoundsAssumption DEF Running
<1>2. \A q \in Runs : Reserve(q)' \in Nat /\ Reserves(p)'[q] = IF Shares(q, p) THEN Reserve(q)' ELSE 0
  BY DEF TypeOK, Reserve, Reserves
<1>3. \A q \in Runs : f[q] \in Int /\ f[q] <= (IF q \in others THEN MaxPerRun ELSE 0)
  <2> SUFFICES ASSUME NEW q \in Runs PROVE f[q] \in Int /\ f[q] <= (IF q \in others THEN MaxPerRun ELSE 0)
    OBVIOUS
  <2>1. Reserve(q)' # 0 => q \in Running' /\ Reserve(q)' <= MaxPerRun
    BY DEF Reserve, AdmittedInv, Admitted, Running, Live, Opened
  <2>q. QED
    BY <1>1, <1>2, <2>1
<1>4. PICK n \in Nat : n = Cardinality(others) /\ n <= Overlap - 1
  <2>1. IsFiniteSet(Running') /\ Cardinality(others) = Cardinality(Running') - 1
    BY <1>1, FS_Subset, FS_RemoveElement
  <2>2. Cardinality(others) \in Nat
    BY <1>1, FS_Subset, FS_CardinalityType
  <2>3. Cardinality(Running') \in Nat
    BY <2>1, FS_CardinalityType
  <2>q. QED
    BY <1>1, <2>1, <2>2, <2>3
<1>5. SumFunctionOnSet(f, Runs) <= n * MaxPerRun
  <2> HIDE DEF f, others
  <2>q. QED
    BY <1>1, <1>3, <1>4, SumBounded
<1>6. n * MaxPerRun <= (Overlap - 1) * MaxPerRun
  <2>1. PICK k \in Nat : k = Overlap - 1 /\ n <= k
    BY <1>1, <1>4
  <2>q. QED
    BY <1>1, <2>1, Products
<1>7. SumFunctionOnSet(Reserves(p)', Runs) <= SumFunctionOnSet(f, Runs) + Reserve(r)'
  <2>1. \A x \in Runs : /\ f[x] \in Int /\ Reserves(p)'[x] \in Int
                        /\ Reserves(p)'[x] <= f[x] + (IF x = r THEN Reserve(r)' ELSE 0)
    BY <1>2, <1>3
  <2> HIDE DEF f
  <2>2. PICK g, d : g = Reserves(p)' /\ d = Reserve(r)' /\ d \in Int
    BY <1>2
  <2>3. \A x \in Runs : f[x] \in Int /\ g[x] \in Int /\ g[x] <= f[x] + (IF x = r THEN d ELSE 0)
    BY <2>1, <2>2
  <2>4. SumFunctionOnSet(g, Runs) <= SumFunctionOnSet(f, Runs) + (IF r \in Runs THEN d ELSE 0)
    BY <1>1, <2>2, <2>3, SumStep
  <2>q. QED
    BY <2>2, <2>4
<1>8. /\ SumFunctionOnSet(f, Runs) \in Int /\ SumFunctionOnSet(Reserves(p)', Runs) \in Int
      /\ n * MaxPerRun \in Int /\ (Overlap - 1) * MaxPerRun \in Int
  <2>1. \A x \in Runs : f[x] \in Int /\ Reserves(p)'[x] \in Int
    BY <1>2, <1>3
  <2>2. SumFunctionOnSet(f, Runs) \in Int /\ SumFunctionOnSet(Reserves(p)', Runs) \in Int
    <3> HIDE DEF f
    <3>q. QED
      BY <1>1, <2>1, SumType
  <2>3. n * MaxPerRun \in Int /\ (Overlap - 1) * MaxPerRun \in Int
    BY <1>1, Z3
  <2>q. QED
    BY <2>2, <2>3
<1>q. QED
  <2> HIDE DEF f
  <2>q. QED
    BY <1>2, <1>5, <1>6, <1>7, <1>8

\* What is committed of a project's month does not grow while neither the ledger nor a
\* reserve does.
LEMMA CommittedFalls ==
    ASSUME TypeOK, TypeOK', NEW p \in Projects, NEW r \in Runs, NEW d \in Int,
           ledger'[p] + ledger'[NoProject] + d <= ledger[p] + ledger[NoProject],
           Shares(r, p) => Reserve(r)' <= Reserve(r) + d,
           ~Shares(r, p) => 0 <= d,
           \A q \in Runs : q # r => Reserve(q)' <= Reserve(q)
    PROVE  Committed(p)' \in Int /\ Committed(p)' <= Committed(p)
<1>1. PICK f, g : f = Reserves(p) /\ g = Reserves(p)'
  OBVIOUS
<1>2. \A q \in Runs : /\ Reserve(q) \in Nat /\ f[q] = IF Shares(q, p) THEN Reserve(q) ELSE 0
                      /\ Reserve(q)' \in Nat /\ g[q] = IF Shares(q, p) THEN Reserve(q)' ELSE 0
  BY <1>1 DEF TypeOK, Reserve, Reserves
<1>3. \A q \in Runs : f[q] \in Int /\ g[q] \in Int /\ g[q] <= f[q] + (IF q = r THEN d ELSE 0)
  BY <1>2
<1>4. SumFunctionOnSet(g, Runs) <= SumFunctionOnSet(f, Runs) + (IF r \in Runs THEN d ELSE 0)
  BY <1>3, SumStep, SetsAssumption
<1>5. SumFunctionOnSet(f, Runs) \in Int /\ SumFunctionOnSet(g, Runs) \in Int
  BY <1>3, SumType, SetsAssumption
<1>6. /\ ledger[p] \in Nat /\ ledger[NoProject] \in Nat /\ ledger'[p] \in Nat /\ ledger'[NoProject] \in Nat
  BY SetsAssumption DEF TypeOK, Scopes
<1>7. /\ Committed(p) = ledger[p] + ledger[NoProject] + SumFunctionOnSet(f, Runs)
      /\ Committed(p)' = ledger'[p] + ledger'[NoProject] + SumFunctionOnSet(g, Runs)
  BY <1>1 DEF Committed
<1>q. QED
  BY <1>4, <1>5, <1>6, <1>7

\* What is committed are amounts.
LEMMA CommittedType ==
    ASSUME TypeOK, NEW p \in Projects
    PROVE  /\ Committed(p) \in Nat /\ Limit \in Int /\ ledger[p] \in Nat /\ ledger[NoProject] \in Nat
           /\ ledger[p] + ledger[NoProject] <= Committed(p)
<1>1. ledger[p] \in Nat /\ ledger[NoProject] \in Nat
  BY SetsAssumption DEF TypeOK, Scopes
<1>2. SumFunctionOnSet(Reserves(p), Runs) \in Nat
  BY ReservesType
<1>3. Limit \in Int
  BY MoneyAssumption, BoundsAssumption, Z3 DEF Limit
<1>q. QED
  BY <1>1, <1>2, <1>3 DEF Committed

\* A step of a run keeps the commitments within the limit.
LEMMA CommitStep ==
    ASSUME TypeOK, TypeOK', NEW r \in Runs, PayInv(r), SpentInv(r), AdmittedInv(r), RunStep(r),
           CommitInv, Cardinality(Running') <= Overlap, \A q \in Runs : AdmittedInv(q)'
    PROVE  CommitInv'
<1> SUFFICES ASSUME OnExceed # "notify", NEW p \in Projects PROVE Committed(p)' <= Limit
  BY DEF CommitInv, Limit
<1>1. Committed(p) <= Limit /\ Committed(p) \in Nat /\ Limit \in Int
  BY CommittedType DEF CommitInv
<1>3. \A q \in Runs : q # r => Reserve(q)' = Reserve(q) /\ Reserve(q) \in Nat
  <2> SUFFICES ASSUME NEW q \in Runs, q # r PROVE Reserve(q)' = Reserve(q) /\ Reserve(q) \in Nat
    OBVIOUS
  <2>1. Same(q) /\ estimate'[q] = estimate[q]
    BY OtherRun, OtherAdmission
  <2>q. QED
    BY <2>1, ReservesType DEF Same, Reserve
<1>4. Reserve(r) \in Nat /\ Reserve(r)' \in Nat
  BY DEF TypeOK, Reserve
<1>5. CASE Record(r) /\ Reserve(r)' = 0
  <2>1. PICK c \in Nat : c = cost[r] /\ c <= Reserve(r)
    BY <1>5, BilledReserved DEF TypeOK
  <2>2. /\ p \in Scopes /\ NoProject \in Scopes /\ p # NoProject /\ Project[r] \in Scopes
        /\ ledger[p] \in Nat /\ ledger[NoProject] \in Nat
    BY SetsAssumption DEF Scopes, TypeOK
  <2>3. ledger' = [ledger EXCEPT ![Project[r]] = @ + cost[r]]
    BY <1>5 DEF Record
  <2>4. /\ ledger'[p] = IF Project[r] = p THEN ledger[p] + c ELSE ledger[p]
        /\ ledger'[NoProject] = IF Project[r] = NoProject THEN ledger[NoProject] + c ELSE ledger[NoProject]
    BY <2>1, <2>2, <2>3 DEF TypeOK
  <2>5. PICK d \in Int : d = IF Shares(r, p) THEN -c ELSE 0
    BY <2>1
  <2>6. ledger'[p] + ledger'[NoProject] + d <= ledger[p] + ledger[NoProject]
    BY <2>2, <2>4, <2>5 DEF Shares
  <2>7. (Shares(r, p) => Reserve(r)' <= Reserve(r) + d) /\ (~Shares(r, p) => 0 <= d)
    BY <1>4, <1>5, <2>1, <2>5
  <2>8. Committed(p)' \in Int /\ Committed(p)' <= Committed(p)
    BY <1>3, <2>6, <2>7, CommittedFalls
  <2>q. QED
    BY <1>1, <2>8
<1>6. CASE ~Record(r) /\ (Reserve(r)' <= Reserve(r) \/ ~Shares(r, p))
  <2>1. ledger' = ledger
    BY <1>6, OtherAdmission
  <2>2. ledger'[p] + ledger'[NoProject] + 0 <= ledger[p] + ledger[NoProject]
    BY <2>1, CommittedType
  <2>3. Committed(p)' \in Int /\ Committed(p)' <= Committed(p)
    BY <1>3, <1>4, <1>6, <2>2, CommittedFalls
  <2>q. QED
    BY <1>1, <2>3
<1>7. CASE Admits(r) /\ Reserve(r)' = estimate[r] /\ Shares(r, p)
  <2>1. ~Exceeds(r) /\ pc'[r] \in Live /\ ledger' = ledger
    BY <1>7, GuardAdmits DEF Admits, Guard, Live
  <2>2. MonthlySpend(r) \in Nat /\ ledger[p] + ledger[NoProject] <= MonthlySpend(r)
    BY <1>7, SpendCovers DEF Shares
  <2>3. MonthlySpend(r) + estimate[r] <= MonthlyBudget /\ MonthlyBudget \in Nat /\ estimate[r] \in Nat
    BY <2>1, <2>2, MoneyAssumption DEF Exceeds, TypeOK
  <2>4. PICK s, m : /\ s = SumFunctionOnSet(Reserves(p)', Runs) /\ m = (Overlap - 1) * MaxPerRun
                    /\ s \in Int /\ s <= estimate[r] + m
    BY <1>7, <2>1, OthersReserve
  <2>5. m \in Int
    BY <2>4, MoneyAssumption, BoundsAssumption, Z3
  <2>7. Committed(p)' = ledger[p] + ledger[NoProject] + s
    BY <2>1, <2>4 DEF Committed
  <2>8. ledger[p] \in Nat /\ ledger[NoProject] \in Nat /\ Limit = MonthlyBudget + m
    BY <2>4, CommittedType DEF Limit
  <2>q. QED
    BY <2>2, <2>3, <2>4, <2>5, <2>7, <2>8
<1>8. Admits(r) => ~Record(r)
  BY DEF Admits, Guard, Record
<1>q. QED
  BY <1>5, <1>6, <1>7, <1>8, ReserveStep

\* A crash releases what the runs it ends had reserved.
LEMMA CommitCrash == ASSUME TypeOK, TypeOK', Crash, CommitInv PROVE CommitInv'
<1> SUFFICES ASSUME OnExceed # "notify", NEW p \in Projects PROVE Committed(p)' <= Limit
  BY DEF CommitInv, Limit
<1>1. Committed(p) <= Limit /\ Committed(p) \in Nat /\ Limit \in Int
  BY CommittedType DEF CommitInv
<1>2. PICK r \in Runs : TRUE
  BY DEF Crash
<1>3. ASSUME NEW q \in Runs PROVE Reserve(q) \in Nat /\ Reserve(q)' <= Reserve(q)
  <2>1. pc'[q] = pc[q] \/ pc'[q] = "lost"
    BY DEF Crash, TypeOK
  <2>2. wants' = wants /\ estimate' = estimate
    BY DEF Crash, guards
  <2>3. Reserve(q) \in Nat
    BY ReservesType
  <2>q. QED
    BY <2>1, <2>2, <2>3 DEF Reserve, Admitted, Loop
<1>4. ledger'[p] + ledger'[NoProject] + 0 <= ledger[p] + ledger[NoProject]
  <2>1. ledger' = ledger
    BY DEF Crash
  <2>q. QED
    BY <2>1, CommittedType
<1>5. Committed(p)' \in Int /\ Committed(p)' <= Committed(p)
  <2>1. Reserve(r)' <= Reserve(r) + 0
    BY <1>3
  <2>q. QED
    BY <1>3, <1>4, <2>1, CommittedFalls
<1>q. QED
  BY <1>1, <1>5

\* Runs that overlap as far as PacedSpec lets them keep the limits.
LEMMA LimitStep ==
    ASSUME CallCost <= Price, IInv, IInv', LimitInv, [PacedNext]_vars
    PROVE  LimitInv'
<1>0. TypeOK /\ TypeOK' /\ CommitInv /\ \A r \in Runs : RunInv(r) /\ SpentInv(r) /\ AdmittedInv(r)
  BY DEF IInv, LimitInv
<1>1. ASSUME PacedNext, NEW r \in Runs, RunStep(r) PROVE LimitInv'
  <2>1. Cardinality(Running') <= Overlap
    BY <1>1 DEF PacedNext
  <2>2. SpentInv(r)' /\ AdmittedInv(r)'
    BY <1>0, <1>1, SpentStep, AdmittedStep DEF RunInv
  <2>3. ASSUME NEW q \in Runs, q # r PROVE SpentInv(q)' /\ AdmittedInv(q)'
    <3>1. Same(q) /\ estimate'[q] = estimate[q] /\ enabled' = enabled
      BY <1>0, <1>1, <2>3, OtherRun, OtherAdmission
    <3>2. Unit(q)' = Unit(q) /\ pc'[q] = pc[q] /\ wants'[q] = wants[q] /\ specs'[q] = specs[q]
      BY <3>1 DEF Same, Unit
    <3>3. SpentInv(q)'
      BY <1>0, <3>1, <3>2 DEF SpentInv, Same
    <3>4. AdmittedInv(q)'
      BY <1>0, <3>1, <3>2 DEF AdmittedInv
    <3>q. QED
      BY <3>3, <3>4
  <2>4. CommitInv'
    BY <1>0, <1>1, <2>1, <2>2, <2>3, CommitStep DEF RunInv
  <2>q. QED
    BY <2>1, <2>2, <2>3, <2>4 DEF LimitInv
<1>2. CASE PacedNext /\ Crash
  <2>1. Cardinality(Running') <= Overlap /\ CommitInv'
    BY <1>0, <1>2, CommitCrash DEF PacedNext
  <2>2. enabled' = enabled
    BY <1>2 DEF Crash
  <2>3. ASSUME NEW r \in Runs PROVE SpentInv(r)' /\ AdmittedInv(r)'
    <3>1. pc'[r] = pc[r] \/ pc'[r] = "lost"
      BY <1>0, <1>2 DEF Crash, TypeOK
    <3>2. /\ wants' = wants /\ estimate' = estimate /\ specs' = specs /\ at' = at /\ cost' = cost
          /\ Unit(r)' = Unit(r)
      BY <1>2 DEF Crash, guards, counters, Unit
    <3>3. SpentInv(r)'
      BY <1>0, <3>1, <3>2 DEF SpentInv
    <3>4. AdmittedInv(r)'
      BY <1>0, <2>2, <3>1, <3>2 DEF AdmittedInv, Admitted, Loop
    <3>q. QED
      BY <3>3, <3>4
  <2>q. QED
    BY <2>1, <2>3 DEF LimitInv
<1>3. CASE PacedNext /\ Toggle
  <2>1. Cardinality(Running') <= Overlap
    BY <1>3 DEF PacedNext
  <2>2. /\ ledger' = ledger /\ pc' = pc /\ wants' = wants /\ estimate' = estimate
        /\ specs' = specs /\ at' = at /\ cost' = cost
    BY <1>3 DEF Toggle, guards, counters
  <2>3. ASSUME NEW r \in Runs PROVE SpentInv(r)' /\ AdmittedInv(r)'
    <3>1. Unit(r)' = Unit(r)
      BY <2>2 DEF Unit
    <3>2. SpentInv(r)'
      BY <1>0, <2>2, <3>1 DEF SpentInv
    <3>3. wants[r] /\ pc[r] \in {"guard", "insert", "prepare"} =>
              Price * Cardinality(enabled') * Size[r] <= estimate[r]
      <4> SUFFICES ASSUME wants[r], pc[r] \in {"guard", "insert", "prepare"}
                   PROVE  Price * Cardinality(enabled') * Size[r] <= estimate[r]
        OBVIOUS
      <4>1. enabled' \in SUBSET enabled /\ enabled \in SUBSET Models
        BY <1>0, <1>3 DEF PacedNext, Running, Live, Opened, TypeOK
      <4>2. Size[r] \in Nat /\ estimate[r] \in Nat
        BY <1>0, Units DEF TypeOK
      <4>3. Price * Cardinality(enabled') * Size[r] <= Price * Cardinality(enabled) * Size[r]
        BY <4>1, <4>2, Covers
      <4>4. Price * Cardinality(enabled) * Size[r] <= estimate[r]
        BY <1>0 DEF AdmittedInv
      <4>5. Cardinality(enabled') \in Nat /\ Cardinality(enabled) \in Nat
        BY <4>1, Counts
      <4>6. /\ Price * Cardinality(enabled') * Size[r] \in Nat
            /\ Price * Cardinality(enabled) * Size[r] \in Nat
        BY <4>2, <4>5, MoneyAssumption, Products
      <4>q. QED
        BY <4>2, <4>3, <4>4, <4>6
    <3>4. AdmittedInv(r)'
      BY <1>0, <2>2, <3>1, <3>3 DEF AdmittedInv
    <3>q. QED
      BY <3>2, <3>4
  <2>4. CommitInv'
    BY <1>0, <2>2 DEF CommitInv, Limit, Committed, Reserves, Reserve, Shares
  <2>q. QED
    BY <2>1, <2>3, <2>4 DEF LimitInv
<1>4. CASE UNCHANGED vars
  <2>1. /\ ledger' = ledger /\ pc' = pc /\ wants' = wants /\ estimate' = estimate /\ enabled' = enabled
        /\ specs' = specs /\ at' = at /\ cost' = cost
    BY <1>4 DEF vars, guards, counters
  <2>2. CommitInv' /\ Running' = Running
    BY <1>0, <2>1 DEF CommitInv, Limit, Committed, Reserves, Reserve, Shares, Running
  <2>3. \A r \in Runs : SpentInv(r)' /\ AdmittedInv(r)'
    BY <1>0, <2>1 DEF SpentInv, AdmittedInv, Unit
  <2>q. QED
    BY <2>2, <2>3 DEF LimitInv
<1>q. QED
  BY <1>1, <1>2, <1>3, <1>4 DEF PacedNext, Next

\* The limits hold at first.
LEMMA LimitStart == Init => LimitInv
<1> SUFFICES ASSUME Init PROVE LimitInv
  OBVIOUS
<1>1. Cardinality(Running) <= Overlap
  <2>1. Running = {}
    BY DEF Init, Running, Live, Opened, Loop
  <2>q. QED
    BY <2>1, FS_EmptySet, BoundsAssumption
<1>2. CommitInv
  <2> SUFFICES ASSUME NEW p \in Projects PROVE Committed(p) <= Limit
    BY DEF CommitInv
  <2>1. ledger[p] = 0 /\ ledger[NoProject] = 0
    BY DEF Init, Scopes
  <2>2. SumFunctionOnSet(Reserves(p), Runs) = 0
    <3>1. PICK f : f = Reserves(p)
      OBVIOUS
    <3>2. \A r \in Runs : f[r] = 0
      BY <3>1 DEF Init, Reserves, Reserve
    <3>q. QED
      BY <3>1, <3>2, SumZero, SetsAssumption
  <2>3. Limit \in Nat
    <3>1. PICK k \in Nat : k = Overlap - 1
      BY BoundsAssumption
    <3>2. k * MaxPerRun \in Nat
      BY MoneyAssumption, Products
    <3>q. QED
      BY <3>1, <3>2, MoneyAssumption DEF Limit
  <2>q. QED
    BY <2>1, <2>2, <2>3 DEF Committed
<1>3. ASSUME NEW r \in Runs PROVE SpentInv(r) /\ AdmittedInv(r)
  <2>1. pc[r] = "idle" /\ specs[r] = {} /\ cost[r] = 0
    BY DEF Init
  <2>2. Unit(r) * Size[r] \in Nat
    BY TypeInit, Units, Products
  <2>q. QED
    BY <2>1, <2>2 DEF SpentInv, AdmittedInv, Admitted, Loop
<1>q. QED
  BY <1>1, <1>2, <1>3 DEF LimitInv

\* Up to Overlap runs at a time, whose judge calls cost no more than estimated, overrun
\* the monthly budget by at most the cap per run for each but one of them, and none its
\* own cap: one after another they stay within the budget.
THEOREM LimitsHold == CallCost <= Price => (PacedSpec => []WithinLimits)
<1> SUFFICES ASSUME CallCost <= Price PROVE PacedSpec => []WithinLimits
  OBVIOUS
<1>1. IInv /\ IInv' /\ LimitInv /\ [PacedNext]_vars => LimitInv'
  BY LimitStep
<1>2. IInv /\ LimitInv => WithinLimits
  <2> SUFFICES ASSUME IInv, LimitInv, OnExceed # "notify"
               PROVE  /\ \A p \in Projects :
                            ledger[p] + ledger[NoProject] <= MonthlyBudget + (Overlap - 1) * MaxPerRun
                      /\ \A r \in Runs : cost[r] <= MaxPerRun
    BY DEF WithinLimits
  <2>1. ASSUME NEW p \in Projects
        PROVE  ledger[p] + ledger[NoProject] <= MonthlyBudget + (Overlap - 1) * MaxPerRun
    <3>1. Committed(p) <= Limit /\ TypeOK
      BY DEF LimitInv, CommitInv, IInv
    <3>2. ledger[p] + ledger[NoProject] <= Limit
      BY <3>1, CommittedType
    <3>q. QED
      BY <3>2 DEF Limit
  <2>2. ASSUME NEW r \in Runs PROVE cost[r] <= MaxPerRun
    <3>1. TypeOK /\ PayInv(r) /\ SpentInv(r) /\ AdmittedInv(r)
      BY DEF IInv, RunInv, LimitInv
    <3>2. cost[r] \in Nat /\ estimate[r] \in Nat /\ MaxPerRun \in Nat
      BY <3>1, MoneyAssumption DEF TypeOK
    <3>3. PICK u \in Nat : u = Unit(r) * Size[r]
      BY <3>1, Units, Products
    <3>4. cost[r] > 0 => cost[r] <= u /\ u <= estimate[r] /\ estimate[r] <= MaxPerRun
      BY <3>1, <3>3 DEF PayInv, SpentInv, AdmittedInv
    <3>q. QED
      BY <3>2, <3>4
  <2>q. QED
    BY <2>1, <2>2
<1>3. [PacedNext]_vars => [Next]_vars
  BY DEF PacedNext
<1>q. QED
  BY <1>1, <1>2, <1>3, LimitStart, Inductive, PTL DEF Spec, PacedSpec
===============================================================================
