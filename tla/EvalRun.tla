------------------------------- MODULE EvalRun -------------------------------
(***************************************************************************)
(* Evaluation runs that execute concurrently for one profile, and the      *)
(* spend ledger they share: the cost guard before a run, the loop over its *)
(* subjects, the daily roll-up after it                                    *)
(* (easyobs/eval/services/runs.py, cost.py, judge_models.py).              *)
(*                                                                         *)
(* Every run is a coroutine.  An action is what it does up to its next     *)
(* await: one database transaction or one judge panel.  Dollars are small  *)
(* integers.  The roll-up rows of the month are one amount per project.    *)
(***************************************************************************)
EXTENDS Integers, FiniteSets, FiniteSetsExt, Functions

CONSTANTS Runs,          \* calls of RunService.execute
          JudgedRuns,    \* those of a lane that may use judges
          Models,        \* judge models the profile references
          Projects, NoProject,
          Project,       \* [Runs -> Projects \cup {NoProject}]
          Size,          \* [Runs -> Nat], len(trace_ids)
          Price,         \* estimate_judge_cost for one model, one subject
          CallCost,      \* most that one judge call costs
          OnExceed,      \* cost_guard.on_exceed
          MaxPerRun, MaxPerSubject, MonthlyBudget,
          MaxAttempts,   \* attempts at the ledger upsert (8 in the code)
          MaxFaults,     \* bound: database calls that raise
          MaxCrashes,    \* bound: process restarts
          MaxToggles,    \* bound: judge models enabled or disabled
          Overlap        \* bound: runs at a time, in PacedSpec

Scopes == Projects \cup {NoProject}

ASSUME SetsAssumption ==
    /\ IsFiniteSet(Runs) /\ JudgedRuns \subseteq Runs
    /\ IsFiniteSet(Models) /\ IsFiniteSet(Scopes) /\ NoProject \notin Projects
    /\ Project \in [Runs -> Scopes] /\ Size \in [Runs -> Nat]
ASSUME MoneyAssumption ==
    /\ {Price, CallCost, MaxPerRun, MaxPerSubject, MonthlyBudget} \subseteq Nat
    /\ OnExceed \in {"block", "downgrade", "notify"}
ASSUME BoundsAssumption ==
    /\ MaxAttempts \in Nat \ {0}
    /\ {MaxFaults, MaxCrashes, MaxToggles} \subseteq Nat
    /\ Overlap \in Nat \ {0}

VARIABLES
    enabled,    \* eval_judge_model rows with enabled = true
    ledger,     \* eval_cost_daily.judge_cost_usd of the month, per project
    row,        \* the eval_run row of each run
    results,    \* subjects with an eval_result row
    pc,         \* where execute awaits
    wants,      \* wants_judges
    estimate,   \* cost_estimate
    note,       \* guard_note: what the guard said
    specs,      \* judge_specs
    at,         \* position in trace_ids
    completed, failed, errors, passed, cost,    \* the counters of execute
    verdict,    \* final_verdict of the subject in hand
    tries,      \* attempts of CostService.record that found the database locked
    faults, crashes, toggles

guards   == <<wants, estimate, note, specs>>
counters == <<completed, failed, errors, passed, cost>>
bounds   == <<faults, crashes, toggles>>
vars     == <<enabled, ledger, row, results, pc, guards, at, counters, verdict, tries, bounds>>

Loop   == {"fetch", "judge", "persist", "improve"}
Opened == {"prepare", "record", "finalise"} \cup Loop     \* the row says running
Live   == {"estimate", "guard", "insert"} \cup Opened
Over   == {"done", "refused", "raised", "lost"}
Verdicts == {"pass", "soft", "error"}       \* soft: warn or fail

NoRow == [status |-> "none", completed |-> 0, failed |-> 0, estimate |-> 0, cost |-> 0]
Rows  == [status : {"none", "running", "completed"}, completed : Nat, failed : Nat,
          estimate : Nat, cost : Nat]

Init ==
    /\ enabled \in SUBSET Models
    /\ ledger = [p \in Scopes |-> 0]
    /\ row = [r \in Runs |-> NoRow]
    /\ results = [r \in Runs |-> {}]
    /\ pc = [r \in Runs |-> "idle"]
    /\ wants = [r \in Runs |-> FALSE]
    /\ estimate = [r \in Runs |-> 0]
    /\ note = [r \in Runs |-> "none"]
    /\ specs = [r \in Runs |-> {}]
    /\ at = [r \in Runs |-> 1]
    /\ completed = [r \in Runs |-> 0] /\ failed = [r \in Runs |-> 0]
    /\ errors = [r \in Runs |-> 0] /\ passed = [r \in Runs |-> 0]
    /\ cost = [r \in Runs |-> 0]
    /\ verdict = [r \in Runs |-> "pass"]
    /\ tries = [r \in Runs |-> 0]
    /\ faults = 0 /\ crashes = 0 /\ toggles = 0

Goto(r, l) == pc' = [pc EXCEPT ![r] = l]
Fault == faults < MaxFaults /\ faults' = faults + 1 /\ UNCHANGED <<crashes, toggles>>
-------------------------------------------------------------------------------
(* Before the row exists: the cost guard.                                  *)

\* Rule lanes, and profiles without judge models, skip the guard.
Begin(r) ==
    /\ pc[r] = "idle"
    /\ wants' = [wants EXCEPT ![r] = r \in JudgedRuns /\ Models # {}]
    /\ Goto(r, IF wants'[r] THEN "estimate" ELSE "insert")
    /\ UNCHANGED <<enabled, ledger, row, results, estimate, note, specs, at, counters,
                   verdict, tries, bounds>>

\* Mutant: the estimate of one subject is taken for the run.
Estimate_OneSubject(r) ==
    /\ pc[r] = "estimate"
    /\ estimate' = [estimate EXCEPT ![r] = Price * Cardinality(enabled)]
    /\ Goto(r, "guard")
    /\ UNCHANGED <<enabled, ledger, row, results, wants, note, specs, at, counters,
                   verdict, tries, bounds>>

\* resolve_specs drops the disabled models; the estimate is over the others.
Estimate(r) ==
    /\ pc[r] = "estimate"
    /\ estimate' = [estimate EXCEPT ![r] = Price * Cardinality(enabled) * Size[r]]
    /\ Goto(r, "guard")
    /\ UNCHANGED <<enabled, ledger, row, results, wants, note, specs, at, counters,
                   verdict, tries, bounds>>

\* monthly_spend: rows of the run's project and rows without one, or all rows.
MonthlySpend(r) ==
    IF Project[r] = NoProject
    THEN SumFunctionOnSet(ledger, Scopes)
    ELSE ledger[Project[r]] + ledger[NoProject]

\* Mutant: the month so far is left out of the decision.
Exceeds_NoMonth(r) ==
    \/ estimate[r] > MaxPerRun
    \/ estimate[r] > MaxPerSubject * Max({Size[r], 1})

Exceeds(r) ==
    \/ estimate[r] > MaxPerRun
    \/ estimate[r] > MaxPerSubject * Max({Size[r], 1})
    \/ MonthlySpend(r) + estimate[r] > MonthlyBudget

GuardNote(r) ==
    IF ~Exceeds(r) THEN "none" ELSE IF OnExceed = "downgrade" THEN "downgraded" ELSE "warning"

\* Mutant: a downgraded run keeps its judges.
Guard_DowngradeKeeps(r) ==
    /\ pc[r] = "guard"
    /\ estimate' = [estimate EXCEPT ![r] = IF Exceeds(r) /\ OnExceed = "downgrade"
                                           THEN 0 ELSE @]
    /\ note' = [note EXCEPT ![r] = GuardNote(r)]
    /\ Goto(r, IF Exceeds(r) /\ OnExceed = "block" THEN "refused" ELSE "insert")
    /\ UNCHANGED <<enabled, ledger, row, results, wants, specs, at, counters, verdict,
                   tries, bounds>>

\* CostGuard.decide: block refuses, downgrade drops the judges, notify goes on.
Guard(r) ==
    /\ pc[r] = "guard"
    /\ LET downgrade == Exceeds(r) /\ OnExceed = "downgrade"
       IN /\ wants' = [wants EXCEPT ![r] = @ /\ ~downgrade]
          /\ estimate' = [estimate EXCEPT ![r] = IF downgrade THEN 0 ELSE @]
    /\ note' = [note EXCEPT ![r] = GuardNote(r)]
    /\ Goto(r, IF Exceeds(r) /\ OnExceed = "block" THEN "refused" ELSE "insert")
    /\ UNCHANGED <<enabled, ledger, row, results, specs, at, counters, verdict, tries,
                   bounds>>

Insert(r) ==
    /\ pc[r] = "insert"
    /\ row' = [row EXCEPT ![r] = [status |-> "running", completed |-> 0, failed |-> 0,
                                  estimate |-> estimate[r], cost |-> 0]]
    /\ Goto(r, "prepare")
    /\ UNCHANGED <<enabled, ledger, results, guards, at, counters, verdict, tries, bounds>>

\* A database call before the loop raises: the caller sees it, nothing undoes
\* what is committed.
SetupRaises(r) ==
    /\ pc[r] \in {"estimate", "guard", "insert", "prepare"}
    /\ Goto(r, "raised")
    /\ Fault
    /\ UNCHANGED <<enabled, ledger, row, results, guards, at, counters, verdict, tries>>
-------------------------------------------------------------------------------
(* The loop over the subjects.                                             *)

NextSubject(r) ==
    /\ at' = [at EXCEPT ![r] = @ + 1]
    /\ Goto(r, IF at[r] < Size[r] THEN "fetch" ELSE "record")

\* Labels, golden items and prompts are read; the models are resolved again.
Prepare(r) ==
    /\ pc[r] = "prepare"
    /\ specs' = [specs EXCEPT ![r] = IF wants[r] THEN enabled ELSE {}]
    /\ Goto(r, IF Size[r] > 0 THEN "fetch" ELSE "record")
    /\ UNCHANGED <<enabled, ledger, row, results, wants, estimate, note, at, counters,
                   verdict, tries, bounds>>

\* Mutant: a subject whose judges all failed is also scored.
Count_ErrorScored(r, v) ==
    /\ verdict' = [verdict EXCEPT ![r] = v]
    /\ errors' = [errors EXCEPT ![r] = @ + (IF v = "error" THEN 1 ELSE 0)]
    /\ completed' = [completed EXCEPT ![r] = @ + 1]
    /\ passed' = [passed EXCEPT ![r] = @ + (IF v = "pass" THEN 1 ELSE 0)]

\* The verdict is counted before the result row is written.
Count(r, v) ==
    /\ verdict' = [verdict EXCEPT ![r] = v]
    /\ errors' = [errors EXCEPT ![r] = @ + (IF v = "error" THEN 1 ELSE 0)]
    /\ completed' = [completed EXCEPT ![r] = @ + (IF v = "error" THEN 0 ELSE 1)]
    /\ passed' = [passed EXCEPT ![r] = @ + (IF v = "pass" THEN 1 ELSE 0)]

\* The trace is not there, or reading it or building its context raises.
Missing(r) ==
    /\ pc[r] = "fetch"
    /\ failed' = [failed EXCEPT ![r] = @ + 1]
    /\ NextSubject(r)
    /\ UNCHANGED <<enabled, ledger, row, results, guards, completed, errors, passed, cost,
                   verdict, tries, bounds>>

\* Without judges the rule layer's verdict follows in the same step.
FetchRules(r) ==
    /\ pc[r] = "fetch" /\ specs[r] = {}
    /\ \E v \in {"pass", "soft"} : Count(r, v)
    /\ Goto(r, "persist")
    /\ UNCHANGED <<enabled, ledger, row, results, guards, at, failed, cost, tries, bounds>>

FetchJudged(r) ==
    /\ pc[r] = "fetch" /\ specs[r] # {}
    /\ Goto(r, "judge")
    /\ UNCHANGED <<enabled, ledger, row, results, guards, at, counters, verdict, tries,
                   bounds>>

\* run_judges never raises; only calls that answered cost anything, so a panel
\* that failed as a whole is free.
Judge(r) ==
    /\ pc[r] = "judge"
    /\ \E v \in Verdicts, c \in 0..(CallCost * Cardinality(specs[r])) :
          /\ v = "error" => c = 0
          /\ Count(r, v)
          /\ cost' = [cost EXCEPT ![r] = @ + c]
    /\ Goto(r, "persist")
    /\ UNCHANGED <<enabled, ledger, row, results, guards, at, failed, tries, bounds>>

\* Mutant: the row shows the progress of the loop.
Persist_ShowsProgress(r) ==
    /\ pc[r] = "persist"
    /\ results' = [results EXCEPT ![r] = @ \cup {at[r]}]
    /\ row' = [row EXCEPT ![r].completed = completed[r]]
    /\ IF verdict[r] = "soft" THEN Goto(r, "improve") /\ UNCHANGED at ELSE NextSubject(r)
    /\ UNCHANGED <<enabled, ledger, guards, counters, verdict, tries, bounds>>

\* An improvement pack follows only a result that neither passed nor failed to
\* be judged.
Persist(r) ==
    /\ pc[r] = "persist"
    /\ results' = [results EXCEPT ![r] = @ \cup {at[r]}]
    /\ IF verdict[r] = "soft" THEN Goto(r, "improve") /\ UNCHANGED at ELSE NextSubject(r)
    /\ UNCHANGED <<enabled, ledger, row, guards, counters, verdict, tries, bounds>>

Improve(r) ==
    /\ pc[r] = "improve"
    /\ NextSubject(r)
    /\ UNCHANGED <<enabled, ledger, row, results, guards, counters, verdict, tries, bounds>>

\* Mutant: an exception is logged and not counted.
SubjectRaises_Uncounted(r) ==
    /\ pc[r] \in {"persist", "improve"}
    /\ NextSubject(r)
    /\ Fault
    /\ UNCHANGED <<enabled, ledger, row, results, guards, counters, verdict, tries>>

\* The except clause counts the subject as failed, whatever was counted for it
\* before.
SubjectRaises(r) ==
    /\ pc[r] \in {"persist", "improve"}
    /\ failed' = [failed EXCEPT ![r] = @ + 1]
    /\ NextSubject(r)
    /\ Fault
    /\ UNCHANGED <<enabled, ledger, row, results, guards, completed, errors, passed, cost,
                   verdict, tries>>
-------------------------------------------------------------------------------
(* After the loop: CostService.record, _finalise_run.                      *)

\* Mutant: the roll-up row is overwritten instead of incremented.
Record_Overwrites(r) ==
    /\ pc[r] = "record"
    /\ ledger' = [ledger EXCEPT ![Project[r]] = cost[r]]
    /\ Goto(r, "finalise")
    /\ UNCHANGED <<enabled, row, results, guards, at, counters, verdict, tries, bounds>>

\* An atomic upsert; a run with nothing to record returns at once, which adds
\* nothing either.
Record(r) ==
    /\ pc[r] = "record"
    /\ ledger' = [ledger EXCEPT ![Project[r]] = @ + cost[r]]
    /\ Goto(r, "finalise")
    /\ UNCHANGED <<enabled, row, results, guards, at, counters, verdict, tries, bounds>>

\* The database is locked: wait and try again, except after the last attempt.
RecordLocked(r) ==
    /\ pc[r] = "record" /\ (cost[r] > 0 \/ completed[r] > 0 \/ specs[r] # {})
    /\ tries' = [tries EXCEPT ![r] = @ + 1]
    /\ Goto(r, IF tries[r] < MaxAttempts - 1 THEN "record" ELSE "raised")
    /\ UNCHANGED <<enabled, ledger, row, results, guards, at, counters, verdict, bounds>>

Summary(r) == [status |-> "completed", completed |-> completed[r],
               failed |-> failed[r] + errors[r], estimate |-> row[r].estimate,
               cost |-> cost[r]]

\* Mutant: a run in which nothing could be evaluated is not finalised.
Finalise_NeedsCompleted(r) ==
    /\ pc[r] = "finalise" /\ completed[r] > 0
    /\ row' = [row EXCEPT ![r] = Summary(r)]
    /\ Goto(r, "done")
    /\ UNCHANGED <<enabled, ledger, results, guards, at, counters, verdict, tries, bounds>>

Finalise(r) ==
    /\ pc[r] = "finalise"
    /\ row' = [row EXCEPT ![r] = Summary(r)]
    /\ Goto(r, "done")
    /\ UNCHANGED <<enabled, ledger, results, guards, at, counters, verdict, tries, bounds>>

\* The ledger (for another reason than a lock) or the row cannot be written.
EndRaises(r) ==
    /\ pc[r] \in {"record", "finalise"}
    /\ Goto(r, "raised")
    /\ Fault
    /\ UNCHANGED <<enabled, ledger, row, results, guards, at, counters, verdict, tries>>
-------------------------------------------------------------------------------
(* The surroundings.                                                       *)

\* A process dies with the runs it hosts; nothing picks them up at startup.
Crash ==
    /\ crashes < MaxCrashes
    /\ crashes' = crashes + 1
    /\ \E gone \in SUBSET {r \in Runs : pc[r] \in Live} :
          /\ gone # {}
          /\ pc' = [r \in Runs |-> IF r \in gone THEN "lost" ELSE pc[r]]
    /\ UNCHANGED <<enabled, ledger, row, results, guards, at, counters, verdict, tries,
                   faults, toggles>>

\* An administrator enables, disables or deletes a judge model.
Toggle ==
    /\ toggles < MaxToggles
    /\ toggles' = toggles + 1
    /\ \E m \in Models : enabled' = IF m \in enabled THEN enabled \ {m} ELSE enabled \cup {m}
    /\ UNCHANGED <<ledger, row, results, pc, guards, at, counters, verdict, tries,
                   faults, crashes>>

RunStep(r) ==
    \/ Begin(r) \/ Estimate(r) \/ Guard(r) \/ Insert(r) \/ SetupRaises(r)
    \/ Prepare(r) \/ Missing(r) \/ FetchRules(r) \/ FetchJudged(r) \/ Judge(r)
    \/ Persist(r) \/ Improve(r) \/ SubjectRaises(r)
    \/ Record(r) \/ RecordLocked(r) \/ Finalise(r) \/ EndRaises(r)

Next == (\E r \in Runs : RunStep(r)) \/ Crash \/ Toggle

Spec == Init /\ [][Next]_vars

\* The event loop resumes every run whose call has answered, and every database
\* and judge call answers or times out.
Fairness == \A r \in Runs : WF_vars(pc[r] # "idle" /\ RunStep(r))

FairSpec == Spec /\ Fairness

\* Callers that have up to Overlap runs under way, and an administrator who enables no
\* model while there are any.
Running == {r \in Runs : pc[r] \in Live}
PacedNext ==
    /\ Next /\ Cardinality(Running') <= Overlap
    /\ Running # {} => enabled' \subseteq enabled
PacedSpec == Init /\ [][PacedNext]_vars /\ Fairness
-------------------------------------------------------------------------------
(* Properties.                                                             *)

TypeOK ==
    /\ enabled \in SUBSET Models
    /\ ledger \in [Scopes -> Nat]
    /\ row \in [Runs -> Rows]
    /\ results \in [Runs -> SUBSET (Nat \ {0})]
    /\ pc \in [Runs -> {"idle"} \cup Live \cup Over]
    /\ wants \in [Runs -> BOOLEAN]
    /\ note \in [Runs -> {"none", "downgraded", "warning"}]
    /\ estimate \in [Runs -> Nat] /\ cost \in [Runs -> Nat]
    /\ specs \in [Runs -> SUBSET Models]
    /\ at \in [Runs -> Nat \ {0}]
    /\ completed \in [Runs -> Nat] /\ failed \in [Runs -> Nat]
    /\ errors \in [Runs -> Nat] /\ passed \in [Runs -> Nat]
    /\ verdict \in [Runs -> Verdicts]
    /\ tries \in [Runs -> Nat]
    /\ faults \in Nat /\ crashes \in Nat /\ toggles \in Nat

\* A completed run accounts for every subject it was given: the subject has a
\* result row or is in the failed count, whatever raised on the way (the except
\* clause of the subject loop).
NobodyDropped ==
    \A r \in Runs : row[r].status = "completed" =>
        Size[r] <= Cardinality(results[r]) + row[r].failed

\* The pass rate is over evaluated subjects only: no subject is counted both as
\* evaluated and as a judge error, and the passes are among the evaluated.
PassRateOverEvaluated ==
    \A r \in Runs : row[r].status = "completed" =>
        /\ completed[r] + errors[r] <= Size[r]
        /\ passed[r] <= row[r].completed

\* The figures of a completed run add up: nobody dropped and nobody counted twice
\* in what its pass rate is over.
FiguresAddUp == NobodyDropped /\ PassRateOverEvaluated

\* Judges are called, and billed, only for a run of a judge lane that the cost
\* guard admitted with its judges: rule lanes and downgraded runs are free, even
\* if models are enabled after the decision.
OnlyAdmittedPay ==
    \A r \in Runs : cost[r] > 0 => r \in JudgedRuns /\ note[r] # "downgraded"

RunsOf(p) == {r \in Runs : Project[r] = p}
Reported(p) == SumFunctionOnSet([r \in Runs |-> row[r].cost], RunsOf(p))
Unreported(p) ==
    SumFunctionOnSet([r \in Runs |-> IF row[r].status = "completed" THEN 0 ELSE cost[r]],
                     RunsOf(p))

\* The ledger the guard reads loses no spend and bills none twice, however the
\* runs overlap: it holds what completed runs report, and nothing beyond what
\* unfinished ones have spent (the upsert of CostService.record).
BooksAgree ==
    \A p \in Scopes :
        /\ ledger[p] >= Reported(p)
        /\ ledger[p] <= Reported(p) + Unreported(p)

\* With on_exceed = block or downgrade, what the runs of a project bill in a
\* month stays within the monthly budget.
WithinMonthlyBudget ==
    OnExceed # "notify" =>
        \A p \in Projects : ledger[p] + ledger[NoProject] <= MonthlyBudget

\* With judge calls no dearer than estimated, up to Overlap runs at a time (PacedSpec)
\* overrun the monthly budget by at most the cap per run for each but one of them, so
\* runs one after another not at all; and none spends more than that cap it was compared
\* with, however many subjects and models it has.
WithinLimits ==
    OnExceed # "notify" =>
        /\ \A p \in Projects :
              ledger[p] + ledger[NoProject] <= MonthlyBudget + (Overlap - 1) * MaxPerRun
        /\ \A r \in Runs : cost[r] <= MaxPerRun

\* Each run's row keeps what RunLifecycle promises: no counts before the run
\* completes, no more verdicts than subjects, and no change once the coroutine
\* has returned, raised or died, whatever the other runs do.
Lifecycle == INSTANCE RunLifecycle WITH
    Phases <- <<"running">>,
    status <- [r \in Runs |-> row[r].status],
    counts <- [r \in Runs |-> [completed |-> row[r].completed, failed |-> row[r].failed]],
    owned  <- {r \in Runs : pc[r] \in Opened}

KeepsLifecycle == Lifecycle!Spec

\* A run that opened its row completes it, unless a call outside the subject
\* loop raised or its process died: one missing trace, failing panel, failing
\* result or improvement does not stop the run.
RunEnds ==
    \A r \in Runs : row[r].status = "running" ~>
        (row[r].status = "completed" \/ pc[r] \in {"raised", "lost"})
===============================================================================
