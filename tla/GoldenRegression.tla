--------------------------- MODULE GoldenRegression ---------------------------
(***************************************************************************)
(* One regression run of a golden set: the launcher, the background        *)
(* worker, the agent calls it gathers under a semaphore, the ingest hook   *)
(* that correlates traces, the cancel endpoint, and the process that hosts *)
(* them all on one event loop                                              *)
(* (easyobs/eval/services/golden_regression.py).                           *)
(*                                                                         *)
(* Every await is an interleaving point: an action is one database         *)
(* transaction (or one network call) with the local code up to the next    *)
(* await.  A process crash loses the memory of the process and keeps the   *)
(* rows.                                                                   *)
(***************************************************************************)
EXTENDS Integers, FiniteSets

CONSTANTS Items,          \* the golden items selected for the run
          Clients,        \* callers of the cancel endpoint, one call each
          MaxConcurrent,  \* agent_settings.max_concurrent
          MaxFaults,      \* bound: database calls that raise
          MaxCrashes      \* bound: process restarts

ASSUME ItemsAssumption == IsFiniteSet(Items) /\ Items # {}
ASSUME BoundsAssumption ==
    /\ MaxConcurrent \in Nat \ {0}
    /\ MaxFaults \in Nat
    /\ MaxCrashes \in Nat

VARIABLES
    status,     \* eval_run.status of the run ("none": no row yet)
    summary,    \* eval_run.completed_count, .failed_count of the run
    invoke,     \* eval_golden_run_trace_map.invoke_status, per item
    inner,      \* the eval_run row that RunService.execute writes
    launch,     \* progress of the launching request
    flag,       \* _cancel_flags[run_id]
    pc,         \* where the worker task awaits
    cancelReq,  \* task.cancel() was called and CancelledError not yet raised
    child,      \* where each gathered _one(item) awaits
    reply,      \* results[item]: what the agent call gave
    expired,    \* the collect deadline has passed
    stale,      \* rows read by _timeout_pending_invocations, not yet written
    subjects,   \* rows whose trace ids are handed to the evaluation
    left,       \* subjects that execute has not gone through yet
    tally,      \* execute's local counters completed, failed
    sent,       \* items whose agent call was placed
    landing,    \* correlation hooks that read a row and have not written it
    client,     \* progress of each cancel request
    faults, crashes

rows    == <<status, summary, invoke, inner>>
task    == <<pc, cancelReq>>
locals  == <<reply, expired, stale, subjects, left, tally>>
bounds  == <<faults, crashes>>
vars    == <<rows, launch, flag, task, child, locals, sent, landing, client, bounds>>

Terminal == {"completed", "failed", "cancelled"}
Pending  == {"pending", "invoked"}
Active   == {"marking", "calling", "recording"}     \* holds the semaphore
Handlers == {"cancelWrite", "failWrite"}            \* inside an except clause
Live     == {"scheduled", "load", "gather", "collecting", "shortcut", "poll",
             "expireRead", "expireWrite", "collect", "evaluating",
             "finaliseEmpty", "execStart", "exec", "copy", "refresh",
             "markCancelled"} \cup Handlers

Statuses == {"none", "queued", "invoking", "collecting", "evaluating"} \cup Terminal
InvokeStatuses == {"none", "collected", "timeout", "error"} \cup Pending
Counts == [completed : Nat, failed : Nat]
Zero   == [completed |-> 0, failed |-> 0]

\* What one subject adds to execute's counters: evaluated; not found, raised or
\* verdict "error"; and either of these counted once more as failed because
\* persisting the result raised.
Outcomes == {[completed |-> 1, failed |-> 0], [completed |-> 0, failed |-> 1],
             [completed |-> 1, failed |-> 1], [completed |-> 0, failed |-> 2]}

Holding  == {i \in Items : child[i] \in Active}
Unsettled == {i \in Items : invoke[i] \in Pending}
Collected == {i \in Items : invoke[i] = "collected"}

Init ==
    /\ status = "none" /\ summary = Zero
    /\ invoke = [i \in Items |-> "none"]
    /\ inner = [status |-> "none", counts |-> Zero]
    /\ launch = "idle" /\ flag = FALSE
    /\ pc = "none" /\ cancelReq = FALSE
    /\ child = [i \in Items |-> "none"]
    /\ reply = [i \in Items |-> "none"]
    /\ expired = FALSE /\ stale = {} /\ subjects = {} /\ left = {} /\ tally = Zero
    /\ sent = {} /\ landing = {}
    /\ client = [c \in Clients |-> "idle"]
    /\ faults = 0 /\ crashes = 0
-------------------------------------------------------------------------------
(* The launcher: start_regression_run.                                     *)

\* The run row and one trace-map row per item, in one transaction.
StartCommit ==
    /\ launch = "idle"
    /\ launch' = "committed"
    /\ status' = "queued"
    /\ invoke' = [i \in Items |-> "pending"]
    /\ UNCHANGED <<summary, inner, flag, task, child, locals, sent, landing, client, bounds>>

\* Reset the flag, create the task.
StartSpawn ==
    /\ launch = "committed"
    /\ launch' = "spawned"
    /\ flag' = FALSE
    /\ pc' = "scheduled"
    /\ UNCHANGED <<rows, cancelReq, child, locals, sent, landing, client, bounds>>
-------------------------------------------------------------------------------
(* cancel_regression_run.                                                  *)

CancelRead(c) ==
    /\ client[c] = "idle"
    /\ status # "none"
    /\ client' = [client EXCEPT ![c] = IF status \in Terminal THEN "refused" ELSE "checked"]
    /\ UNCHANGED <<rows, launch, flag, task, child, locals, sent, landing, bounds>>

\* Mutant: only the flag is raised, the task is left alone.
CancelAct_FlagOnly(c) ==
    /\ client[c] = "checked"
    /\ client' = [client EXCEPT ![c] = "accepted"]
    /\ flag' = TRUE
    /\ UNCHANGED <<rows, launch, task, child, locals, sent, landing, bounds>>

\* Mutant: the gathered calls are not cancelled with the worker.
CancelAct_ChildrenRunOn(c) ==
    /\ client[c] = "checked"
    /\ client' = [client EXCEPT ![c] = "accepted"]
    /\ flag' = TRUE
    /\ cancelReq' = (cancelReq \/ pc \in Live)
    /\ UNCHANGED <<rows, launch, pc, child, locals, sent, landing, bounds>>

\* task.cancel() reaches a gather's children at once.
CancelAct(c) ==
    /\ client[c] = "checked"
    /\ client' = [client EXCEPT ![c] = "accepted"]
    /\ flag' = TRUE
    /\ cancelReq' = (cancelReq \/ pc \in Live)
    /\ child' = [i \in Items |->
                    IF pc = "gather" /\ child[i] \in Active \cup {"waiting"}
                    THEN "stopped" ELSE child[i]]
    /\ UNCHANGED <<rows, launch, pc, locals, sent, landing, bounds>>
-------------------------------------------------------------------------------
(* The worker: _run_worker and its phases.  A task with a cancellation     *)
(* pending does nothing but raise CancelledError at its await.             *)

At(p) == pc = p /\ ~cancelReq

WriteInvoking ==
    /\ At("scheduled")
    /\ status' = "invoking"
    /\ pc' = "load"
    /\ UNCHANGED <<summary, invoke, inner, launch, flag, cancelReq, child, locals,
                   sent, landing, client, bounds>>

\* _load_items, then gather over one _one(item) per item.
LoadItems ==
    /\ At("load")
    /\ pc' = "gather"
    /\ child' = [i \in Items |-> "waiting"]
    /\ UNCHANGED <<rows, launch, flag, cancelReq, locals, sent, landing, client, bounds>>

GatherDone ==
    /\ At("gather")
    /\ \A i \in Items : child[i] = "done"
    /\ pc' = IF flag THEN "markCancelled" ELSE "collecting"
    /\ UNCHANGED <<rows, launch, flag, cancelReq, child, locals, sent, landing, client, bounds>>

WriteCollecting ==
    /\ At("collecting")
    /\ status' = "collecting"
    /\ pc' = "shortcut"
    /\ UNCHANGED <<summary, invoke, inner, launch, flag, cancelReq, child, locals,
                   sent, landing, client, bounds>>

\* Trace ids the agent echoed in its reply; the deadline starts after it.
Shortcut ==
    /\ At("shortcut")
    /\ invoke' = [i \in Items |-> IF reply[i] = "inline" THEN "collected" ELSE invoke[i]]
    /\ pc' = "poll"
    /\ UNCHANGED <<status, summary, inner, launch, flag, cancelReq, child, locals,
                   sent, landing, client, bounds>>

DeadlinePasses ==
    /\ pc = "poll" /\ ~expired
    /\ expired' = TRUE
    /\ UNCHANGED <<rows, launch, flag, task, child, reply, stale, subjects, left, tally,
                   sent, landing, client, bounds>>

\* Mutant: the deadline ends the wait without timing the stragglers out.
Poll_SkipsTimeout ==
    /\ At("poll")
    /\ Unsettled = {} \/ expired \/ flag
    /\ pc' = "collect"
    /\ UNCHANGED <<rows, launch, flag, cancelReq, child, locals, sent, landing, client, bounds>>

\* One turn of the loop that leaves it; the other turns sleep and read again.
Poll ==
    /\ At("poll")
    /\ \/ Unsettled = {} /\ pc' = "collect"
       \/ Unsettled # {} /\ (expired \/ flag) /\ pc' = "expireRead"
    /\ UNCHANGED <<rows, launch, flag, cancelReq, child, locals, sent, landing, client, bounds>>

\* _timeout_pending_invocations: the SELECT ...
ExpireRead ==
    /\ At("expireRead")
    /\ stale' = Unsettled
    /\ pc' = "expireWrite"
    /\ UNCHANGED <<rows, launch, flag, cancelReq, child, reply, expired, subjects, left,
                   tally, sent, landing, client, bounds>>

\* ... and the UPDATE of every row it read.
ExpireWrite ==
    /\ At("expireWrite")
    /\ invoke' = [i \in Items |-> IF i \in stale THEN "timeout" ELSE invoke[i]]
    /\ pc' = "collect"
    /\ UNCHANGED <<status, summary, inner, launch, flag, cancelReq, child, locals,
                   sent, landing, client, bounds>>

\* Mutant: everything that has not timed out is evaluated.
Collect_NotTimedOut ==
    /\ At("collect")
    /\ subjects' = Items \ stale
    /\ pc' = IF flag THEN "markCancelled" ELSE "evaluating"
    /\ UNCHANGED <<rows, launch, flag, cancelReq, child, reply, expired, stale, left, tally,
                   sent, landing, client, bounds>>

Collect ==
    /\ At("collect")
    /\ subjects' = Collected
    /\ pc' = IF flag THEN "markCancelled" ELSE "evaluating"
    /\ UNCHANGED <<rows, launch, flag, cancelReq, child, reply, expired, stale, left, tally,
                   sent, landing, client, bounds>>

WriteEvaluating ==
    /\ At("evaluating")
    /\ status' = "evaluating"
    /\ pc' = IF subjects = {} THEN "finaliseEmpty" ELSE "execStart"
    /\ UNCHANGED <<summary, invoke, inner, launch, flag, cancelReq, child, locals,
                   sent, landing, client, bounds>>

\* Mutant: the counts of the run's row are not written.
FinaliseEmpty_NoCounts ==
    /\ At("finaliseEmpty")
    /\ status' = "completed"
    /\ pc' = "refresh"
    /\ UNCHANGED <<summary, invoke, inner, launch, flag, cancelReq, child, locals,
                   sent, landing, client, bounds>>

FinaliseEmpty ==
    /\ At("finaliseEmpty")
    /\ status' = "completed"
    /\ summary' = [completed |-> 0, failed |-> Cardinality(Items)]
    /\ pc' = "refresh"
    /\ UNCHANGED <<invoke, inner, launch, flag, cancelReq, child, locals,
                   sent, landing, client, bounds>>

\* runs.execute raises before it writes: no profile, or the cost guard blocks.
ExecRefused ==
    /\ At("execStart")
    /\ pc' = "failWrite"
    /\ UNCHANGED <<rows, launch, flag, cancelReq, child, locals, sent, landing, client, bounds>>

\* runs.execute inserts an eval_run row of its own.
ExecStart ==
    /\ At("execStart")
    /\ inner' = [status |-> "running", counts |-> Zero]
    /\ left' = subjects
    /\ tally' = Zero
    /\ pc' = "exec"
    /\ UNCHANGED <<status, summary, invoke, launch, flag, cancelReq, child, reply, expired,
                   stale, subjects, sent, landing, client, bounds>>

ExecSubject(i) ==
    /\ At("exec")
    /\ i \in left
    /\ left' = left \ {i}
    /\ \E o \in Outcomes :
          tally' = [completed |-> tally.completed + o.completed,
                    failed |-> tally.failed + o.failed]
    /\ UNCHANGED <<rows, launch, flag, task, child, reply, expired, stale, subjects,
                   sent, landing, client, bounds>>

ExecFinish ==
    /\ At("exec")
    /\ left = {}
    /\ inner' = [status |-> "completed", counts |-> tally]
    /\ pc' = "copy"
    /\ UNCHANGED <<status, summary, invoke, launch, flag, cancelReq, child, locals,
                   sent, landing, client, bounds>>

\* Copy execute's summary onto the run's own row.
CopySummary ==
    /\ At("copy")
    /\ status' = "completed"
    /\ summary' = inner.counts
    /\ pc' = "refresh"
    /\ UNCHANGED <<invoke, inner, launch, flag, cancelReq, child, locals,
                   sent, landing, client, bounds>>

\* s.refresh(row) after the commit, the last await of the worker.
Refresh ==
    /\ At("refresh")
    /\ pc' = "done"
    /\ UNCHANGED <<rows, launch, flag, cancelReq, child, locals, sent, landing, client, bounds>>

WriteCancelled ==
    /\ At("markCancelled") \/ At("cancelWrite")
    /\ status' = "cancelled"
    /\ pc' = "done"
    /\ UNCHANGED <<summary, invoke, inner, launch, flag, cancelReq, child, locals,
                   sent, landing, client, bounds>>

\* Mutant: the failure is written inside the try and the row re-read there.
WriteFailed_Refreshes ==
    /\ At("failWrite")
    /\ status' = "failed"
    /\ pc' = "refresh"
    /\ UNCHANGED <<summary, invoke, inner, launch, flag, cancelReq, child, locals,
                   sent, landing, client, bounds>>

\* Mutant: the session is closed without a commit.
WriteFailed_NoCommit ==
    /\ At("failWrite")
    /\ pc' = "done"
    /\ UNCHANGED <<rows, launch, flag, cancelReq, child, locals, sent, landing, client, bounds>>

WriteFailed ==
    /\ At("failWrite")
    /\ status' = "failed"
    /\ pc' = "done"
    /\ UNCHANGED <<summary, invoke, inner, launch, flag, cancelReq, child, locals,
                   sent, landing, client, bounds>>

\* Mutant: no except clause for CancelledError.
RaiseCancelled_NoHandler ==
    /\ cancelReq
    /\ cancelReq' = FALSE
    /\ pc' = "done"
    /\ UNCHANGED <<rows, launch, flag, child, locals, sent, landing, client, bounds>>

\* Mutant: CancelledError caught as any other exception.
RaiseCancelled_AsFailure ==
    /\ cancelReq
    /\ cancelReq' = FALSE
    /\ pc' = IF pc \in Handlers \cup {"scheduled"} THEN "done" ELSE "failWrite"
    /\ UNCHANGED <<rows, launch, flag, child, locals, sent, landing, client, bounds>>

\* CancelledError at the current await: a task that never ran has no handler
\* to enter, and one already in a handler leaves it.
RaiseCancelled ==
    /\ cancelReq
    /\ cancelReq' = FALSE
    /\ pc' = IF pc \in Handlers \cup {"scheduled"} THEN "done" ELSE "cancelWrite"
    /\ UNCHANGED <<rows, launch, flag, child, locals, sent, landing, client, bounds>>
-------------------------------------------------------------------------------
(* The gathered calls: _one(item).                                         *)

ChildMoves(i, from, to) ==
    /\ child[i] = from
    /\ child' = [child EXCEPT ![i] = to]

SkipCancelled(i) ==
    /\ flag
    /\ ChildMoves(i, "waiting", "done")
    /\ UNCHANGED <<rows, launch, flag, task, locals, sent, landing, client, bounds>>

AcquireSlot(i) ==
    /\ ~flag
    /\ Cardinality(Holding) < MaxConcurrent
    /\ ChildMoves(i, "waiting", "marking")
    /\ UNCHANGED <<rows, launch, flag, task, locals, sent, landing, client, bounds>>

\* _mark_invoke_started; the POST follows.
MarkStarted(i) ==
    /\ ChildMoves(i, "marking", "calling")
    /\ invoke' = [invoke EXCEPT ![i] = "invoked"]
    /\ sent' = sent \cup {i}
    /\ UNCHANGED <<status, summary, inner, launch, flag, task, locals, landing, client, bounds>>

\* The agent answers, with or without its trace id, or the POST fails.
CallReturns(i) ==
    /\ ChildMoves(i, "calling", "recording")
    /\ \E r \in {"ok", "inline", "error"} : reply' = [reply EXCEPT ![i] = r]
    /\ UNCHANGED <<rows, launch, flag, task, expired, stale, subjects, left, tally,
                   sent, landing, client, bounds>>

\* _record_invoke_result: only a failed call changes the status.
RecordResult(i) ==
    /\ ChildMoves(i, "recording", "done")
    /\ invoke' = [invoke EXCEPT ![i] = IF reply[i] = "error" THEN "error" ELSE @]
    /\ UNCHANGED <<status, summary, inner, launch, flag, task, locals, sent, landing,
                   client, bounds>>
-------------------------------------------------------------------------------
(* The ingest hook: correlate_trace_attribute.                             *)

\* A trace of the item's call is ingested; its row is read and not COLLECTED.
TraceSeen(i) ==
    /\ i \in sent \ landing
    /\ invoke[i] # "collected"
    /\ landing' = landing \cup {i}
    /\ UNCHANGED <<rows, launch, flag, task, child, locals, sent, client, bounds>>

TraceRecorded(i) ==
    /\ i \in landing
    /\ landing' = landing \ {i}
    /\ invoke' = [invoke EXCEPT ![i] = "collected"]
    /\ UNCHANGED <<status, summary, inner, launch, flag, task, child, locals, sent,
                   client, bounds>>
-------------------------------------------------------------------------------
(* Failures.                                                               *)

\* A database call of the worker raises: except Exception, or out of a handler.
WorkerFault ==
    /\ faults < MaxFaults
    /\ ~cancelReq
    /\ pc \in Live \ {"gather"}
    /\ pc = "exec" => left = {}          \* execute catches what a subject raises
    /\ pc' = IF pc \in Handlers THEN "done" ELSE "failWrite"
    /\ faults' = faults + 1
    /\ UNCHANGED <<rows, launch, flag, cancelReq, child, locals, sent, landing, client, crashes>>

\* A database call of one child raises: gather fails, its siblings run on.
ChildFault(i) ==
    /\ faults < MaxFaults
    /\ child[i] \in {"marking", "recording"}
    /\ child' = [child EXCEPT ![i] = "stopped"]
    /\ pc' = IF pc = "gather" THEN "failWrite" ELSE pc
    /\ faults' = faults + 1
    /\ UNCHANGED <<rows, launch, flag, cancelReq, locals, sent, landing, client, crashes>>

\* The process restarts: its tasks, flags and requests are gone.
Crash ==
    /\ crashes < MaxCrashes
    /\ launch # "idle"
    /\ crashes' = crashes + 1
    /\ launch' = IF launch = "committed" THEN "lost" ELSE launch
    /\ flag' = FALSE
    /\ pc' = IF pc \in Live THEN "lost" ELSE pc
    /\ cancelReq' = FALSE
    /\ child' = [i \in Items |->
                    IF child[i] \in Active \cup {"waiting"} THEN "stopped" ELSE child[i]]
    /\ landing' = {}
    /\ client' = [c \in Clients |-> IF client[c] = "checked" THEN "lost" ELSE client[c]]
    /\ UNCHANGED <<rows, locals, sent, faults>>
-------------------------------------------------------------------------------
Worker ==
    \/ WriteInvoking \/ LoadItems \/ GatherDone
    \/ WriteCollecting \/ Shortcut \/ Poll \/ ExpireRead \/ ExpireWrite \/ Collect
    \/ WriteEvaluating \/ FinaliseEmpty
    \/ ExecRefused \/ ExecStart \/ (\E i \in Items : ExecSubject(i)) \/ ExecFinish
    \/ CopySummary \/ Refresh
    \/ WriteCancelled \/ WriteFailed \/ RaiseCancelled

Child(i) == SkipCancelled(i) \/ AcquireSlot(i) \/ MarkStarted(i) \/ CallReturns(i) \/ RecordResult(i)

Next ==
    \/ StartCommit \/ StartSpawn
    \/ \E c \in Clients : CancelRead(c) \/ CancelAct(c)
    \/ Worker \/ DeadlinePasses
    \/ \E i \in Items : Child(i) \/ TraceSeen(i) \/ TraceRecorded(i) \/ ChildFault(i)
    \/ WorkerFault \/ Crash

\* The event loop resumes every ready task, database calls return, an agent
\* call ends by its HTTP timeout and the clock reaches the deadline.  Nobody
\* has to start a run, cancel one or send a trace; nothing has to fail.
Fairness ==
    /\ WF_vars(StartSpawn)
    /\ WF_vars(Worker)
    /\ WF_vars(DeadlinePasses)
    /\ \A i \in Items : WF_vars(Child(i)) /\ WF_vars(TraceRecorded(i))
    /\ \A c \in Clients : WF_vars(CancelAct(c))

Spec == Init /\ [][Next]_vars
FairSpec == Spec /\ Fairness
-------------------------------------------------------------------------------
TypeOK ==
    /\ status \in Statuses /\ summary \in Counts
    /\ invoke \in [Items -> InvokeStatuses]
    /\ inner \in [status : {"none", "running", "completed"}, counts : Counts]
    /\ launch \in {"idle", "committed", "spawned", "lost"} /\ flag \in BOOLEAN
    /\ pc \in {"none", "done", "lost"} \cup Live /\ cancelReq \in BOOLEAN
    /\ child \in [Items -> {"none", "waiting", "done", "stopped"} \cup Active]
    /\ reply \in [Items -> {"none", "ok", "inline", "error"}]
    /\ expired \in BOOLEAN /\ tally \in Counts
    /\ stale \in SUBSET Items /\ subjects \in SUBSET Items /\ left \in SUBSET Items
    /\ sent \in SUBSET Items /\ landing \in SUBSET Items
    /\ client \in [Clients -> {"idle", "checked", "accepted", "refused", "lost"}]
    /\ faults \in 0..MaxFaults /\ crashes \in 0..MaxCrashes

\* The agent never serves more calls of the run at once than the semaphore
\* admits, also when the gather has failed and its siblings run on.
SemaphoreBound == Cardinality(Holding) <= MaxConcurrent

\* The evaluation starts, and the run completes, only once no item waits for
\* its call or its trace: every one is collected, timed out or in error.
SettledBeforeEvaluation == status \in {"evaluating", "completed"} => Unsettled = {}

\* What was handed to the evaluation is what the trace map shows: no straggler
\* update and no late call result takes a collected row back under the worker.
EvaluatedStayCollected == subjects \subseteq Collected

\* A completed run shows the counts of an evaluation that has itself finished,
\* or, when no trace was collected, every item as failed.
SummaryFromInner ==
    status = "completed" =>
        IF subjects = {}
        THEN summary = [completed |-> 0, failed |-> Cardinality(Items)]
        ELSE inner = [status |-> "completed", counts |-> summary]

\* After a run is shown completed or cancelled none of its agent calls is in
\* flight or still going to be made.
NoCallAfterEnd ==
    status \in {"completed", "cancelled"} =>
        \A i \in Items : child[i] \notin Active \cup {"waiting"}

\* A raised flag always comes with a CancelledError on its way into the worker:
\* the worker's own flag checks never have to stop it.
CancelReachesWorker == flag /\ pc \in Live \ Handlers => cancelReq

\* What the liveness properties exclude: a restart, and a cancellation (a second
\* one, say) that falls into the handler writing the final status; it ends the
\* task there and leaves the run in its live status for ever.
Undisturbed == crashes = 0 /\ (cancelReq => pc \notin Handlers)

\* A database call that raises, in the worker or in one gathered child while its
\* siblings run on, leaves the run failed (no second one raises meanwhile).
FaultRecorded == []Undisturbed => (faults > 0 /\ pc = "failWrite") ~> (status = "failed")

BegunEnds == [](faults = 0 /\ Undisturbed) => (status = "invoking") ~> (status \in Terminal)
CancelLands ==
    [](faults = 0 /\ Undisturbed) => (cancelReq /\ pc # "scheduled") ~> (status = "cancelled")

\* A run whose worker has begun ends: the deadline bounds the wait for traces, the
\* evaluation refused or not; and a cancellation that reaches it outside of its
\* handlers leaves it cancelled, whatever it was awaiting.
RegressionEnds == BegunEnds /\ CancelLands

\* The run's row keeps what RunLifecycle promises: its phases in order, counts
\* only with completion, no final status rewritten except by the worker that is
\* still re-reading the row it has just completed, and no change at all once
\* launcher and worker are gone, restarts included.
Lifecycle == INSTANCE RunLifecycle WITH
    Runs   <- {"run"},
    Phases <- <<"queued", "invoking", "collecting", "evaluating">>,
    Size   <- [r \in {"run"} |-> Cardinality(Items)],
    status <- [r \in {"run"} |-> status],
    counts <- [r \in {"run"} |-> summary],
    owned  <- {r \in {"run"} : launch = "committed" \/ pc \in Live}

KeepsLifecycle == Lifecycle!Spec
===============================================================================
