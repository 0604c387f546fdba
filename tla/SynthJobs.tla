------------------------------ MODULE SynthJobs ------------------------------
(***************************************************************************)
(* One synthesizer job: its launcher, its worker, the cancel endpoint, the *)
(* golden set it fills, and the progress streams that watch it             *)
(* (easyobs/eval/services/synthesizer.py, progress.py and the synth-jobs   *)
(* endpoints of api/routers/evaluations.py).                               *)
(*                                                                         *)
(* An action is what a coroutine does up to its next await.  The await     *)
(* that closes a session after its commit is a state of its own where the  *)
(* worker publishes afterwards: "opened", "doneClose", "failClose".        *)
(***************************************************************************)
EXTENDS ProgressBroker

CONSTANTS Clients,      \* callers of the cancel endpoint, one call each
          Target,       \* target_count of the request
          MaxFaults,    \* bound: database calls that raise
          MaxCrashes    \* bound: process restarts

ASSUME SizesAssumption == {QueueSize, TailSize, Target} \subseteq Nat \ {0}
ASSUME BoundsAssumption == {MaxFaults, MaxCrashes} \subseteq Nat

VARIABLES
    status,     \* eval_synth_job.status ("none": no row yet)
    shown,      \* eval_synth_job.generated_count
    setAlive,   \* the golden set has not been deleted
    items,      \* candidates the job has added to the set
    launch,     \* progress of start_job
    flag,       \* _cancel_flags[job_id]
    pc,         \* where the worker task awaits
    cancelReq,  \* task.cancel() was called and CancelledError not yet raised
    docs,       \* sources not yet gone through
    generated,  \* the worker's counter
    client,     \* progress of each cancel request
    faults, crashes

rows   == <<status, shown>>
set    == <<setAlive, items>>
task   == <<pc, cancelReq>>
locals == <<docs, generated>>
bounds == <<faults, crashes>>
vars   == <<rows, set, launch, flag, task, locals, client, bounds, broker>>

Guarded  == {"spec", "sources", "call", "persist", "progress", "doneWrite", "doneClose"}
Handlers == {"cancelWrite", "failWrite", "failClose"}
Live     == {"scheduled", "opened", "markCancelled"} \cup Guarded \cup Handlers

Init ==
    /\ status = "none" /\ shown = 0
    /\ setAlive = TRUE /\ items = 0
    /\ launch = "idle" /\ flag = FALSE
    /\ pc = "none" /\ cancelReq = FALSE
    /\ docs = 0 /\ generated = 0
    /\ client = [c \in Clients |-> "idle"]
    /\ faults = 0 /\ crashes = 0
    /\ BrokerInit

Goto(p) == pc' = p /\ UNCHANGED cancelReq
-------------------------------------------------------------------------------
(* start_job and cancel_job.                                               *)

\* The set is there; the job row is committed.
StartCommit ==
    /\ launch = "idle" /\ setAlive
    /\ launch' = "committed"
    /\ status' = "queued"
    /\ UNCHANGED <<shown, set, flag, task, locals, client, bounds, broker>>

StartSpawn ==
    /\ launch = "committed"
    /\ launch' = "spawned"
    /\ flag' = FALSE
    /\ Goto("scheduled")
    /\ Publish("queued")
    /\ UNCHANGED <<rows, set, locals, client, bounds>>

CancelRead(c) ==
    /\ client[c] = "idle" /\ status # "none"
    /\ client' = [client EXCEPT ![c] = IF status \in Terminal THEN "refused" ELSE "checked"]
    /\ UNCHANGED <<rows, set, launch, flag, task, locals, bounds, broker>>

CancelAct(c) ==
    /\ client[c] = "checked"
    /\ client' = [client EXCEPT ![c] = "accepted"]
    /\ flag' = TRUE
    /\ cancelReq' = (cancelReq \/ pc \in Live)
    /\ UNCHANGED <<rows, set, launch, pc, locals, bounds, broker>>
-------------------------------------------------------------------------------
(* _worker.                                                                *)

At(p) == pc = p /\ ~cancelReq

WriteRunning ==
    /\ At("scheduled")
    /\ status' = "running"
    /\ Goto("opened")
    /\ UNCHANGED <<shown, set, launch, flag, locals, client, bounds, broker>>

PublishRunning ==
    /\ At("opened")
    /\ Publish("running")
    /\ Goto("spec")
    /\ UNCHANGED <<rows, set, launch, flag, locals, client, bounds>>

\* _resolve_judge_spec; without a model the job fails.
ResolveSpec ==
    /\ At("spec")
    /\ \E p \in {"sources", "failWrite"} : Goto(p)
    /\ UNCHANGED <<rows, set, launch, flag, locals, client, bounds, broker>>

\* The head of the loop over n sources that are left.
LoopHead(n) ==
    Goto(IF n = 0 THEN "doneWrite" ELSE IF flag THEN "markCancelled" ELSE "call")

\* Never more sources than asked for: the loop's own comparison of generated
\* with the target never ends it.
CollectSources ==
    /\ At("sources")
    /\ docs' \in 0..Target
    /\ LoopHead(docs')
    /\ UNCHANGED <<rows, set, launch, flag, generated, client, bounds, broker>>

\* The provider answers or fails; a failure is logged and the loop goes on.
CallReturns ==
    /\ At("call")
    /\ \E p \in {"persist", "progress"} : Goto(p)
    /\ UNCHANGED <<rows, set, launch, flag, locals, client, bounds, broker>>

\* Mutant: the candidate of a failed call is counted all the same.
Persist_CountsFailures ==
    /\ At("persist")
    /\ \/ items' = items + (IF setAlive THEN 1 ELSE 0)
       \/ faults < MaxFaults /\ UNCHANGED items
    /\ generated' = generated + 1
    /\ Goto("progress")
    /\ UNCHANGED <<rows, setAlive, launch, flag, docs, client, bounds, broker>>

\* _persist_candidate: a set that is gone takes nothing, and is not an error.
Persist ==
    /\ At("persist")
    /\ items' = items + (IF setAlive THEN 1 ELSE 0)
    /\ generated' = generated + 1
    /\ Goto("progress")
    /\ UNCHANGED <<rows, setAlive, launch, flag, docs, client, bounds, broker>>

\* Its commit raises: the except clause of the loop.
PersistRaises ==
    /\ At("persist")
    /\ faults < MaxFaults /\ faults' = faults + 1
    /\ Goto("progress")
    /\ UNCHANGED <<rows, set, launch, flag, locals, client, crashes, broker>>

WriteProgress ==
    /\ At("progress")
    /\ shown' = generated
    /\ Publish("running")
    /\ docs' = docs - 1
    /\ LoopHead(docs')
    /\ UNCHANGED <<status, set, launch, flag, generated, client, bounds>>

\* Mutant: done is published before it is committed.
WriteDone_PublishesFirst ==
    /\ At("doneWrite")
    /\ Publish("done")
    /\ Goto("doneClose")
    /\ UNCHANGED <<rows, set, launch, flag, locals, client, bounds>>

WriteDone ==
    /\ At("doneWrite")
    /\ status' = "done"
    /\ Goto("doneClose")
    /\ UNCHANGED <<shown, set, launch, flag, locals, client, bounds, broker>>

PublishDone ==
    /\ At("doneClose")
    /\ Publish("done")
    /\ Goto("over")
    /\ UNCHANGED <<rows, set, launch, flag, locals, client, bounds>>

\* Only the loop's own check publishes; the except clause for CancelledError
\* writes the row and tells nobody.
WriteCancelled ==
    /\ At("cancelWrite") \/ At("markCancelled")
    /\ status' = "cancelled"
    /\ Goto("over")
    /\ IF pc = "markCancelled" THEN Publish("cancelled") ELSE UNCHANGED broker
    /\ UNCHANGED <<shown, set, launch, flag, locals, client, bounds>>

WriteFailed ==
    /\ At("failWrite")
    /\ status' = "failed"
    /\ Goto("failClose")
    /\ UNCHANGED <<shown, set, launch, flag, locals, client, bounds, broker>>

\* Mutant: the failure is left to the row.
PublishFailed_Silent ==
    /\ At("failClose")
    /\ Goto("over")
    /\ UNCHANGED <<rows, set, launch, flag, locals, client, bounds, broker>>

PublishFailed ==
    /\ At("failClose")
    /\ Publish("failed")
    /\ Goto("over")
    /\ UNCHANGED <<rows, set, launch, flag, locals, client, bounds>>

\* CancelledError at the current await.  Only the body of the try has a handler:
\* before it, and inside an except clause, the task just ends.
RaiseCancelled ==
    /\ cancelReq
    /\ cancelReq' = FALSE
    /\ pc' = IF pc \in Guarded \cup {"markCancelled"} THEN "cancelWrite" ELSE "dead"
    /\ UNCHANGED <<rows, set, launch, flag, locals, client, bounds, broker>>

\* A database call of the worker raises.
WorkerFault ==
    /\ faults < MaxFaults /\ faults' = faults + 1
    /\ ~cancelReq
    /\ pc \in Live \ {"call", "persist", "sources"}
    /\ Goto(IF pc \in Guarded \cup {"markCancelled"} THEN "failWrite" ELSE "dead")
    /\ UNCHANGED <<rows, set, launch, flag, locals, client, crashes, broker>>
-------------------------------------------------------------------------------
(* The surroundings.                                                       *)

DeleteSet ==
    /\ setAlive /\ setAlive' = FALSE
    /\ UNCHANGED <<rows, items, launch, flag, task, locals, client, bounds, broker>>

\* The stream endpoint has found the job.
Watch(l) == status # "none" /\ Subscribe(l) /\ UNCHANGED <<rows, set, launch, flag, task, locals, client, bounds>>
Read(l)  == Receive(l) /\ UNCHANGED <<rows, set, launch, flag, task, locals, client, bounds>>
Close(l) == Leave(l) /\ UNCHANGED <<rows, set, launch, flag, task, locals, client, bounds>>

Crash ==
    /\ crashes < MaxCrashes /\ crashes' = crashes + 1
    /\ launch # "idle"
    /\ launch' = IF launch = "committed" THEN "lost" ELSE launch
    /\ flag' = FALSE
    /\ pc' = IF pc \in Live THEN "lost" ELSE pc
    /\ cancelReq' = FALSE
    /\ client' = [c \in Clients |-> IF client[c] = "checked" THEN "lost" ELSE client[c]]
    /\ BrokerLost
    /\ UNCHANGED <<rows, set, locals, faults>>
-------------------------------------------------------------------------------
Worker ==
    \/ WriteRunning \/ PublishRunning \/ ResolveSpec \/ CollectSources \/ CallReturns
    \/ Persist \/ PersistRaises \/ WriteProgress \/ WriteDone \/ PublishDone
    \/ WriteCancelled \/ WriteFailed \/ PublishFailed \/ RaiseCancelled

Next ==
    \/ StartCommit \/ StartSpawn
    \/ \E c \in Clients : CancelRead(c) \/ CancelAct(c)
    \/ Worker \/ WorkerFault \/ DeleteSet
    \/ \E l \in Listeners : Watch(l) \/ Read(l) \/ Close(l)
    \/ Crash

\* The event loop resumes ready tasks, calls to the database and the provider
\* return, and an open stream is read.  Nobody has to start a job or cancel it.
Fairness ==
    /\ WF_vars(StartSpawn) /\ WF_vars(Worker)
    /\ \A c \in Clients : WF_vars(CancelAct(c))
    /\ \A l \in Listeners : WF_vars(Read(l))

Spec     == Init /\ [][Next]_vars
FairSpec == Spec /\ Fairness
-------------------------------------------------------------------------------
\* What a stream was told last is what the row says: a terminal event is
\* published after its commit, by a worker that has nothing left to do, so no
\* cancellation or failure changes the row behind it (progress.py: the UI stops
\* reconnecting then).
ToldIsTrue ==
    \A i \in DOMAIN tail :
        tail[i].status \in Terminal => i = Len(tail) /\ status = tail[i].status

\* A stream delivers events in the order of their publication, none twice, and
\* none left out between two it delivers unless its queue overflowed, also when
\* the worker publishes while the tail is being replayed.
StreamInOrder ==
    [][\A l \in Listeners : last'[l] # last[l] =>
          /\ last'[l] > last[l]
          /\ last[l] # 0 /\ l \notin dropped => last'[l] = last[l] + 1]_vars

\* The job's figures: the row never shows a candidate the set did not get unless
\* the set is gone, falls behind by the candidate in hand at most, and a job that
\* is over adds no candidate.
Figures ==
    /\ setAlive => shown <= items /\ items <= shown + 1
    /\ status = "done" /\ setAlive => shown = items

JobAddsUp ==
    /\ Figures
    /\ [][Figures' /\ (status \in Terminal => items' = items)]_vars

\* A stream that keeps reading ends when its job ends by itself: every event
\* before may be dropped, the terminal one is not.  (A job that is cancelled, or
\* whose worker ends outside its try, publishes none; after a restart the tail
\* that would end a stream opened too late is gone.)
StreamsEnd ==
    [](~cancelReq /\ pc # "dead" /\ crashes = 0) =>
        \A l \in Listeners : phase[l] = "open" /\ pc # "none" ~> phase[l] = "over"
===============================================================================
