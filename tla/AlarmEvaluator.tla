---------------------------- MODULE AlarmEvaluator ----------------------------
(***************************************************************************)
(* The evaluation of one alarm rule, by the sweep loops of the processes    *)
(* that share a database and by requests to evaluate it now: snapshot of   *)
(* rule and channels, signal, the firing event opened or closed, its       *)
(* delivery to the channels of the rule                                    *)
(* (easyobs/alarms/evaluator.py, services.py, dispatcher.py).              *)
(*                                                                         *)
(* An action is one database transaction or one delivery.  Time is kept as *)
(* ages: of an event since it started, of an evaluation since its `now`.     *)
(* An evaluator treats its rules one after another, so one rule is enough. *)
(***************************************************************************)
EXTENDS Integers, Sequences, FiniteSets, FiniteSetsExt, Functions

CONSTANTS Loops,        \* sweep loops: one in each process
          Requests,     \* requests POST .../rules/{id}/evaluate
          Channels,     \* channels linked to the rule
          Dedup,        \* dedup_minutes, in ticks
          MaxLag,       \* bound: ticks an evaluation may take
          MaxFlips,     \* bound: changes of the signal
          MaxEdits,     \* bound: edits of the rule and its channels
          MaxFaults,    \* bound: database calls that raise
          MaxCrashes    \* bound: processes that stop and start again

ASSUME BoundsAssumption ==
    {Dedup, MaxLag, MaxFlips, MaxEdits, MaxFaults, MaxCrashes} \subseteq Nat
ASSUME SetsAssumption == 
    /\ IsFiniteSet(Loops) /\ IsFiniteSet(Requests) /\ IsFiniteSet(Channels)
    /\ Loops \cap Requests = {}

Kinds  == {"firing", "resolved"}
Signals == {"ok", "violating", "none"}      \* none: no value or too few samples
Evaluators == Loops \cup Requests
Switch == {"on", "off", "gone"}
OldAge == Dedup + MaxLag + 1                \* ages beyond it are all alike

VARIABLES
    rule,       \* alarm_rule: the row's switch and last_state
    channel,    \* alarm_channel: the switch of each row
    events,     \* alarm_event rows in the order of started_at
    signal,     \* what the rule's signal would evaluate to
    pc,         \* where each evaluator awaits
    local,      \* the local variables of its evaluation
    flips, edits, faults, crashes

rows   == <<rule, channel, events>>
bounds == <<flips, edits, faults, crashes>>
vars   == <<rows, signal, pc, local, bounds>>

Steps == {"load", "compute", "insufficient", "find", "mark", "latest", "open", "close",
          "send", "read", "write"}

\* lag: age of `now`; snapshot: the channels as loaded; reading: ev; active: the
\* firing event found, 0 for none; event, kind, left, ok: the fan-out, the
\* channels it has to go to and its last outcome; attempts, failures: the
\* counters as record_delivery read them.
NoLocal == [lag |-> 0, snapshot |-> [c \in Channels |-> "gone"], reading |-> "none",
            active |-> 0, event |-> 0, kind |-> "firing", left |-> {}, ok |-> TRUE,
            attempts |-> 0, failures |-> 0]

Firing == {e \in DOMAIN events : events[e].state = "firing"}
Sends(e) == SumFunctionOnSet(events[e].sent, Channels \X Kinds)

Init ==
    /\ rule = [switch |-> "on", last |-> "new"]
    /\ channel \in [Channels -> {"on", "off"}]
    /\ events = <<>>
    /\ signal = "ok"
    /\ pc = [i \in Evaluators |-> "idle"]
    /\ local = [i \in Evaluators |-> NoLocal]
    /\ flips = 0 /\ edits = 0 /\ faults = 0 /\ crashes = 0

\* To the next await with the local variables l; to the end, which drops them:
\* a loop sleeps until its next sweep, a request is answered.
To(i, step, l) ==
    /\ pc' = [pc EXCEPT ![i] = IF step # "end" THEN step
                               ELSE IF i \in Loops THEN "idle" ELSE "answered"]
    /\ local' = [local EXCEPT ![i] = IF step = "end" THEN NoLocal ELSE l]
-------------------------------------------------------------------------------
(* The evaluation.                                                         *)

\* list_all_enabled returns the rule to a sweep; a request is for any rule.
Begin(i) ==
    /\ pc[i] = "idle"
    /\ IF i \in Loops THEN rule.switch = "on" ELSE rule.switch # "gone"
    /\ To(i, "load", NoLocal)
    /\ UNCHANGED <<rows, signal, bounds>>

\* The channels are loaded once per sweep; then `now` is taken.
Load(i) ==
    /\ pc[i] = "load"
    /\ To(i, "compute", [NoLocal EXCEPT !.snapshot = channel])
    /\ UNCHANGED <<rows, signal, bounds>>

Compute(i) ==
    /\ pc[i] = "compute"
    /\ To(i, IF signal = "none" THEN "insufficient" ELSE "find",
          [local[i] EXCEPT !.reading = signal])
    /\ UNCHANGED <<rows, signal, bounds>>

\* update_evaluation_state: nothing happens when the rule row is gone.
SetLast(s) == rule' = IF rule.switch = "gone" THEN rule ELSE [rule EXCEPT !.last = s]

Insufficient(i) ==
    /\ pc[i] = "insufficient"
    /\ SetLast("insufficient_data")
    /\ To(i, "end", NoLocal)
    /\ UNCHANGED <<channel, events, signal, bounds>>

\* find_active_firing: the latest firing event, joined with the rule row.
Find(i) ==
    /\ pc[i] = "find"
    /\ To(i, "mark", [local[i] EXCEPT !.active =
                         IF rule.switch = "gone" \/ Firing = {} THEN 0 ELSE Max(Firing)])
    /\ UNCHANGED <<rows, signal, bounds>>

\* Mutant: a firing rule opens an event whether or not one is active.
Decide_Reopens(i) ==
    CASE local[i].reading = "violating" -> (IF Dedup > 0 THEN "latest" ELSE "open")
      [] local[i].reading = "ok" /\ local[i].active # 0 -> "close"
      [] OTHER -> "end"

Decide(i) ==
    CASE local[i].reading = "violating" /\ local[i].active = 0 ->
            (IF Dedup > 0 THEN "latest" ELSE "open")
      [] local[i].reading = "ok" /\ local[i].active # 0 -> "close"
      [] OTHER -> "end"

Mark(i) ==
    /\ pc[i] = "mark"
    /\ SetLast(IF local[i].reading = "violating" THEN "firing" ELSE "ok")
    /\ To(i, Decide(i), local[i])
    /\ UNCHANGED <<channel, events, signal, bounds>>

\* Mutant: the window ends before the tick it should still cover.
Recent_OffByOne(i) == events # <<>> /\ events[Len(events)].age - local[i].lag < Dedup

\* Mutant: any earlier event suppresses a new one, however old it is.
Recent_EverFired(i) == events # <<>>

\* The latest event started no earlier than `now` less the dedup window.
Recent(i) == events # <<>> /\ events[Len(events)].age - local[i].lag <= Dedup

Latest(i) ==
    /\ pc[i] = "latest"
    /\ To(i, IF rule.switch # "gone" /\ Recent(i) THEN "end" ELSE "open", local[i])
    /\ UNCHANGED <<rows, signal, bounds>>

\* _fanout goes to the linked channels that the snapshot holds.
FanOut(i, e, k) ==
    LET targets == {c \in Channels : local[i].snapshot[c] # "gone"}
    IN To(i, IF targets = {} THEN "end" ELSE "send",
          [local[i] EXCEPT !.event = e, !.kind = k, !.left = targets])

\* Foreign keys are not enforced on SQLite: a rule deleted meanwhile leaves an
\* event without a rule.
Open(i) ==
    /\ pc[i] = "open"
    /\ events' = Append(events, [state |-> "firing", age |-> 0, attempts |-> 0,
                                 failures |-> 0, sent |-> [n \in Channels \X Kinds |-> 0]])
    /\ FanOut(i, Len(events) + 1, "firing")
    /\ UNCHANGED <<rule, channel, signal, bounds>>

\* Mutant: the notice goes out and the row is left as it was.
Close_NoticeOnly(i) ==
    /\ pc[i] = "close"
    /\ FanOut(i, local[i].active, "resolved")
    /\ UNCHANGED <<rows, signal, bounds>>

\* close_firing leaves a resolved event alone; the notice goes out all the same.
Close(i) ==
    /\ pc[i] = "close"
    /\ events' = [events EXCEPT ![local[i].active].state = "resolved"]
    /\ FanOut(i, local[i].active, "resolved")
    /\ UNCHANGED <<rule, channel, signal, bounds>>
-------------------------------------------------------------------------------
(* Delivery.                                                               *)

\* Mutant: a channel whose delivery failed is served again.
Deliver_Retries(i, c, ok) ==
    /\ events' = [events EXCEPT ![local[i].event].sent[<<c, local[i].kind>>] = @ + 1]
    /\ To(i, "read", [local[i] EXCEPT !.ok = ok, !.left = IF ok THEN @ \ {c} ELSE @])

Deliver(i, c, ok) ==
    /\ events' = [events EXCEPT ![local[i].event].sent[<<c, local[i].kind>>] = @ + 1]
    /\ To(i, "read", [local[i] EXCEPT !.ok = ok, !.left = @ \ {c}])

\* dispatcher.send never raises: a disabled channel or a refused delivery is an
\* outcome.
Send(i) ==
    /\ pc[i] = "send"
    /\ \E c \in local[i].left, ok \in BOOLEAN :
          /\ ok => local[i].snapshot[c] = "on"
          /\ Deliver(i, c, ok)
    /\ UNCHANGED <<rule, channel, signal, bounds>>

\* record_delivery loads the row, adds to its counters and commits.
ReadCounters(i) ==
    /\ pc[i] = "read"
    /\ LET e == events[local[i].event]
       IN To(i, "write", [local[i] EXCEPT !.attempts = e.attempts, !.failures = e.failures])
    /\ UNCHANGED <<rows, signal, bounds>>

\* Mutant: the first failed delivery ends the fan-out.
AfterDelivery_StopsOnFailure(i) == IF local[i].left = {} \/ ~local[i].ok THEN "end" ELSE "send"

AfterDelivery(i) == IF local[i].left = {} THEN "end" ELSE "send"

\* Mutant: only failed deliveries are counted.
WriteCounters_FailuresOnly(i) ==
    /\ pc[i] = "write"
    /\ events' = IF local[i].ok THEN events
                 ELSE [events EXCEPT ![local[i].event].attempts = local[i].attempts + 1,
                                     ![local[i].event].failures = local[i].failures + 1]
    /\ To(i, AfterDelivery(i), local[i])
    /\ UNCHANGED <<rule, channel, signal, bounds>>

WriteCounters(i) ==
    /\ pc[i] = "write"
    /\ events' = [events EXCEPT ![local[i].event].attempts = local[i].attempts + 1,
                                ![local[i].event].failures =
                                    IF local[i].ok THEN @ ELSE local[i].failures + 1]
    /\ To(i, AfterDelivery(i), local[i])
    /\ UNCHANGED <<rule, channel, signal, bounds>>

\* A database call raises: a sweep logs it and goes on to its next rule, a
\* request answers 500.
Raises(i) ==
    /\ pc[i] \in Steps \ {"send"}
    /\ faults < MaxFaults /\ faults' = faults + 1
    /\ To(i, "end", NoLocal)
    /\ UNCHANGED <<rows, signal, flips, edits, crashes>>

\* The process stops (stop() cancels the loop at its await) and starts again.
Crash(i) ==
    /\ pc[i] \in Steps
    /\ crashes < MaxCrashes /\ crashes' = crashes + 1
    /\ To(i, "end", NoLocal)
    /\ UNCHANGED <<rows, signal, flips, edits, faults>>
-------------------------------------------------------------------------------
(* The surroundings.                                                       *)

Flip ==
    /\ flips < MaxFlips /\ flips' = flips + 1
    /\ signal' \in Signals \ {signal}
    /\ UNCHANGED <<rows, pc, local, edits, faults, crashes>>

Edit ==
    /\ edits < MaxEdits /\ edits' = edits + 1
    /\ \/ /\ rule.switch # "gone"
          /\ \E s \in Switch \ {rule.switch} : rule' = [rule EXCEPT !.switch = s]
          /\ UNCHANGED channel
       \/ \E c \in Channels :
             /\ channel[c] # "gone"
             /\ \E s \in Switch \ {channel[c]} : channel' = [channel EXCEPT ![c] = s]
             /\ UNCHANGED rule
    /\ UNCHANGED <<events, signal, pc, local, flips, faults, crashes>>

\* The evaluators that have taken `now`.
Timed == {i \in Evaluators : pc[i] \in Steps \ {"load"}}

Tick ==
    /\ \A i \in Timed : local[i].lag < MaxLag
    /\ events' = [e \in DOMAIN events |->
                     [events[e] EXCEPT !.age = IF @ < OldAge THEN @ + 1 ELSE @]]
    /\ local' = [i \in Evaluators |->
                    IF i \in Timed THEN [local[i] EXCEPT !.lag = @ + 1]
                    ELSE local[i]]
    /\ UNCHANGED <<rule, channel, signal, pc, bounds>>

Step(i) ==
    \/ Begin(i) \/ Load(i) \/ Compute(i) \/ Insufficient(i) \/ Find(i) \/ Mark(i)
    \/ Latest(i) \/ Open(i) \/ Close(i) \/ Send(i) \/ ReadCounters(i) \/ WriteCounters(i)

Next == (\E i \in Evaluators : Step(i) \/ Raises(i) \/ Crash(i)) \/ Flip \/ Edit \/ Tick

Spec == Init /\ [][Next]_vars

\* The loops sweep again and again, the calls of every evaluation answer, time
\* passes.  Nobody has to send a request.
Fairness ==
    /\ \A i \in Loops : WF_vars(Step(i))
    /\ \A i \in Requests : WF_vars(pc[i] # "idle" /\ Step(i))
    /\ WF_vars(Tick)

FairSpec == Spec /\ Fairness
-------------------------------------------------------------------------------
(* Properties.                                                             *)

EventType == [state : Kinds, age : 0..OldAge, attempts : Nat, failures : Nat,
              sent : [Channels \X Kinds -> Nat]]
LocalType == [lag : 0..MaxLag, snapshot : [Channels -> Switch], reading : Signals,
              active : Nat, event : Nat, kind : Kinds, left : SUBSET Channels,
              ok : BOOLEAN, attempts : Nat, failures : Nat]

TypeOK ==
    /\ rule \in [switch : Switch, last : {"new", "ok", "firing", "insufficient_data"}]
    /\ channel \in [Channels -> Switch]
    /\ events \in Seq(EventType)
    /\ signal \in Signals
    /\ pc \in [Evaluators -> {"idle", "answered"} \cup Steps]
    /\ local \in [Evaluators -> LocalType]
    /\ \A i \in Evaluators : {local[i].active, local[i].event} \subseteq 0..Len(events)
    /\ {flips, edits, faults, crashes} \subseteq Nat

\* A loop alone never has two firing events open for the rule, whatever raises
\* or restarts between opening, closing and delivering.  (The events of a deleted
\* rule are out of its sight.)  A violation that lasts opens no second event, as
\* evaluator.py:8 says; dispatcher.py:7-9 promises one after a failed delivery.
SingleFiring == rule.switch # "gone" => Cardinality(Firing) <= 1

\* A new firing event starts more than the dedup window after the one before it,
\* measured at its start although the decision was taken on an earlier `now`.
DedupSpacing ==
    [][events # <<>> /\ Len(events') > Len(events) /\ rule.switch # "gone" =>
          events[Len(events)].age > Dedup]_vars

\* Opening an event tells each channel at most once that it fires, however many
\* evaluators sweep, restart or fail: a second evaluator finds the event active.
\* And nobody is told that it resolved while its row still says firing.
ToldTruly ==
    \A e \in DOMAIN events, c \in Channels :
        /\ events[e].sent[<<c, "firing">>] <= 1
        /\ events[e].sent[<<c, "resolved">>] > 0 => events[e].state = "resolved"

\* The delivery counters of an event match the deliveries made, up to the one in
\* hand and those a failure or a restart cut short.
CountersMatch ==
    \A e \in DOMAIN events :
        /\ events[e].failures <= events[e].attempts
        /\ events[e].attempts <= Sends(e)
        /\ Sends(e) <= events[e].attempts + faults + crashes
                + Cardinality({i \in Evaluators : pc[i] \in {"read", "write"}
                                                  /\ local[i].event = e})

\* A rule that stays in violation, enabled, has a firing event in the end and
\* keeps it: no restart and no dedup window suppresses it for good.
FiresInTheEnd ==
    <>[](signal = "violating" /\ rule.switch = "on") => <>[](Firing # {})

\* A rule whose signal stays ok has no firing event in the end, also when several
\* evaluators opened one each: a sweep closes one, the next sweeps the others.
ResolvedInTheEnd ==
    <>[](signal = "ok" /\ rule.switch = "on") => <>[](Firing = {})

\* An alarm follows its signal, both ways.
FollowsSignal == FiresInTheEnd /\ ResolvedInTheEnd

\* A firing event is offered to every channel of the rule, also after a delivery
\* to another one failed: each call that raised and each restart can cut short
\* the notices of one event, and nothing else does.
EveryChannelTried ==
    LET untold == {e \in DOMAIN events : \E c \in Channels :
                      /\ events[e].sent[<<c, "firing">>] = 0 /\ channel[c] # "gone"
                      /\ \A i \in Evaluators : local[i].event # e \/ c \notin local[i].left}
    IN Cardinality(untold) <= faults + crashes
===============================================================================
