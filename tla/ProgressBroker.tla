---------------------------- MODULE ProgressBroker ----------------------------
(***************************************************************************)
(* The in-process broker between one worker and the SSE streams that watch *)
(* it (easyobs/eval/services/progress.py): one key, a bounded queue per    *)
(* listener that drops its oldest event when it is full, and a tail of the *)
(* last events that a new listener is given first.  Events carry their     *)
(* position in the sequence of publications.                               *)
(***************************************************************************)
EXTENDS Integers, Sequences

CONSTANTS Listeners,
          QueueSize,    \* max_queue (256 in the code)
          TailSize      \* length of the replay buffer (32 in the code)

VARIABLES published,    \* events published so far
          tail,         \* _tail[key]
          phase,        \* "idle", "open" (registered in _listeners), "over"
          replay,       \* what is left of the tail a listener was given
          queue,        \* its asyncio.Queue
          last,         \* position of the event it was sent last, 0 if none
          dropped       \* listeners that lost an event to a full queue

broker == <<published, tail, phase, replay, queue, last, dropped>>

Terminal == {"done", "failed", "cancelled"}
Event(s) == [at |-> published + 1, status |-> s]

BrokerInit ==
    /\ published = 0 /\ tail = <<>>
    /\ phase = [l \in Listeners |-> "idle"]
    /\ replay = [l \in Listeners |-> <<>>]
    /\ queue = [l \in Listeners |-> <<>>]
    /\ last = [l \in Listeners |-> 0]
    /\ dropped = {}

Open == {l \in Listeners : phase[l] = "open"}

\* Mutant: a full queue refuses the new event.
Offer_DropsNewest(q, e) == IF Len(q) < QueueSize THEN Append(q, e) ELSE q

\* put_nowait, or drop the oldest and try again.
Offer(q, e) == Append(IF Len(q) < QueueSize THEN q ELSE Tail(q), e)

Publish(s) ==
    /\ published' = published + 1
    /\ queue' = [l \in Listeners |-> IF l \in Open THEN Offer(queue[l], Event(s)) ELSE queue[l]]
    /\ dropped' = dropped \cup {l \in Open : Len(queue[l]) = QueueSize}
    /\ LET longer == Append(tail, Event(s))
       IN tail' = IF Len(longer) > TailSize THEN Tail(longer) ELSE longer
    /\ UNCHANGED <<phase, replay, last>>

\* Mutant: the queue is registered once the tail has been sent, and what was
\* published meanwhile is filled in from the tail of that moment.
Subscribe_Refills(l) ==
    /\ phase[l] = "idle"
    /\ phase' = [phase EXCEPT ![l] = "open"]
    /\ replay' = [replay EXCEPT ![l] = tail]
    /\ queue' = [queue EXCEPT ![l] = tail]
    /\ UNCHANGED <<published, tail, last, dropped>>

\* Registration and the copy of the tail are one step: no await lies between.
Subscribe(l) ==
    /\ phase[l] = "idle"
    /\ phase' = [phase EXCEPT ![l] = "open"]
    /\ replay' = [replay EXCEPT ![l] = tail]
    /\ UNCHANGED <<published, tail, queue, last, dropped>>

\* The generator yields the next event; after a terminal one it unregisters.
Receive(l) ==
    /\ phase[l] = "open"
    /\ replay[l] \o queue[l] # <<>>
    /\ LET e    == Head(replay[l] \o queue[l])
           ends == e.status \in Terminal
           rest(s) == IF ends THEN <<>> ELSE s
       IN /\ last' = [last EXCEPT ![l] = e.at]
          /\ phase' = [phase EXCEPT ![l] = IF ends THEN "over" ELSE @]
          /\ replay' = [replay EXCEPT ![l] = rest(IF @ = <<>> THEN @ ELSE Tail(@))]
          /\ queue' = [queue EXCEPT ![l] = rest(IF replay[l] = <<>> THEN Tail(@) ELSE @)]
    /\ UNCHANGED <<published, tail, dropped>>

\* The browser closes the connection.
Leave(l) ==
    /\ phase[l] = "open"
    /\ phase' = [phase EXCEPT ![l] = "over"]
    /\ replay' = [replay EXCEPT ![l] = <<>>]
    /\ queue' = [queue EXCEPT ![l] = <<>>]
    /\ UNCHANGED <<published, tail, last, dropped>>

\* The process restarts: nothing of the broker is kept.
BrokerLost ==
    /\ tail' = <<>>
    /\ phase' = [l \in Listeners |-> IF phase[l] = "open" THEN "over" ELSE phase[l]]
    /\ replay' = [l \in Listeners |-> <<>>]
    /\ queue' = [l \in Listeners |-> <<>>]
    /\ UNCHANGED <<published, last, dropped>>
===============================================================================
