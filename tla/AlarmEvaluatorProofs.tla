------------------------- MODULE AlarmEvaluatorProofs -------------------------
(***************************************************************************)
(* AlarmEvaluator: notices tell the truth and reach every channel for any   *)
(* number of loops, requests and channels, and no counter exceeds the       *)
(* deliveries; a loop that is alone keeps one firing event, the dedup       *)
(* window and counters that match.                                          *)
(***************************************************************************)
EXTENDS AlarmEvaluator, FiniteSetTheorems, SequenceTheorems, WellFoundedInduction, TLAPS

Notifying == {"send", "read", "write"}
Ended     == {"idle", "answered"}
-------------------------------------------------------------------------------
(* The inductive invariant.                                                *)

\* What an evaluation holds where it awaits.
PlaceInv(i) ==
    /\ pc[i] \in Ended \cup {"load"} => local[i] = NoLocal
    /\ pc[i] \notin Notifying => local[i].left = {}
    /\ pc[i] \in Notifying => local[i].event \in DOMAIN events
    /\ pc[i] \in {"latest", "open"} => local[i].active = 0
    /\ pc[i] = "close" => local[i].active \in DOMAIN events

\* A channel that was gone when it was loaded still is.
SnapshotInv(i) ==
    pc[i] \notin Ended \cup {"load"} =>
        \A c \in Channels : local[i].snapshot[c] = "gone" => channel[c] = "gone"

\* Nobody tells a channel for the second time that the event fires, or that it
\* resolved before it did.
NoticeInv(i) ==
    pc[i] \in Notifying =>
        IF local[i].kind = "firing"
        THEN \A c \in local[i].left : events[local[i].event].sent[<<c, "firing">>] = 0
        ELSE events[local[i].event].state = "resolved"

\* Each event has one evaluator that tells that it fires, the one that opened it.
OpenerInv ==
    \A i, j \in Evaluators :
        /\ pc[i] \in Notifying /\ pc[j] \in Notifying
        /\ local[i].kind = "firing" /\ local[j].kind = "firing"
        /\ local[i].event = local[j].event
        => i = j

\* The events one of whose channels nobody told or will tell that it fires.
Untold ==
    {e \in DOMAIN events : \E c \in Channels :
        /\ events[e].sent[<<c, "firing">>] = 0 /\ channel[c] # "gone"
        /\ \A i \in Evaluators : ~ /\ local[i].kind = "firing" /\ local[i].event = e
                                   /\ c \in local[i].left}

UntoldInv == Cardinality(Untold) <= faults + crashes

IInv ==
    /\ TypeOK
    /\ \A i \in Evaluators : PlaceInv(i) /\ SnapshotInv(i) /\ NoticeInv(i)
    /\ OpenerInv /\ ToldTruly /\ UntoldInv

\* A loop that is alone: no other evaluator of the rule.
Alone == \E a : Loops = {a} /\ Requests = {}

\* It knows the one firing event, and opens one only out of the window of the last.
AloneInv ==
    rule.switch # "gone" =>
        /\ \A e, f \in Firing : e = f
        /\ \A i \in Evaluators :
              /\ pc[i] \in {"mark", "latest", "open", "close"} => Firing \subseteq {local[i].active}
              /\ pc[i] = "open" /\ events # <<>> /\ Dedup > 0 =>
                    events[Len(events)].age - local[i].lag > Dedup
-------------------------------------------------------------------------------
(* The events.                                                             *)

\* A set of positions of a sequence has a last one, the value of Max.
LEMMA LastOf ==
    ASSUME NEW n \in Nat, NEW S \in SUBSET (1..n), S # {}
    PROVE  Max(S) \in S
<1> DEFINE R == OpToRel(<, Nat)
           T == {n - k : k \in S}
<1>1. IsWellFoundedOn(R, Nat)
    BY NatLessThanWellFounded
<1>2. T \in SUBSET Nat /\ T # {}
  <2>1. \A k \in S : n - k \in Nat
      OBVIOUS
  <2>q. QED
      BY <2>1
<1>3. \E m \in T : \A k \in T : ~ (<<k, m>> \in R)
  <2> HIDE DEF R, T
  <2>q. QED
      BY <1>1, <1>2, WFMin
<1>4. PICK x \in S : \A y \in S : ~ (<<n - y, n - x>> \in R)
    BY <1>3
<1>5. \A m, k \in Nat : ~ (<<k, m>> \in R) => m <= k
    BY DEF OpToRel
<1>6. \A y \in S : x >= y
  <2> HIDE DEF R
  <2> SUFFICES ASSUME NEW y \in S PROVE x >= y
      OBVIOUS
  <2>1. n - x \in Nat /\ n - y \in Nat
      OBVIOUS
  <2>2. n - x <= n - y
      BY <1>4, <1>5, <2>1
  <2>q. QED
      BY <2>2
<1>q. QED
    BY <1>6 DEF Max

\* The rows of the events, and the columns of one of them.
LEMMA Rows ==
    ASSUME events \in Seq(EventType)
    PROVE  /\ Len(events) \in Nat /\ DOMAIN events = 1..Len(events)
           /\ \A e \in DOMAIN events :
                 /\ events[e] \in EventType
                 /\ events[e].state \in Kinds /\ events[e].age \in 0..OldAge
                 /\ events[e].attempts \in Nat /\ events[e].failures \in Nat
                 /\ events[e].sent \in [Channels \X Kinds -> Nat]
<1>1. Len(events) \in Nat /\ DOMAIN events = 1..Len(events)
    BY LenProperties
<1>2. \A e \in DOMAIN events : events[e] \in EventType
    BY <1>1, ElementOfSeq
<1>q. QED
    BY <1>1, <1>2 DEF EventType

\* One row is written, the others stay.
LEMMA OneRow ==
    ASSUME events \in Seq(EventType), NEW k \in DOMAIN events, NEW r \in EventType,
           events' = [events EXCEPT ![k] = r]
    PROVE  /\ events' \in Seq(EventType)
           /\ Len(events') = Len(events) /\ DOMAIN events' = DOMAIN events
           /\ \A e \in DOMAIN events : events'[e] = IF e = k THEN r ELSE events[e]
<1>1. k \in 1..Len(events)
    BY Rows
<1>2. /\ events' \in Seq(EventType) /\ Len(events') = Len(events)
      /\ \A e \in 1..Len(events) : events'[e] = IF e = k THEN r ELSE events[e]
    BY <1>1, ExceptSeq
<1>q. QED
    BY <1>2, Rows, LenProperties

\* The columns a step may write.
LEMMA Columns ==
    ASSUME NEW r \in EventType
    PROVE  /\ [r EXCEPT !.state = "resolved"] \in EventType
           /\ \A n \in Channels \X Kinds : [r EXCEPT !.sent[n] = @ + 1] \in EventType
           /\ \A a, f \in Nat : [r EXCEPT !.attempts = a, !.failures = f] \in EventType
           /\ \A g \in 0..OldAge : [r EXCEPT !.age = g] \in EventType
<1>1. [r EXCEPT !.state = "resolved"] \in EventType
    BY DEF EventType, Kinds
<1>2. ASSUME NEW n \in Channels \X Kinds PROVE [r EXCEPT !.sent[n] = @ + 1] \in EventType
  <2>1. r.sent \in [Channels \X Kinds -> Nat]
      BY DEF EventType
  <2>2. [r.sent EXCEPT ![n] = @ + 1] \in [Channels \X Kinds -> Nat]
      BY <2>1
  <2>3. [r EXCEPT !.sent = [r.sent EXCEPT ![n] = @ + 1]] \in EventType
      BY <2>2 DEF EventType
  <2>q. QED
      BY <2>3
<1>3. ASSUME NEW a \in Nat, NEW f \in Nat PROVE [r EXCEPT !.attempts = a, !.failures = f] \in EventType
    BY DEF EventType
<1>4. ASSUME NEW g \in 0..OldAge PROVE [r EXCEPT !.age = g] \in EventType
    BY DEF EventType
<1>q. QED
    BY <1>1, <1>2, <1>3, <1>4

\* Open appends an event nobody has been told of.
LEMMA Opens ==
    ASSUME TypeOK, NEW i \in Evaluators, Open(i)
    PROVE  /\ events' \in Seq(EventType)
           /\ Len(events') = Len(events) + 1 /\ DOMAIN events' = DOMAIN events \cup {Len(events) + 1}
           /\ \A e \in DOMAIN events : events'[e] = events[e]
           /\ events'[Len(events) + 1].state = "firing" /\ events'[Len(events) + 1].age = 0
           /\ events'[Len(events) + 1].attempts = 0 /\ events'[Len(events) + 1].failures = 0
           /\ \A n \in Channels \X Kinds : events'[Len(events) + 1].sent[n] = 0
<1> DEFINE r == [state |-> "firing", age |-> 0, attempts |-> 0, failures |-> 0,
                 sent |-> [n \in Channels \X Kinds |-> 0]]
<1>1. events \in Seq(EventType) /\ events' = Append(events, r)
    BY DEF TypeOK, Open
<1>2. r \in EventType
  <2>1. 0 \in 0..OldAge
      BY BoundsAssumption DEF OldAge
  <2>q. QED
      BY <2>1 DEF EventType, Kinds
<1>3. /\ r.state = "firing" /\ r.age = 0 /\ r.attempts = 0 /\ r.failures = 0
      /\ \A n \in Channels \X Kinds : r.sent[n] = 0
    OBVIOUS
<1> HIDE DEF r
<1>4. /\ events' \in Seq(EventType) /\ Len(events') = Len(events) + 1
      /\ \A e \in 1..Len(events) : events'[e] = events[e]
      /\ events'[Len(events) + 1] = r
    BY <1>1, <1>2, AppendProperties
<1>5. DOMAIN events' = 1..(Len(events) + 1)
    BY <1>4, LenProperties
<1>q. QED
    BY <1>1, <1>3, <1>4, <1>5, Rows

\* Close writes one state.
LEMMA Closes ==
    ASSUME TypeOK, NEW i \in Evaluators, Close(i), local[i].active \in DOMAIN events
    PROVE  /\ events' \in Seq(EventType)
           /\ Len(events') = Len(events) /\ DOMAIN events' = DOMAIN events
           /\ \A e \in DOMAIN events :
                 /\ events'[e].sent = events[e].sent /\ events'[e].age = events[e].age
                 /\ events'[e].attempts = events[e].attempts /\ events'[e].failures = events[e].failures
                 /\ events'[e].state = IF e = local[i].active THEN "resolved" ELSE events[e].state
<1> DEFINE k == local[i].active
           r == [events[k] EXCEPT !.state = "resolved"]
<1>1. events \in Seq(EventType) /\ events' = [events EXCEPT ![k] = r]
    BY DEF TypeOK, Close
<1>2. events[k] \in EventType
    BY <1>1, Rows
<1>3. r \in EventType
    BY <1>2, Columns
<1>4. /\ r.state = "resolved" /\ r.sent = events[k].sent /\ r.age = events[k].age
      /\ r.attempts = events[k].attempts /\ r.failures = events[k].failures
    BY <1>2 DEF EventType
<1> HIDE DEF r
<1>q. QED
    BY <1>1, <1>3, <1>4, OneRow

\* Send adds one delivery to one channel, and takes the channel from those left.
LEMMA Delivers ==
    ASSUME TypeOK, NEW i \in Evaluators, Send(i), local[i].event \in DOMAIN events
    PROVE  \E c \in local[i].left, ok \in BOOLEAN :
              /\ To(i, "read", [local[i] EXCEPT !.ok = ok, !.left = @ \ {c}])
              /\ events' \in Seq(EventType)
              /\ Len(events') = Len(events) /\ DOMAIN events' = DOMAIN events
              /\ \A e \in DOMAIN events :
                    /\ events'[e].state = events[e].state /\ events'[e].age = events[e].age
                    /\ events'[e].attempts = events[e].attempts /\ events'[e].failures = events[e].failures
                    /\ \A n \in Channels \X Kinds : events'[e].sent[n] =
                          IF e = local[i].event /\ n = <<c, local[i].kind>>
                          THEN events[e].sent[n] + 1 ELSE events[e].sent[n]
<1>1. PICK c \in local[i].left, ok \in BOOLEAN : Deliver(i, c, ok)
    BY DEF Send
<1> DEFINE k == local[i].event
           n == <<c, local[i].kind>>
           r == [events[k] EXCEPT !.sent[n] = @ + 1]
<1>2. events \in Seq(EventType) /\ events' = [events EXCEPT ![k] = r]
    BY <1>1 DEF TypeOK, Deliver
<1>3. n \in Channels \X Kinds
    BY DEF TypeOK, LocalType
<1>4. events[k] \in EventType
    BY <1>2, Rows
<1>5. r \in EventType
    BY <1>3, <1>4, Columns
<1>6. /\ r.state = events[k].state /\ r.age = events[k].age
      /\ r.attempts = events[k].attempts /\ r.failures = events[k].failures
      /\ \A m \in Channels \X Kinds : r.sent[m] = IF m = n THEN events[k].sent[m] + 1 ELSE events[k].sent[m]
    BY <1>3, <1>4 DEF EventType
<1> HIDE DEF r
<1>7. /\ events' \in Seq(EventType)
      /\ Len(events') = Len(events) /\ DOMAIN events' = DOMAIN events
      /\ \A e \in DOMAIN events : events'[e] = IF e = k THEN r ELSE events[e]
    BY <1>2, <1>5, OneRow
<1>8. To(i, "read", [local[i] EXCEPT !.ok = ok, !.left = @ \ {c}])
    BY <1>1 DEF Deliver
<1>9. \A e \in DOMAIN events :
         /\ events'[e].state = events[e].state /\ events'[e].age = events[e].age
         /\ events'[e].attempts = events[e].attempts /\ events'[e].failures = events[e].failures
         /\ \A m \in Channels \X Kinds : events'[e].sent[m] =
               IF e = k /\ m = n THEN events[e].sent[m] + 1 ELSE events[e].sent[m]
    BY <1>6, <1>7
<1>q. QED
    BY <1>7, <1>8, <1>9

\* WriteCounters writes the two counters.
LEMMA Counts ==
    ASSUME TypeOK, NEW i \in Evaluators, WriteCounters(i), local[i].event \in DOMAIN events
    PROVE  /\ events' \in Seq(EventType)
           /\ Len(events') = Len(events) /\ DOMAIN events' = DOMAIN events
           /\ \A e \in DOMAIN events :
                 /\ events'[e].sent = events[e].sent /\ events'[e].age = events[e].age
                 /\ events'[e].state = events[e].state
                 /\ events'[e].attempts = IF e = local[i].event THEN local[i].attempts + 1
                                          ELSE events[e].attempts
                 /\ events'[e].failures = IF e = local[i].event /\ ~local[i].ok
                                          THEN local[i].failures + 1 ELSE events[e].failures
<1> DEFINE k == local[i].event
           a == local[i].attempts + 1
           f == IF local[i].ok THEN events[k].failures ELSE local[i].failures + 1
           r == [events[k] EXCEPT !.attempts = a, !.failures = f]
<1>1. events \in Seq(EventType)
    BY DEF TypeOK
<1>2. events[k] \in EventType /\ events[k].failures \in Nat
    BY <1>1, Rows
<1>3. local[i].attempts \in Nat /\ local[i].failures \in Nat
    BY DEF TypeOK, LocalType
<1>4. a \in Nat /\ f \in Nat
    BY <1>2, <1>3
<1>5. r \in EventType
  <2> HIDE DEF a, f
  <2>q. QED
      BY <1>2, <1>4, Columns
<1>6. /\ r.state = events[k].state /\ r.sent = events[k].sent /\ r.age = events[k].age
      /\ r.attempts = a /\ r.failures = f
    BY <1>2 DEF EventType
<1>7. events' = [events EXCEPT ![k] = r]
    BY <1>2 DEF WriteCounters, EventType
<1> HIDE DEF r
<1>q. QED
    BY <1>1, <1>5, <1>6, <1>7, OneRow

\* Tick writes the ages.
LEMMA Ages ==
    ASSUME TypeOK, Tick
    PROVE  /\ events' \in Seq(EventType)
           /\ Len(events') = Len(events) /\ DOMAIN events' = DOMAIN events
           /\ \A e \in DOMAIN events :
                 /\ events'[e].sent = events[e].sent /\ events'[e].state = events[e].state
                 /\ events'[e].attempts = events[e].attempts /\ events'[e].failures = events[e].failures
                 /\ events'[e].age = IF events[e].age < OldAge THEN events[e].age + 1 ELSE events[e].age
<1> DEFINE G(e) == IF events[e].age < OldAge THEN events[e].age + 1 ELSE events[e].age
           R(e) == [events[e] EXCEPT !.age = G(e)]
<1>1. events \in Seq(EventType) /\ events' = [e \in DOMAIN events |-> R(e)]
    BY DEF TypeOK, Tick
<1>2. Len(events) \in Nat /\ DOMAIN events = 1..Len(events)
    BY <1>1, Rows
<1>3. ASSUME NEW e \in DOMAIN events
      PROVE  /\ R(e) \in EventType
             /\ R(e).sent = events[e].sent /\ R(e).state = events[e].state /\ R(e).age = G(e)
             /\ R(e).attempts = events[e].attempts /\ R(e).failures = events[e].failures
  <2>1. events[e] \in EventType /\ events[e].age \in 0..OldAge
      BY <1>1, Rows
  <2>2. OldAge \in Nat
      BY BoundsAssumption DEF OldAge
  <2>3. G(e) \in 0..OldAge
      BY <2>1, <2>2
  <2>4. R(e) \in EventType
    <3> HIDE DEF G
    <3>q. QED
        BY <2>1, <2>3, Columns
  <2>q. QED
      BY <2>1, <2>4 DEF EventType
<1> HIDE DEF R
<1>4. events' \in [1..Len(events) -> EventType]
    BY <1>1, <1>2, <1>3
<1>5. events' \in Seq(EventType)
    BY <1>2, <1>4, SeqDef
<1>6. DOMAIN events' = 1..Len(events)
    BY <1>4
<1>7. Len(events') = Len(events)
  <2>1. Len(events') \in Nat /\ DOMAIN events' = 1..Len(events')
      BY <1>5, LenProperties
  <2>q. QED
      BY <1>2, <1>6, <2>1
<1>q. QED
    BY <1>1, <1>2, <1>3, <1>5, <1>6, <1>7
-------------------------------------------------------------------------------
(* The evaluators.                                                         *)

\* Where an evaluator awaits.
LEMMA Known ==
    ASSUME IInv
    PROVE  /\ pc \in [Evaluators -> Ended \cup Steps] /\ local \in [Evaluators -> LocalType]
           /\ events \in Seq(EventType) /\ channel \in [Channels -> Switch]
           /\ \A i \in Evaluators :
                 /\ PlaceInv(i) /\ SnapshotInv(i) /\ NoticeInv(i)
                 /\ local[i] \in LocalType
                 /\ local[i].left \in SUBSET Channels /\ local[i].kind \in Kinds
                 /\ local[i].active \in 0..Len(events) /\ local[i].event \in 0..Len(events)
BY DEF IInv, TypeOK, LocalType, Ended

\* The local variables of an evaluation that starts.
LEMMA Locals ==
    /\ NoLocal \in LocalType
    /\ \A h \in [Channels -> Switch] : [NoLocal EXCEPT !.snapshot = h] \in LocalType
<1>1. NoLocal \in LocalType
  <2>1. 0 \in 0..MaxLag /\ [c \in Channels |-> "gone"] \in [Channels -> Switch]
      BY BoundsAssumption DEF Switch
  <2>q. QED
      BY <2>1 DEF NoLocal, LocalType, Signals, Kinds
<1>2. ASSUME NEW h \in [Channels -> Switch] PROVE [NoLocal EXCEPT !.snapshot = h] \in LocalType
    BY <1>1 DEF LocalType
<1>q. QED
    BY <1>1, <1>2

\* An evaluator that ends drops its local variables.
LEMMA Ends ==
    ASSUME IInv, NEW i \in Evaluators, NEW l, To(i, "end", l)
    PROVE  pc'[i] \in Ended /\ local'[i] = NoLocal
BY Known DEF To, Ended

\* One that goes on takes them along.
LEMMA GoesOn ==
    ASSUME IInv, NEW i \in Evaluators, NEW l, NEW step \in Steps, To(i, step, l)
    PROVE  pc'[i] = step /\ local'[i] = l
BY Known DEF To, Steps

\* The others keep theirs.
LEMMA OneMoves ==
    ASSUME IInv, NEW i \in Evaluators, Step(i) \/ Raises(i) \/ Crash(i)
    PROVE  \A j \in Evaluators : j # i => pc'[j] = pc[j] /\ local'[j] = local[j]
<1>1. \E step, l : To(i, step, l)
    BY DEF Step, Raises, Crash, Begin, Load, Compute, Insufficient, Find, Mark, Latest, Open, Close, FanOut,
        Send, Deliver, ReadCounters, WriteCounters
<1>2. PICK step, l : To(i, step, l)
    BY <1>1
<1>q. QED
    BY <1>2, Known DEF To

\* Of an evaluator that does not move, nothing but the time changes.
Still(j) ==
    /\ pc'[j] = pc[j]
    /\ local'[j].snapshot = local[j].snapshot /\ local'[j].active = local[j].active
    /\ local'[j].event = local[j].event /\ local'[j].kind = local[j].kind
    /\ local'[j].left = local[j].left
    /\ pc[j] \in Ended \cup {"load"} => local'[j] = local[j]

\* A step moves an evaluator or leaves what it holds.
LEMMA MovesOrStill ==
    ASSUME IInv, Next, NEW j \in Evaluators
    PROVE  Still(j) \/ Step(j) \/ Raises(j) \/ Crash(j)
<1>1. CASE \E i \in Evaluators : Step(i) \/ Raises(i) \/ Crash(i)
    BY <1>1, OneMoves DEF Still
<1>2. CASE Tick
  <2>1. local' = [i \in Evaluators |-> IF i \in Timed THEN [local[i] EXCEPT !.lag = @ + 1] ELSE local[i]]
      BY <1>2 DEF Tick
  <2>2. local[j] \in LocalType
      BY Known
  <2>3. pc[j] \in Ended \cup {"load"} => j \notin Timed
      BY DEF Timed, Ended, Steps
  <2>q. QED
      BY <1>2, <2>1, <2>2, <2>3 DEF Still, Tick, LocalType
<1>3. CASE Flip \/ Edit
    BY <1>3 DEF Flip, Edit, Still
<1>q. QED
    BY <1>1, <1>2, <1>3 DEF Next

\* A fan-out ends at once or goes to every channel that was there when they were loaded.
LEMMA FansOut ==
    ASSUME IInv, NEW i \in Evaluators, NEW e \in Nat, NEW k \in Kinds, FanOut(i, e, k)
    PROVE  LET targets == {c \in Channels : local[i].snapshot[c] # "gone"}
           IN \/ pc'[i] \in Ended /\ local'[i] = NoLocal /\ targets = {}
              \/ /\ pc'[i] = "send" /\ local'[i].snapshot = local[i].snapshot
                 /\ local'[i].event = e /\ local'[i].kind = k /\ local'[i].left = targets
                 /\ local'[i].active = local[i].active
<1> DEFINE targets == {c \in Channels : local[i].snapshot[c] # "gone"}
           l == [local[i] EXCEPT !.event = e, !.kind = k, !.left = targets]
<1>1. To(i, IF targets = {} THEN "end" ELSE "send", l)
    BY DEF FanOut
<1>2. local[i] \in LocalType
    BY Known
<1>3. /\ l.snapshot = local[i].snapshot /\ l.active = local[i].active
      /\ l.event = e /\ l.kind = k /\ l.left = targets
    BY <1>2 DEF LocalType
<1> HIDE DEF l
<1>4. CASE targets = {}
    BY <1>1, <1>4, Ends
<1>5. CASE targets # {}
  <2>1. "send" \in Steps /\ To(i, "send", l)
      BY <1>1, <1>5 DEF Steps
  <2>2. pc'[i] = "send" /\ local'[i] = l
      BY <2>1, GoesOn
  <2>q. QED
      BY <1>3, <2>2
<1>q. QED
    BY <1>4, <1>5

\* What happened stays so: events, deliveries, ends of events, of channels and of the rule.
LEMMA Grows ==
    ASSUME IInv, Next
    PROVE  /\ events' \in Seq(EventType)
           /\ Len(events) <= Len(events') /\ Len(events') \in Nat /\ DOMAIN events' = 1..Len(events')
           /\ DOMAIN events \subseteq DOMAIN events'
           /\ \A e \in DOMAIN events : events[e].state = "resolved" => events'[e].state = "resolved"
           /\ channel' \in [Channels -> Switch]
           /\ \A c \in Channels : channel[c] = "gone" => channel'[c] = "gone"
           /\ rule.switch = "gone" => rule'.switch = "gone"
<1>1. TypeOK /\ events \in Seq(EventType) /\ Len(events) \in Nat /\ DOMAIN events = 1..Len(events)
    BY Rows DEF IInv, TypeOK
<1>2. /\ events' \in Seq(EventType) /\ Len(events) <= Len(events')
      /\ \A e \in DOMAIN events : events[e].state = "resolved" => events'[e].state = "resolved"
  <2>1. ASSUME NEW i \in Evaluators, Step(i)
        PROVE  /\ events' \in Seq(EventType) /\ Len(events) <= Len(events')
               /\ \A e \in DOMAIN events : events[e].state = "resolved" => events'[e].state = "resolved"
    <3>1. CASE Open(i)
        BY <1>1, <3>1, Opens
    <3>2. CASE Close(i)
      <4>1. local[i].active \in DOMAIN events
          BY <3>2, Known DEF PlaceInv, Close
      <4>q. QED
          BY <1>1, <3>2, <4>1, Closes
    <3>3. CASE Send(i)
      <4>1. local[i].event \in DOMAIN events
          BY <3>3, Known DEF PlaceInv, Send, Notifying
      <4>2. /\ events' \in Seq(EventType) /\ Len(events') = Len(events)
            /\ \A e \in DOMAIN events : events'[e].state = events[e].state
          BY <1>1, <3>3, <4>1, Delivers
      <4>q. QED
          BY <1>1, <4>2
    <3>4. CASE WriteCounters(i)
      <4>1. local[i].event \in DOMAIN events
          BY <3>4, Known DEF PlaceInv, WriteCounters, Notifying
      <4>q. QED
          BY <1>1, <3>4, <4>1, Counts
    <3>5. CASE ~ (Open(i) \/ Close(i) \/ Send(i) \/ WriteCounters(i))
      <4>1. events' = events
          BY <2>1, <3>5 DEF Step, Begin, Load, Compute, Insufficient, Find, Mark, Latest, ReadCounters, rows
      <4>q. QED
          BY <1>1, <4>1
    <3>q. QED
        BY <3>1, <3>2, <3>3, <3>4, <3>5
  <2>2. CASE Tick
      BY <1>1, <2>2, Ages
  <2>3. CASE (\E i \in Evaluators : Raises(i) \/ Crash(i)) \/ Flip \/ Edit
    <3>1. events' = events
        BY <2>3 DEF Raises, Crash, Flip, Edit, rows
    <3>q. QED
        BY <1>1, <3>1
  <2>q. QED
      BY <2>1, <2>2, <2>3 DEF Next
<1>3. /\ Len(events') \in Nat /\ DOMAIN events' = 1..Len(events')
      /\ DOMAIN events \subseteq DOMAIN events'
  <2>1. Len(events') \in Nat /\ DOMAIN events' = 1..Len(events')
      BY <1>2, LenProperties
  <2>q. QED
      BY <1>1, <1>2, <2>1
<1>4. /\ channel' \in [Channels -> Switch]
      /\ \A c \in Channels : channel[c] = "gone" => channel'[c] = "gone"
  <2>1. channel \in [Channels -> Switch]
      BY Known
  <2>2. channel' = channel \/ \E c \in Channels : /\ channel[c] # "gone"
                                                  /\ \E w \in Switch : channel' = [channel EXCEPT ![c] = w]
      BY DEF Next, Step, Begin, Load, Compute, Insufficient, Find, Mark, Latest, Open, Close,
          Send, ReadCounters, WriteCounters, Raises, Crash, Flip, Edit, Tick, rows
  <2>q. QED
      BY <2>1, <2>2
<1>5. rule.switch = "gone" => rule'.switch = "gone"
  <2>1. CASE \E u : SetLast(u)
      BY <2>1 DEF SetLast
  <2>2. CASE ~ \E u : SetLast(u)
    <3>1. rule' = rule \/ rule.switch # "gone"
        BY <2>2 DEF Next, Step, Begin, Load, Compute, Insufficient, Find, Mark, Latest, Open, Close,
            Send, ReadCounters, WriteCounters, Raises, Crash, Flip, Edit, Tick, rows
    <3>q. QED
        BY <3>1
  <2>q. QED
      BY <2>1, <2>2
<1>q. QED
    BY <1>2, <1>3, <1>4, <1>5

\* What an evaluator that moves does with its fan-out: it has none, or has finished it or
\* is cut short; it goes on with it, and drops the channels it has told; it starts one for
\* the event it opened or closed.
Carries(i) ==
    \/ /\ pc'[i] \notin Notifying /\ local'[i].left = {}
       /\ local[i].left = {} \/ Raises(i) \/ Crash(i)
    \/ /\ pc[i] \in Notifying /\ pc'[i] \in Notifying
       /\ local'[i].event = local[i].event /\ local'[i].kind = local[i].kind
       /\ local'[i].left \subseteq local[i].left
       /\ \A c \in local[i].left \ local'[i].left :
             events'[local[i].event].sent[<<c, local[i].kind>>] =
                events[local[i].event].sent[<<c, local[i].kind>>] + 1
    \/ /\ pc'[i] \in Notifying /\ Open(i)
       /\ local'[i].event = Len(events) + 1 /\ local'[i].kind = "firing"
    \/ /\ pc'[i] \in Notifying /\ Close(i)
       /\ local'[i].event = local[i].active /\ local'[i].kind = "resolved"

\* Each step of an evaluator.
LEMMA Evaluates ==
    ASSUME IInv, Next, NEW i \in Evaluators, Step(i) \/ Raises(i) \/ Crash(i)
    PROVE  PlaceInv(i)' /\ SnapshotInv(i)' /\ Carries(i) /\ local'[i] \in LocalType
           /\ {local'[i].active, local'[i].event} \subseteq 0..Len(events')
           /\ pc'[i] \in Ended \cup Steps
<1> DEFINE Done == PlaceInv(i)' /\ SnapshotInv(i)' /\ Carries(i) /\ local'[i] \in LocalType
                   /\ {local'[i].active, local'[i].event} \subseteq 0..Len(events')
                   /\ pc'[i] \in Ended \cup Steps
<1>1. /\ PlaceInv(i) /\ SnapshotInv(i) /\ local[i] \in LocalType
      /\ local[i].active \in 0..Len(events) /\ local[i].event \in 0..Len(events)
      /\ Len(events) \in Nat /\ DOMAIN events = 1..Len(events)
    BY Known, Rows
<1>2. /\ Len(events) <= Len(events') /\ Len(events') \in Nat /\ DOMAIN events' = 1..Len(events')
      /\ \A c \in Channels : channel[c] = "gone" => channel'[c] = "gone"
    BY Grows
<1>3. /\ NoLocal \in LocalType /\ NoLocal.left = {} /\ NoLocal.active = 0 /\ NoLocal.event = 0
  <2>1. NoLocal.left = {} /\ NoLocal.active = 0 /\ NoLocal.event = 0
      BY DEF NoLocal
  <2>q. QED
      BY <2>1, Locals
<1>4. ASSUME NEW l, To(i, "end", l), local[i].left = {} \/ Raises(i) \/ Crash(i) PROVE Done
  <2>1. pc'[i] \in Ended /\ local'[i] = NoLocal
      BY <1>4, Ends
  <2>q. QED
      BY <1>2, <1>3, <1>4, <2>1 DEF PlaceInv, SnapshotInv, Carries, Ended, Notifying
<1>5. CASE Begin(i)
  <2>1. pc'[i] = "load" /\ local'[i] = NoLocal
      BY <1>5, GoesOn DEF Begin, Steps
  <2>2. local[i].left = {}
      BY <1>1, <1>5 DEF PlaceInv, Begin, Notifying
  <2>q. QED
      BY <1>2, <1>3, <2>1, <2>2 DEF PlaceInv, SnapshotInv, Carries, Ended, Notifying, Steps
<1>6. CASE Load(i)
  <2>1. pc'[i] = "compute" /\ local'[i] = [NoLocal EXCEPT !.snapshot = channel]
      BY <1>6, GoesOn DEF Load, Steps
  <2>2. local'[i] \in LocalType
      BY <2>1, Known, Locals
  <2>3. /\ local'[i].left = {} /\ local'[i].active = 0 /\ local'[i].event = 0
        /\ local'[i].snapshot = channel
      BY <2>1 DEF NoLocal
  <2>4. channel' = channel /\ local[i].left = {}
      BY <1>1, <1>6 DEF Load, rows, PlaceInv, Notifying
  <2>q. QED
      BY <1>2, <2>1, <2>2, <2>3, <2>4 DEF PlaceInv, SnapshotInv, Carries, Ended, Notifying, Steps
<1>7. CASE Compute(i)
  <2>1. /\ pc[i] = "compute" /\ pc'[i] \in {"insufficient", "find"}
        /\ local'[i] = [local[i] EXCEPT !.reading = signal]
      BY <1>7, GoesOn DEF Compute, Steps
  <2>2. local'[i] \in LocalType
    <3>1. signal \in Signals
        BY DEF IInv, TypeOK
    <3>q. QED
        BY <1>1, <2>1, <3>1 DEF LocalType
  <2>3. /\ local'[i].left = local[i].left /\ local'[i].snapshot = local[i].snapshot
        /\ local'[i].active = local[i].active /\ local'[i].event = local[i].event
      BY <1>1, <2>1 DEF LocalType
  <2>q. QED
      BY <1>1, <1>2, <2>1, <2>2, <2>3 DEF PlaceInv, SnapshotInv, Carries, Ended, Notifying, Steps
<1>8. CASE Find(i)
  <2>1. PICK e \in 0..Len(events) : local'[i] = [local[i] EXCEPT !.active = e] /\ pc'[i] = "mark"
    <3> DEFINE e == IF rule.switch = "gone" \/ Firing = {} THEN 0 ELSE Max(Firing)
    <3>1. Firing \in SUBSET (1..Len(events))
        BY <1>1 DEF Firing
    <3>2. Firing # {} => Max(Firing) \in Firing
      <4>1. Len(events) \in Nat
          BY <1>1
      <4>q. QED
          BY <3>1, <4>1, LastOf
    <3>3. e \in 0..Len(events)
      <4>1. Firing # {} => Max(Firing) \in 1..Len(events)
          BY <3>1, <3>2
      <4>q. QED
          BY <1>1, <4>1
    <3>4. To(i, "mark", [local[i] EXCEPT !.active = e]) /\ "mark" \in Steps
        BY <1>8 DEF Find, Steps
    <3> HIDE DEF e
    <3>5. local'[i] = [local[i] EXCEPT !.active = e] /\ pc'[i] = "mark"
        BY <3>4, GoesOn
    <3>q. QED
        BY <3>3, <3>5
  <2>2. local'[i] \in LocalType
    <3>1. e \in Nat
        BY <1>1
    <3>q. QED
        BY <1>1, <2>1, <3>1 DEF LocalType
  <2>3. /\ local'[i].left = local[i].left /\ local'[i].snapshot = local[i].snapshot
        /\ local'[i].active = e /\ local'[i].event = local[i].event
      BY <1>1, <2>1 DEF LocalType
  <2>4. pc[i] = "find"
      BY <1>8 DEF Find
  <2>q. QED
      BY <1>1, <1>2, <2>1, <2>2, <2>3, <2>4 DEF PlaceInv, SnapshotInv, Carries, Ended, Notifying, Steps
<1>9. CASE Mark(i)
  <2>1. CASE Decide(i) = "end"
      BY <1>1, <1>4, <1>9, <2>1 DEF Mark, PlaceInv, Notifying
  <2>2. CASE Decide(i) # "end"
    <3>1. \/ Decide(i) \in {"latest", "open"} /\ local[i].active = 0
          \/ Decide(i) = "close" /\ local[i].active # 0
        BY <2>2 DEF Decide
    <3>2. Decide(i) \in Steps /\ To(i, Decide(i), local[i]) /\ pc[i] = "mark"
        BY <1>9, <3>1 DEF Mark, Steps
    <3>3. pc'[i] = Decide(i) /\ local'[i] = local[i]
        BY <3>2, GoesOn
    <3>q. QED
        BY <1>1, <1>2, <3>1, <3>2, <3>3 DEF PlaceInv, SnapshotInv, Carries, Ended, Notifying, Steps
  <2>q. QED
      BY <2>1, <2>2
<1>10. CASE Latest(i)
  <2>1. CASE To(i, "end", local[i])
      BY <1>1, <1>4, <1>10, <2>1 DEF Latest, PlaceInv, Notifying
  <2>2. CASE To(i, "open", local[i])
    <3>1. pc[i] = "latest" /\ pc'[i] = "open" /\ local'[i] = local[i]
        BY <1>10, <2>2, GoesOn DEF Latest, Steps
    <3>q. QED
        BY <1>1, <1>2, <3>1 DEF PlaceInv, SnapshotInv, Carries, Ended, Notifying, Steps
  <2>q. QED
      BY <1>10, <2>1, <2>2 DEF Latest
<1>11. ASSUME NEW e \in DOMAIN events', NEW k \in Kinds, FanOut(i, e, k),
              pc[i] \in {"open", "close"},
              \/ Open(i) /\ e = Len(events) + 1 /\ k = "firing"
              \/ Close(i) /\ e = local[i].active /\ k = "resolved"
       PROVE  Done
  <2> DEFINE targets == {c \in Channels : local[i].snapshot[c] # "gone"}
  <2>1. e \in Nat
      BY <1>2
  <2>2. CASE pc'[i] \in Ended /\ local'[i] = NoLocal
      BY <1>1, <1>2, <1>3, <1>11, <2>2 DEF PlaceInv, SnapshotInv, Carries, Ended, Notifying
  <2>3. CASE /\ pc'[i] = "send" /\ local'[i].snapshot = local[i].snapshot
             /\ local'[i].event = e /\ local'[i].kind = k /\ local'[i].left = targets
             /\ local'[i].active = local[i].active
    <3>1. local'[i] \in LocalType
      <4>1. local'[i] = [local[i] EXCEPT !.event = e, !.kind = k, !.left = targets]
          BY <1>11, <2>3, Known DEF FanOut, To, Ended
      <4>2. targets \in SUBSET Channels
          OBVIOUS
      <4> HIDE DEF targets
      <4>q. QED
          BY <1>1, <1>11, <2>1, <4>1, <4>2 DEF LocalType
    <3>q. QED
        BY <1>1, <1>2, <1>11, <2>3, <3>1 DEF PlaceInv, SnapshotInv, Carries, Ended, Notifying, Steps
  <2>q. QED
      BY <1>11, <2>1, <2>2, <2>3, FansOut
<1>12. CASE Open(i)
  <2>1. Len(events) + 1 \in DOMAIN events'
      BY <1>1, <1>12, Opens DEF IInv
  <2>q. QED
      BY <1>11, <1>12, <2>1 DEF Open, Kinds
<1>13. CASE Close(i)
  <2>1. local[i].active \in DOMAIN events'
      BY <1>1, <1>13, Grows DEF Close, PlaceInv
  <2>q. QED
      BY <1>11, <1>13, <2>1 DEF Close, Kinds
<1>14. CASE Send(i)
  <2>1. pc[i] = "send" /\ local[i].event \in DOMAIN events
      BY <1>1, <1>14 DEF Send, PlaceInv, Notifying
  <2>2. PICK c \in local[i].left, ok \in BOOLEAN :
            /\ To(i, "read", [local[i] EXCEPT !.ok = ok, !.left = @ \ {c}])
            /\ \A e \in DOMAIN events : \A n \in Channels \X Kinds : events'[e].sent[n] =
                  IF e = local[i].event /\ n = <<c, local[i].kind>>
                  THEN events[e].sent[n] + 1 ELSE events[e].sent[n]
      BY <1>14, <2>1, Delivers DEF IInv
  <2>3. pc'[i] = "read" /\ local'[i] = [local[i] EXCEPT !.ok = ok, !.left = local[i].left \ {c}]
      BY <2>2, GoesOn DEF Steps
  <2>4. local'[i] \in LocalType
    <3>1. local[i].left \ {c} \in SUBSET Channels
        BY Known
    <3>q. QED
        BY <1>1, <2>3, <3>1 DEF LocalType
  <2>5. /\ local'[i].left \subseteq local[i].left /\ local'[i].snapshot = local[i].snapshot
        /\ local'[i].active = local[i].active /\ local'[i].event = local[i].event
        /\ local'[i].kind = local[i].kind /\ local[i].left \ local'[i].left \subseteq {c}
      BY <1>1, <2>3 DEF LocalType
  <2>6. /\ <<c, local[i].kind>> \in Channels \X Kinds
        /\ events'[local[i].event].sent[<<c, local[i].kind>>] =
              events[local[i].event].sent[<<c, local[i].kind>>] + 1
    <3>1. c \in Channels /\ local[i].kind \in Kinds
        BY Known
    <3>q. QED
        BY <2>1, <2>2, <3>1
  <2>7. Carries(i)
      BY <2>1, <2>3, <2>5, <2>6 DEF Carries, Notifying
  <2>q. QED
      BY <1>1, <1>2, <2>1, <2>3, <2>4, <2>5, <2>7 DEF PlaceInv, SnapshotInv, Ended, Notifying, Steps
<1>15. CASE ReadCounters(i)
  <2> DEFINE e == events[local[i].event]
  <2>1. pc[i] = "read" /\ local[i].event \in DOMAIN events
      BY <1>1, <1>15 DEF ReadCounters, PlaceInv, Notifying
  <2>2. e.attempts \in Nat /\ e.failures \in Nat
      BY <2>1, Known, Rows
  <2>3. /\ pc'[i] = "write"
        /\ local'[i] = [local[i] EXCEPT !.attempts = e.attempts, !.failures = e.failures]
      BY <1>15, GoesOn DEF ReadCounters, Steps
  <2>4. local'[i] \in LocalType
      BY <1>1, <2>2, <2>3 DEF LocalType
  <2>5. /\ local'[i].left = local[i].left /\ local'[i].snapshot = local[i].snapshot
        /\ local'[i].active = local[i].active /\ local'[i].event = local[i].event
        /\ local'[i].kind = local[i].kind
      BY <1>1, <2>3 DEF LocalType
  <2>q. QED
      BY <1>1, <1>2, <2>1, <2>3, <2>4, <2>5 DEF PlaceInv, SnapshotInv, Carries, Ended, Notifying, Steps
<1>16. CASE WriteCounters(i)
  <2>1. CASE AfterDelivery(i) = "end"
      BY <1>4, <1>16, <2>1 DEF WriteCounters, AfterDelivery
  <2>2. CASE AfterDelivery(i) # "end"
    <3>1. pc[i] = "write" /\ pc'[i] = "send" /\ local'[i] = local[i]
        BY <1>16, <2>2, GoesOn DEF WriteCounters, AfterDelivery, Steps
    <3>q. QED
        BY <1>1, <1>2, <3>1 DEF PlaceInv, SnapshotInv, Carries, Ended, Notifying, Steps
  <2>q. QED
      BY <2>1, <2>2
<1>17. CASE Insufficient(i)
    BY <1>1, <1>4, <1>17 DEF Insufficient, PlaceInv, Notifying
<1>18. CASE Raises(i) \/ Crash(i)
  <2>1. To(i, "end", NoLocal)
      BY <1>18 DEF Raises, Crash
  <2>q. QED
      BY <1>4, <1>18, <2>1
<1>q. QED
    BY <1>5, <1>6, <1>7, <1>8, <1>9, <1>10, <1>12, <1>13, <1>14, <1>15, <1>16, <1>17, <1>18 DEF Step

\* The types of a next state.
LEMMA TypeStep ==
    ASSUME IInv, Next
    PROVE  TypeOK'
<1>1. TypeOK
    BY DEF IInv
<1>2. events' \in Seq(EventType) /\ channel' \in [Channels -> Switch] /\ Len(events) <= Len(events')
      /\ Len(events') \in Nat /\ Len(events) \in Nat
    BY <1>1, Grows, Rows DEF TypeOK
<1>3. rule' \in [switch : Switch, last : {"new", "ok", "firing", "insufficient_data"}]
  <2> DEFINE RuleType == [switch : Switch, last : {"new", "ok", "firing", "insufficient_data"}]
  <2>1. rule \in RuleType
      BY <1>1 DEF TypeOK
  <2>2. \A u \in {"ok", "firing", "insufficient_data"} : SetLast(u) => rule' \in RuleType
      BY <2>1 DEF SetLast
  <2>3. \A w \in Switch : rule' = [rule EXCEPT !.switch = w] => rule' \in RuleType
      BY <2>1
  <2>4. \/ rule' = rule
        \/ \E u \in {"ok", "firing", "insufficient_data"} : SetLast(u)
        \/ \E w \in Switch : rule' = [rule EXCEPT !.switch = w]
      BY DEF Next, Step, Begin, Load, Compute, Insufficient, Find, Mark, Latest, Open, Close,
          Send, ReadCounters, WriteCounters, Raises, Crash, Flip, Edit, Tick, rows
  <2> HIDE DEF RuleType
  <2>5. rule' \in RuleType
      BY <2>1, <2>2, <2>3, <2>4
  <2>q. QED
      BY <2>5 DEF RuleType
<1>4. signal' \in Signals
  <2>1. signal' = signal \/ signal' \in Signals
      BY DEF Next, Step, Begin, Load, Compute, Insufficient, Find, Mark, Latest, Open, Close,
          Send, ReadCounters, WriteCounters, Raises, Crash, Flip, Edit, Tick, rows
  <2>q. QED
      BY <1>1, <2>1 DEF TypeOK
<1>5. {flips, edits, faults, crashes}' \subseteq Nat
  <2>1. /\ flips' = flips \/ flips' = flips + 1
        /\ edits' = edits \/ edits' = edits + 1
        /\ faults' = faults \/ faults' = faults + 1
        /\ crashes' = crashes \/ crashes' = crashes + 1
      BY DEF Next, Step, Begin, Load, Compute, Insufficient, Find, Mark, Latest, Open, Close,
          Send, ReadCounters, WriteCounters, Raises, Crash, Flip, Edit, Tick, bounds
  <2>q. QED
      BY <1>1, <2>1 DEF TypeOK
<1>6. pc' \in [Evaluators -> {"idle", "answered"} \cup Steps] /\ local' \in [Evaluators -> LocalType]
  <2>1. CASE Tick
    <3>1. pc' = pc
        BY <2>1 DEF Tick
    <3>2. ASSUME NEW i \in Timed PROVE [local[i] EXCEPT !.lag = @ + 1] \in LocalType
      <4>1. local[i] \in LocalType /\ i \in Evaluators
          BY Known DEF Timed
      <4>2. local[i].lag \in 0..MaxLag /\ local[i].lag < MaxLag /\ MaxLag \in Nat
          BY <2>1, <4>1, BoundsAssumption DEF Tick, LocalType
      <4>3. local[i].lag + 1 \in 0..MaxLag
          BY <4>2
      <4>q. QED
          BY <4>1, <4>3 DEF LocalType
    <3>q. QED
        BY <1>1, <2>1, <3>1, <3>2 DEF Tick, TypeOK
  <2>2. CASE Flip \/ Edit
      BY <1>1, <2>2 DEF Flip, Edit, TypeOK
  <2>3. ASSUME NEW i \in Evaluators, Step(i) \/ Raises(i) \/ Crash(i)
        PROVE  pc' \in [Evaluators -> Ended \cup Steps] /\ local' \in [Evaluators -> LocalType]
    <3>1. pc'[i] \in Ended \cup Steps /\ local'[i] \in LocalType
        BY <2>3, Evaluates
    <3>2. \A j \in Evaluators : j # i => pc'[j] = pc[j] /\ local'[j] = local[j]
        BY <2>3, OneMoves
    <3>3. \E step, l : pc' = [pc EXCEPT ![i] = step] /\ local' = [local EXCEPT ![i] = l]
      <4>1. \E step, l : To(i, step, l)
          BY <2>3 DEF Step, Raises, Crash, Begin, Load, Compute, Insufficient, Find, Mark, Latest, Open, Close,
              FanOut, Send, Deliver, ReadCounters, WriteCounters
      <4>q. QED
          BY <4>1 DEF To
    <3>q. QED
        BY <3>1, <3>3, Known
  <2>q. QED
      BY <2>1, <2>2, <2>3 DEF Next, Ended
<1>7. \A i \in Evaluators : {local'[i].active, local'[i].event} \subseteq 0..Len(events')
  <2> SUFFICES ASSUME NEW i \in Evaluators PROVE {local'[i].active, local'[i].event} \subseteq 0..Len(events')
      OBVIOUS
  <2>1. CASE Step(i) \/ Raises(i) \/ Crash(i)
      BY <2>1, Evaluates
  <2>2. CASE Still(i)
      BY <1>2, <2>2, Known DEF Still
  <2>q. QED
      BY <2>1, <2>2, MovesOrStill
<1>q. QED
    BY <1>2, <1>3, <1>4, <1>5, <1>6, <1>7 DEF TypeOK
-------------------------------------------------------------------------------
(* The notices.                                                            *)

\* Evaluator i tells channel c of event e.
Tells(i, e, c, k) ==
    /\ pc[i] = "send" /\ Step(i)
    /\ local[i].event = e /\ local[i].kind = k
    /\ c \in local[i].left /\ c \notin local'[i].left

\* A channel is told by an evaluator that has it left; a new event starts with nobody told.
LEMMA Deliveries ==
    ASSUME IInv, Next
    PROVE  /\ \A e \in DOMAIN events, c \in Channels, k \in Kinds :
                 \/ events'[e].sent[<<c, k>>] = events[e].sent[<<c, k>>]
                 \/ /\ events'[e].sent[<<c, k>>] = events[e].sent[<<c, k>>] + 1
                    /\ \E i \in Evaluators : Tells(i, e, c, k)
           /\ \A e \in DOMAIN events' \ DOMAIN events :
                 /\ \E i \in Evaluators : Open(i) /\ e = Len(events) + 1
                 /\ \A c \in Channels, k \in Kinds : events'[e].sent[<<c, k>>] = 0
<1>1. TypeOK
    BY DEF IInv
<1>2. CASE \E i \in Evaluators : Open(i)
  <2>1. PICK i \in Evaluators : Open(i)
      BY <1>2
  <2>2. /\ DOMAIN events' = DOMAIN events \cup {Len(events) + 1}
        /\ \A e \in DOMAIN events : events'[e] = events[e]
        /\ \A n \in Channels \X Kinds : events'[Len(events) + 1].sent[n] = 0
      BY <1>1, <2>1, Opens
  <2>q. QED
      BY <2>1, <2>2
<1>3. CASE \E i \in Evaluators : Send(i)
  <2>1. PICK i \in Evaluators : Send(i)
      BY <1>3
  <2>2. pc[i] = "send" /\ local[i].event \in DOMAIN events
      BY <2>1, Known DEF Send, PlaceInv, Notifying
  <2>3. PICK c \in local[i].left, ok \in BOOLEAN :
            /\ To(i, "read", [local[i] EXCEPT !.ok = ok, !.left = @ \ {c}])
            /\ DOMAIN events' = DOMAIN events
            /\ \A e \in DOMAIN events : \A n \in Channels \X Kinds : events'[e].sent[n] =
                  IF e = local[i].event /\ n = <<c, local[i].kind>>
                  THEN events[e].sent[n] + 1 ELSE events[e].sent[n]
      BY <1>1, <2>1, <2>2, Delivers
  <2>4. local'[i] = [local[i] EXCEPT !.ok = ok, !.left = local[i].left \ {c}]
      BY <2>3, GoesOn DEF Steps
  <2>5. c \notin local'[i].left
      BY <2>4, Known DEF LocalType
  <2>6. Tells(i, local[i].event, c, local[i].kind)
      BY <2>1, <2>2, <2>5 DEF Tells, Step
  <2>7. ASSUME NEW e \in DOMAIN events, NEW d \in Channels, NEW k \in Kinds
        PROVE  \/ events'[e].sent[<<d, k>>] = events[e].sent[<<d, k>>]
               \/ /\ events'[e].sent[<<d, k>>] = events[e].sent[<<d, k>>] + 1
                  /\ \E j \in Evaluators : Tells(j, e, d, k)
    <3>1. CASE e = local[i].event /\ d = c /\ k = local[i].kind
        BY <2>3, <2>6, <3>1
    <3>2. CASE ~ (e = local[i].event /\ d = c /\ k = local[i].kind)
        BY <2>3, <3>2
    <3>q. QED
        BY <3>1, <3>2
  <2>q. QED
      BY <2>3, <2>7
<1>4. CASE ~ \E i \in Evaluators : Open(i) \/ Send(i)
  <2>1. DOMAIN events' = DOMAIN events /\ \A e \in DOMAIN events : events'[e].sent = events[e].sent
    <3>1. ASSUME NEW i \in Evaluators, Close(i)
          PROVE  DOMAIN events' = DOMAIN events /\ \A e \in DOMAIN events : events'[e].sent = events[e].sent
      <4>1. local[i].active \in DOMAIN events
          BY <3>1, Known DEF PlaceInv, Close
      <4>q. QED
          BY <1>1, <3>1, <4>1, Closes
    <3>2. ASSUME NEW i \in Evaluators, WriteCounters(i)
          PROVE  DOMAIN events' = DOMAIN events /\ \A e \in DOMAIN events : events'[e].sent = events[e].sent
      <4>1. local[i].event \in DOMAIN events
          BY <3>2, Known DEF PlaceInv, WriteCounters, Notifying
      <4>q. QED
          BY <1>1, <3>2, <4>1, Counts
    <3>3. ASSUME Tick
          PROVE  DOMAIN events' = DOMAIN events /\ \A e \in DOMAIN events : events'[e].sent = events[e].sent
        BY <1>1, <3>3, Ages
    <3>4. CASE ~ (Tick \/ \E i \in Evaluators : Close(i) \/ WriteCounters(i))
        BY <1>4, <3>4 DEF Next, Step, Begin, Load, Compute, Insufficient, Find, Mark, Latest,
            ReadCounters, Raises, Crash, Flip, Edit, rows
    <3>q. QED
        BY <3>1, <3>2, <3>3, <3>4
  <2>q. QED
      BY <2>1
<1>q. QED
    BY <1>2, <1>3, <1>4

\* Only who has the channel left tells it, and an event has one evaluator that tells it fires.
LEMMA ToldOnce ==
    ASSUME IInv, Next, NEW j \in Evaluators, pc[j] \in Notifying, local[j].kind = "firing",
           NEW c \in local[j].left, c \in local'[j].left
    PROVE  events'[local[j].event].sent[<<c, "firing">>] = 0
<1>1. local[j].event \in DOMAIN events /\ c \in Channels /\ "firing" \in Kinds
    BY Known DEF PlaceInv, Kinds
<1>2. events[local[j].event].sent[<<c, "firing">>] = 0
    BY Known DEF NoticeInv
<1>3. ASSUME NEW i \in Evaluators, Tells(i, local[j].event, c, "firing") PROVE FALSE
  <2>1. i = j
      BY <1>3 DEF Tells, Notifying, IInv, OpenerInv
  <2>q. QED
      BY <1>3, <2>1 DEF Tells
<1>q. QED
    BY <1>1, <1>2, <1>3, Deliveries

\* An evaluator tells only what is left to tell, also after a step of another one.
LEMMA NoticeStep ==
    ASSUME IInv, Next, NEW j \in Evaluators
    PROVE  NoticeInv(j)'
<1>1. PlaceInv(j) /\ NoticeInv(j) /\ local[j].kind \in Kinds
    BY Known
<1>2. CASE /\ pc[j] \in Notifying /\ local'[j].event = local[j].event /\ local'[j].kind = local[j].kind
           /\ local'[j].left \subseteq local[j].left
  <2>1. CASE local[j].kind = "firing"
      BY <1>2, <2>1, ToldOnce DEF NoticeInv
  <2>2. CASE local[j].kind = "resolved"
      BY <1>1, <1>2, <2>2, Grows DEF NoticeInv, PlaceInv
  <2>q. QED
      BY <1>1, <2>1, <2>2 DEF Kinds
<1>3. CASE pc'[j] \in Notifying /\ Open(j) /\ local'[j].event = Len(events) + 1 /\ local'[j].kind = "firing"
  <2>1. \A n \in Channels \X Kinds : events'[Len(events) + 1].sent[n] = 0
      BY <1>3, Opens DEF IInv
  <2>2. local'[j].left \in SUBSET Channels /\ "firing" \in Kinds
      BY <1>3, Evaluates DEF Step, LocalType, Kinds
  <2>q. QED
      BY <1>3, <2>1, <2>2 DEF NoticeInv
<1>4. CASE pc'[j] \in Notifying /\ Close(j) /\ local'[j].event = local[j].active /\ local'[j].kind = "resolved"
  <2>1. local[j].active \in DOMAIN events
      BY <1>1, <1>4 DEF PlaceInv, Close
  <2>2. events'[local[j].active].state = "resolved"
      BY <1>4, <2>1, Closes DEF IInv
  <2>q. QED
      BY <1>4, <2>2 DEF NoticeInv
<1>5. CASE pc'[j] \notin Notifying
    BY <1>5 DEF NoticeInv
<1>6. CASE Still(j)
    BY <1>2, <1>5, <1>6 DEF Still
<1>7. CASE Carries(j)
    BY <1>2, <1>3, <1>4, <1>5, <1>7 DEF Carries
<1>q. QED
    BY <1>6, <1>7, MovesOrStill, Evaluates

\* Who tells that an event fires did so before or has just opened it.
LEMMA OpenerStep ==
    ASSUME IInv, Next
    PROVE  OpenerInv'
<1> SUFFICES ASSUME NEW i \in Evaluators, NEW j \in Evaluators,
                    pc'[i] \in Notifying, pc'[j] \in Notifying,
                    local'[i].kind = "firing", local'[j].kind = "firing",
                    local'[i].event = local'[j].event
             PROVE  i = j
    BY DEF OpenerInv
<1> DEFINE Old(k) == pc[k] \in Notifying /\ local[k].kind = "firing" /\ local'[k].event = local[k].event
           New(k) == Open(k) /\ local'[k].event = Len(events) + 1
<1>1. ASSUME NEW k \in Evaluators, pc'[k] \in Notifying, local'[k].kind = "firing" PROVE Old(k) \/ New(k)
    BY <1>1, MovesOrStill, Evaluates DEF Still, Carries
<1>2. ASSUME NEW k \in Evaluators, Old(k) PROVE local'[k].event # Len(events) + 1
  <2>1. local[k].event \in DOMAIN events /\ Len(events) \in Nat /\ DOMAIN events = 1..Len(events)
      BY <1>2, Known, Rows DEF PlaceInv
  <2>q. QED
      BY <1>2, <2>1
<1>3. CASE Old(i) /\ Old(j)
    BY <1>3 DEF IInv, OpenerInv
<1>4. CASE New(i) /\ New(j)
  <2>1. pc[j] = "open"
      BY <1>4 DEF Open
  <2>2. i # j => pc'[j] = pc[j]
      BY <1>4, OneMoves DEF Step
  <2>q. QED
      BY <2>1, <2>2 DEF Notifying
<1>q. QED
    BY <1>1, <1>2, <1>3, <1>4

\* Notices stay true: a send is of a channel not told, or of a resolved event.
LEMMA ToldStep ==
    ASSUME IInv, Next
    PROVE  ToldTruly'
<1> SUFFICES ASSUME NEW e \in DOMAIN events', NEW c \in Channels
             PROVE  /\ events'[e].sent[<<c, "firing">>] <= 1
                    /\ events'[e].sent[<<c, "resolved">>] > 0 => events'[e].state = "resolved"
    BY DEF ToldTruly
<1>1. "firing" \in Kinds /\ "resolved" \in Kinds
    BY DEF Kinds
<1>2. CASE e \notin DOMAIN events
    BY <1>1, <1>2, Deliveries
<1>3. CASE e \in DOMAIN events
  <2>1. events[e].sent \in [Channels \X Kinds -> Nat]
      BY <1>3, Known, Rows
  <2>2. /\ events[e].sent[<<c, "firing">>] \in Nat /\ events[e].sent[<<c, "resolved">>] \in Nat
      BY <1>1, <2>1
  <2>3. /\ events[e].sent[<<c, "firing">>] <= 1
        /\ events[e].sent[<<c, "resolved">>] > 0 => events[e].state = "resolved"
      BY <1>3 DEF IInv, ToldTruly
  <2>4. ASSUME NEW i \in Evaluators, Tells(i, e, c, "firing") PROVE events[e].sent[<<c, "firing">>] = 0
      BY <2>4, Known DEF Tells, NoticeInv, Notifying
  <2>5. ASSUME NEW i \in Evaluators, Tells(i, e, c, "resolved") PROVE events[e].state = "resolved"
      BY <2>5, Known DEF Tells, NoticeInv, Notifying
  <2>6. events'[e].sent[<<c, "firing">>] <= 1
    <3>1. \/ events'[e].sent[<<c, "firing">>] = events[e].sent[<<c, "firing">>]
          \/ /\ events'[e].sent[<<c, "firing">>] = events[e].sent[<<c, "firing">>] + 1
             /\ \E i \in Evaluators : Tells(i, e, c, "firing")
        BY <1>1, <1>3, Deliveries
    <3>q. QED
        BY <2>2, <2>3, <2>4, <3>1
  <2>7. events'[e].sent[<<c, "resolved">>] > 0 => events[e].state = "resolved"
    <3>1. \/ events'[e].sent[<<c, "resolved">>] = events[e].sent[<<c, "resolved">>]
          \/ \E i \in Evaluators : Tells(i, e, c, "resolved")
        BY <1>1, <1>3, Deliveries
    <3>q. QED
        BY <2>3, <2>5, <3>1
  <2>q. QED
      BY <1>3, <2>6, <2>7, Grows
<1>q. QED
    BY <1>2, <1>3

\* A new event has its opener to tell every channel that is not gone.
LEMMA NewIsTold ==
    ASSUME IInv, Next, NEW e \in DOMAIN events' \ DOMAIN events
    PROVE  e \notin Untold'
<1> SUFFICES ASSUME NEW c \in Channels, channel'[c] # "gone"
             PROVE  \E i \in Evaluators : /\ local'[i].kind = "firing" /\ local'[i].event = e
                                          /\ c \in local'[i].left
    BY DEF Untold
<1>1. PICK i \in Evaluators : Open(i) /\ e = Len(events) + 1
    BY Deliveries
<1>2. channel[c] # "gone"
    BY Grows
<1>3. local[i].snapshot[c] # "gone"
    BY <1>1, <1>2, Known DEF SnapshotInv, Open, Ended
<1>4. FanOut(i, e, "firing") /\ e \in Nat /\ "firing" \in Kinds
    BY <1>1, Known, Rows DEF Open, Kinds
<1>5. local'[i].event = e /\ local'[i].kind = "firing" /\ c \in local'[i].left
    BY <1>3, <1>4, FansOut
<1>q. QED
    BY <1>5

\* An event stays untold for good only when the evaluator that tells it is cut short.
LEMMA StaysTold ==
    ASSUME IInv, Next, NEW e \in DOMAIN events, e \in Untold'
    PROVE  e \in Untold \/ \E i \in Evaluators : (Raises(i) \/ Crash(i)) /\ e = local[i].event
<1>1. PICK c \in Channels :
          /\ events'[e].sent[<<c, "firing">>] = 0 /\ channel'[c] # "gone"
          /\ \A i \in Evaluators : ~ (local'[i].kind = "firing" /\ local'[i].event = e /\ c \in local'[i].left)
    BY DEF Untold
<1>2. "firing" \in Kinds /\ events[e].sent[<<c, "firing">>] \in Nat
  <2>1. events[e].sent \in [Channels \X Kinds -> Nat]
      BY Known, Rows
  <2>q. QED
      BY <2>1 DEF Kinds
<1>3. events'[e].sent[<<c, "firing">>] # events[e].sent[<<c, "firing">>] + 1
    BY <1>1, <1>2
<1>4. events[e].sent[<<c, "firing">>] = 0 /\ channel[c] # "gone"
    BY <1>1, <1>2, <1>3, Deliveries, Grows
<1>5. ASSUME NEW i \in Evaluators, local[i].kind = "firing", local[i].event = e, c \in local[i].left,
             ~ Raises(i), ~ Crash(i)
      PROVE  FALSE
  <2>1. pc[i] \in Notifying
      BY <1>5, Known DEF PlaceInv
  <2>2. ~ Still(i)
      BY <1>1, <1>5 DEF Still
  <2>3. Carries(i)
      BY <1>5, <2>2, MovesOrStill, Evaluates
  <2>4. ~ Open(i) /\ ~ Close(i)
      BY <2>1 DEF Open, Close, Notifying
  <2>5. CASE c \in local'[i].left
      BY <1>1, <1>5, <2>3, <2>4, <2>5 DEF Carries
  <2>6. CASE c \notin local'[i].left
      BY <1>3, <1>5, <2>3, <2>4, <2>6 DEF Carries
  <2>q. QED
      BY <2>5, <2>6
<1>6. CASE \E i \in Evaluators : (Raises(i) \/ Crash(i)) /\ e = local[i].event
    BY <1>6
<1>7. CASE ~ \E i \in Evaluators : (Raises(i) \/ Crash(i)) /\ e = local[i].event
    BY <1>4, <1>5, <1>7 DEF Untold
<1>q. QED
    BY <1>6, <1>7

\* An event loses its teller with a fault or a restart, one at a time.
LEMMA UntoldStep ==
    ASSUME IInv, Next
    PROVE  UntoldInv'
<1>1. /\ IsFiniteSet(Untold) /\ Cardinality(Untold) \in Nat
      /\ faults \in Nat /\ crashes \in Nat /\ Cardinality(Untold) <= faults + crashes
  <2>1. Untold \in SUBSET (1..Len(events)) /\ Len(events) \in Nat
      BY Known, Rows DEF Untold
  <2>2. IsFiniteSet(1..Len(events))
      BY <2>1, FS_Interval
  <2>3. IsFiniteSet(Untold)
      BY <2>1, <2>2, FS_Subset
  <2>4. Cardinality(Untold) \in Nat
      BY <2>3, FS_CardinalityType
  <2>q. QED
      BY <2>3, <2>4 DEF IInv, UntoldInv, TypeOK
<1>2. Untold' \subseteq DOMAIN events' /\ \A e \in Untold' : e \in DOMAIN events
    BY NewIsTold DEF Untold
<1>3. CASE \E i \in Evaluators : Raises(i) \/ Crash(i)
  <2>1. PICK i \in Evaluators : Raises(i) \/ Crash(i)
      BY <1>3
  <2>2. \A j \in Evaluators : Raises(j) \/ Crash(j) => j = i
    <3>1. ASSUME NEW j \in Evaluators, Raises(j) \/ Crash(j), j # i PROVE FALSE
      <4>1. pc'[j] = pc[j]
          BY <2>1, <3>1, OneMoves
      <4>2. pc'[j] \in Ended
          BY <3>1, Ends DEF Raises, Crash
      <4>q. QED
          BY <3>1, <4>1, <4>2 DEF Raises, Crash, Ended, Steps
    <3>q. QED
        BY <3>1
  <2>3. Untold' \subseteq Untold \cup {local[i].event}
      BY <1>2, <2>2, StaysTold
  <2>4. /\ IsFiniteSet(Untold \cup {local[i].event})
        /\ Cardinality(Untold \cup {local[i].event}) =
              IF local[i].event \in Untold THEN Cardinality(Untold) ELSE Cardinality(Untold) + 1
      BY <1>1, FS_AddElement
  <2>5. Cardinality(Untold') <= Cardinality(Untold \cup {local[i].event}) /\ IsFiniteSet(Untold')
      BY <2>3, <2>4, FS_Subset
  <2>6. Cardinality(Untold') \in Nat
      BY <2>5, FS_CardinalityType
  <2>7. faults' + crashes' = faults + crashes + 1
    <3>1. (faults' = faults + 1 /\ crashes' = crashes) \/ (faults' = faults /\ crashes' = crashes + 1)
        BY <2>1 DEF Raises, Crash
    <3>q. QED
        BY <1>1, <3>1
  <2>q. QED
      BY <1>1, <2>4, <2>5, <2>6, <2>7 DEF UntoldInv
<1>4. CASE ~ \E i \in Evaluators : Raises(i) \/ Crash(i)
  <2>1. Untold' \subseteq Untold
      BY <1>2, <1>4, StaysTold
  <2>2. Cardinality(Untold') <= Cardinality(Untold)
      BY <1>1, <2>1, FS_Subset
  <2>3. faults' = faults /\ crashes' = crashes
      BY <1>4 DEF Next, Step, Begin, Load, Compute, Insufficient, Find, Mark, Latest, Open, Close,
          Send, ReadCounters, WriteCounters, Flip, Edit, Tick, bounds
  <2>4. Cardinality(Untold') \in Nat
      BY <1>1, <2>1, FS_Subset, FS_CardinalityType
  <2>q. QED
      BY <1>1, <2>2, <2>3, <2>4 DEF UntoldInv
<1>q. QED
    BY <1>3, <1>4
-------------------------------------------------------------------------------
(* The invariant.                                                          *)

\* The invariant holds at first.
LEMMA Starts == Init => IInv
<1> SUFFICES ASSUME Init PROVE IInv
    OBVIOUS
<1>1. events = <<>> /\ Len(events) = 0 /\ DOMAIN events = {} /\ events \in Seq(EventType)
    BY EmptySeq DEF Init
<1>2. /\ \A i \in Evaluators : pc[i] = "idle" /\ local[i] = NoLocal
      /\ NoLocal.left = {} /\ NoLocal.active = 0 /\ NoLocal.event = 0
    BY DEF Init, NoLocal
<1>3. TypeOK
  <2>1. channel \in [Channels -> Switch] /\ signal \in Signals
      BY DEF Init, Switch, Signals
  <2>2. rule \in [switch : Switch, last : {"new", "ok", "firing", "insufficient_data"}]
      BY DEF Init, Switch
  <2>3. /\ pc \in [Evaluators -> {"idle", "answered"} \cup Steps]
        /\ local \in [Evaluators -> LocalType]
      BY Locals DEF Init
  <2>4. \A i \in Evaluators : {local[i].active, local[i].event} \subseteq 0..Len(events)
      BY <1>1, <1>2
  <2>5. {flips, edits, faults, crashes} \subseteq Nat
      BY DEF Init
  <2>q. QED
      BY <1>1, <2>1, <2>2, <2>3, <2>4, <2>5 DEF TypeOK
<1>4. \A i \in Evaluators : PlaceInv(i) /\ SnapshotInv(i) /\ NoticeInv(i)
    BY <1>2 DEF PlaceInv, SnapshotInv, NoticeInv, Ended, Notifying
<1>5. OpenerInv /\ ToldTruly
    BY <1>1, <1>2 DEF OpenerInv, ToldTruly, Notifying
<1>6. UntoldInv
  <2>1. Untold = {}
      BY <1>1 DEF Untold
  <2>q. QED
      BY <2>1, FS_EmptySet DEF UntoldInv, Init
<1>q. QED
    BY <1>3, <1>4, <1>5, <1>6 DEF IInv

\* Every step keeps it.
LEMMA PreservesAll ==
    ASSUME IInv, [Next]_vars
    PROVE  IInv'
<1>1. CASE Next
  <2>1. TypeOK' /\ OpenerInv' /\ ToldTruly' /\ UntoldInv'
      BY <1>1, TypeStep, OpenerStep, ToldStep, UntoldStep
  <2>2. ASSUME NEW i \in Evaluators PROVE PlaceInv(i)' /\ SnapshotInv(i)' /\ NoticeInv(i)'
    <3>1. CASE Still(i)
      <4>1. PlaceInv(i) /\ SnapshotInv(i)
          BY Known
      <4>2. PlaceInv(i)'
          BY <1>1, <3>1, <4>1, Grows DEF Still, PlaceInv
      <4>3. SnapshotInv(i)'
          BY <1>1, <3>1, <4>1, Grows DEF Still, SnapshotInv
      <4>q. QED
          BY <1>1, <4>2, <4>3, NoticeStep
    <3>2. CASE Step(i) \/ Raises(i) \/ Crash(i)
        BY <1>1, <3>2, Evaluates, NoticeStep
    <3>q. QED
        BY <1>1, <3>1, <3>2, MovesOrStill
  <2>q. QED
      BY <2>1, <2>2 DEF IInv
<1>2. CASE UNCHANGED vars
  <2>1. UNCHANGED <<rule, channel, events, signal, pc, local, flips, edits, faults, crashes>>
      BY <1>2 DEF vars, rows, bounds
  <2>2. TypeOK'
      BY <2>1 DEF IInv, TypeOK
  <2>3. \A i \in Evaluators : PlaceInv(i)' /\ SnapshotInv(i)' /\ NoticeInv(i)'
      BY <2>1 DEF IInv, PlaceInv, SnapshotInv, NoticeInv
  <2>4. OpenerInv' /\ ToldTruly'
      BY <2>1 DEF IInv, OpenerInv, ToldTruly
  <2>5. UntoldInv'
      BY <2>1 DEF IInv, UntoldInv, Untold
  <2>q. QED
      BY <2>2, <2>3, <2>4, <2>5 DEF IInv
<1>q. QED
    BY <1>1, <1>2

\* So it always holds.
LEMMA Always == Spec => []IInv
<1>1. IInv /\ [Next]_vars => IInv'
    BY PreservesAll
<1>q. QED
    BY <1>1, Starts, PTL DEF Spec

\* Rows, channels and evaluations keep their types.
THEOREM TypeCorrect == Spec => []TypeOK
<1>1. IInv => TypeOK
    BY DEF IInv
<1>q. QED
    BY <1>1, Always, PTL

\* A channel is told at most once that an event fires and only of a resolved event that
\* it resolved (AlarmEvaluator._fanout), however many processes evaluate the rule.
THEOREM NoticesAreTrue == Spec => []ToldTruly
<1>1. IInv => ToldTruly
    BY DEF IInv
<1>q. QED
    BY <1>1, Always, PTL

\* Each call that raised and each restart leaves at most one event of which a channel was
\* not told (AlarmEvaluator._fanout), and a failed delivery leaves none.
THEOREM NoticesReachEveryone == Spec => []EveryChannelTried
<1> DEFINE untold == {e \in DOMAIN events : \E c \in Channels :
                         /\ events[e].sent[<<c, "firing">>] = 0 /\ channel[c] # "gone"
                         /\ \A i \in Evaluators : local[i].event # e \/ c \notin local[i].left}
<1>1. IInv => EveryChannelTried
  <2> SUFFICES ASSUME IInv PROVE Cardinality(untold) <= faults + crashes
      BY DEF EveryChannelTried
  <2>1. untold \in SUBSET Untold
      BY DEF Untold
  <2>2. IsFiniteSet(Untold) /\ Cardinality(Untold) <= faults + crashes /\ faults \in Nat /\ crashes \in Nat
    <3>1. Untold \in SUBSET (1..Len(events)) /\ Len(events) \in Nat
        BY Known, Rows DEF Untold
    <3>2. IsFiniteSet(1..Len(events))
        BY <3>1, FS_Interval
    <3>3. IsFiniteSet(Untold)
        BY <3>1, <3>2, FS_Subset
    <3>q. QED
        BY <3>3 DEF IInv, UntoldInv, TypeOK
  <2> HIDE DEF untold
  <2>3. IsFiniteSet(untold) /\ Cardinality(untold) <= Cardinality(Untold)
      BY <2>1, <2>2, FS_Subset
  <2>4. Cardinality(untold) \in Nat /\ Cardinality(Untold) \in Nat
      BY <2>2, <2>3, FS_CardinalityType
  <2>q. QED
      BY <2>2, <2>3, <2>4
<1>q. QED
    BY <1>1, Always, PTL
-------------------------------------------------------------------------------
(* A loop that is alone.                                                   *)

\* Only Open and Close change which events fire; only Open and Tick the age of the last one.
LEMMA Elsewhere ==
    ASSUME IInv, Next, ~ \E i \in Evaluators : Open(i)
    PROVE  /\ Len(events') = Len(events) /\ DOMAIN events' = DOMAIN events
           /\ (~ \E i \in Evaluators : Close(i)) =>
                 \A e \in DOMAIN events : events'[e].state = events[e].state
           /\ ~Tick => \A e \in DOMAIN events : events'[e].age = events[e].age
<1>1. TypeOK
    BY DEF IInv
<1>2. ASSUME NEW i \in Evaluators, Close(i)
      PROVE  /\ Len(events') = Len(events) /\ DOMAIN events' = DOMAIN events
             /\ \A e \in DOMAIN events : events'[e].age = events[e].age
  <2>1. local[i].active \in DOMAIN events
      BY <1>2, Known DEF PlaceInv, Close
  <2>q. QED
      BY <1>1, <1>2, <2>1, Closes
<1>3. ASSUME NEW i \in Evaluators, WriteCounters(i) \/ Send(i)
      PROVE  /\ Len(events') = Len(events) /\ DOMAIN events' = DOMAIN events
             /\ \A e \in DOMAIN events : /\ events'[e].state = events[e].state
                                         /\ events'[e].age = events[e].age
  <2>1. local[i].event \in DOMAIN events
      BY <1>3, Known DEF PlaceInv, WriteCounters, Send, Notifying
  <2>2. CASE WriteCounters(i)
      BY <1>1, <2>1, <2>2, Counts
  <2>3. CASE Send(i)
      BY <1>1, <2>1, <2>3, Delivers
  <2>q. QED
      BY <1>3, <2>2, <2>3
<1>4. ASSUME Tick
      PROVE  /\ Len(events') = Len(events) /\ DOMAIN events' = DOMAIN events
             /\ \A e \in DOMAIN events : events'[e].state = events[e].state
    BY <1>1, <1>4, Ages
<1>5. CASE ~ (Tick \/ \E i \in Evaluators : Close(i) \/ WriteCounters(i) \/ Send(i))
  <2>1. events' = events
      BY <1>5 DEF Next, Step, Begin, Load, Compute, Insufficient, Find, Mark, Latest,
          ReadCounters, Raises, Crash, Flip, Edit, rows
  <2>q. QED
      BY <2>1
<1>6. CASE Tick /\ \E i \in Evaluators : Close(i) \/ WriteCounters(i) \/ Send(i)
  <2>1. FALSE
    <3>1. PICK i \in Evaluators : Close(i) \/ WriteCounters(i) \/ Send(i)
        BY <1>6
    <3>2. pc'[i] # pc[i]
      <4>1. \E step, l : (To(i, step, l) /\ step # pc[i] /\ step # "end") \/ To(i, "end", l)
          BY <3>1 DEF Close, FanOut, WriteCounters, AfterDelivery, Send, Deliver
      <4>2. pc[i] \in Steps
          BY <3>1 DEF Close, WriteCounters, Send, Steps
      <4>q. QED
          BY <4>1, <4>2, Known DEF To, Steps
    <3>q. QED
        BY <1>6, <3>2 DEF Tick
  <2>q. QED
      BY <2>1
<1>q. QED
    BY <1>2, <1>3, <1>4, <1>5, <1>6

\* An evaluation is about an event from Find to Open or Close.
LEMMA Undecided ==
    ASSUME IInv, NEW i \in Evaluators, Step(i) \/ Raises(i) \/ Crash(i),
           ~ (Find(i) \/ Mark(i) \/ Latest(i) \/ Open(i) \/ Close(i))
    PROVE  pc'[i] \notin {"mark", "latest", "open", "close"}
<1>1. CASE Begin(i) \/ Load(i)
    BY <1>1, GoesOn DEF Begin, Load, Steps
<1>2. CASE Compute(i)
    BY <1>2, GoesOn DEF Compute, Steps
<1>3. CASE Insufficient(i) \/ Raises(i) \/ Crash(i)
    BY <1>3, Ends DEF Insufficient, Raises, Crash, Ended
<1>4. CASE Send(i)
    BY <1>4, GoesOn DEF Send, Deliver, Steps
<1>5. CASE ReadCounters(i)
    BY <1>5, GoesOn DEF ReadCounters, Steps
<1>6. CASE WriteCounters(i)
    BY <1>6, Ends, GoesOn DEF WriteCounters, AfterDelivery, Ended, Steps
<1>q. QED
    BY <1>1, <1>2, <1>3, <1>4, <1>5, <1>6 DEF Step

\* What a loop that is alone found is still so when it acts on it.
LEMMA AloneStep ==
    ASSUME Alone, IInv, AloneInv, Next
    PROVE  AloneInv'
<1> SUFFICES ASSUME rule'.switch # "gone"
             PROVE  /\ \A e, f \in Firing' : e = f
                    /\ \A i \in Evaluators :
                          /\ pc'[i] \in {"mark", "latest", "open", "close"} => Firing' \subseteq {local'[i].active}
                          /\ pc'[i] = "open" /\ events' # <<>> /\ Dedup > 0 =>
                                events'[Len(events')].age - local'[i].lag > Dedup
    BY DEF AloneInv
<1>1. PICK a : Evaluators = {a}
    BY DEF Alone, Evaluators
<1>2. /\ rule.switch # "gone" /\ \A e, f \in Firing : e = f
      /\ pc[a] \in {"mark", "latest", "open", "close"} => Firing \subseteq {local[a].active}
      /\ pc[a] = "open" /\ events # <<>> /\ Dedup > 0 => events[Len(events)].age - local[a].lag > Dedup
    BY <1>1, Grows DEF AloneInv
<1>3. /\ Len(events) \in Nat /\ DOMAIN events = 1..Len(events)
      /\ PlaceInv(a) /\ local[a] \in LocalType /\ local[a].active \in 0..Len(events)
    BY <1>1, Known, Rows
<1>4. CASE Open(a)
  <2>1. pc[a] = "open" /\ local[a].active = 0
      BY <1>3, <1>4 DEF Open, PlaceInv
  <2>2. Firing = {}
      BY <1>2, <1>3, <2>1 DEF Firing
  <2>3. Firing' \subseteq {Len(events) + 1}
    <3>1. /\ DOMAIN events' = DOMAIN events \cup {Len(events) + 1}
          /\ \A e \in DOMAIN events : events'[e] = events[e]
        BY <1>1, <1>4, Opens DEF IInv
    <3>q. QED
        BY <2>2, <3>1 DEF Firing
  <2>4. pc'[a] \notin {"mark", "latest", "open", "close"}
    <3>1. To(a, "end", [local[a] EXCEPT !.event = Len(events) + 1, !.kind = "firing", !.left = {}])
          \/ \E l : To(a, "send", l)
        BY <1>4 DEF Open, FanOut
    <3>q. QED
        BY <1>1, <3>1, Known DEF To
  <2>q. QED
      BY <1>1, <2>3, <2>4
<1>5. CASE Close(a)
  <2>1. pc[a] = "close" /\ local[a].active \in DOMAIN events
      BY <1>3, <1>5 DEF Close, PlaceInv
  <2>2. Firing' = {}
    <3>1. /\ DOMAIN events' = DOMAIN events
          /\ \A e \in DOMAIN events :
                events'[e].state = IF e = local[a].active THEN "resolved" ELSE events[e].state
        BY <1>1, <1>5, <2>1, Closes DEF IInv
    <3>q. QED
        BY <1>2, <2>1, <3>1 DEF Firing
  <2>3. pc'[a] # "open"
    <3>1. \E l : To(a, "end", l) \/ To(a, "send", l)
        BY <1>5 DEF Close, FanOut
    <3>q. QED
        BY <1>1, <3>1, Known DEF To
  <2>q. QED
      BY <1>1, <2>2, <2>3
<1>6. CASE ~ (Open(a) \/ Close(a))
  <2>1. /\ Len(events') = Len(events) /\ DOMAIN events' = DOMAIN events
        /\ \A e \in DOMAIN events : events'[e].state = events[e].state
        /\ ~Tick => \A e \in DOMAIN events : events'[e].age = events[e].age
      BY <1>1, <1>6, Elsewhere
  <2>2. Firing' = Firing
      BY <2>1 DEF Firing
  <2>3. events' # <<>> => events # <<>> /\ Len(events) \in DOMAIN events
    <3>1. events \in Seq(EventType) /\ events' \in Seq(EventType)
        BY Known, Grows
    <3>2. events' # <<>> => Len(events') \in Nat \ {0}
        BY <3>1, EmptySeq
    <3>3. Len(<<>>) = 0
        BY EmptySeq
    <3>q. QED
        BY <1>3, <2>1, <3>2, <3>3
  <2>4. pc'[a] \in {"mark", "latest", "open", "close"} => Firing \subseteq {local'[a].active}
    <3>1. CASE Find(a)
      <4>1. local'[a] = [local[a] EXCEPT !.active = IF Firing = {} THEN 0 ELSE Max(Firing)]
          BY <1>1, <1>2, <3>1, GoesOn DEF Find, Steps
      <4>2. Firing # {} => local'[a].active = Max(Firing)
          BY <1>3, <4>1 DEF LocalType
      <4>3. Firing # {} => Max(Firing) \in Firing
        <5>1. Firing \in SUBSET (1..Len(events)) /\ Len(events) \in Nat
            BY <1>3 DEF Firing
        <5>q. QED
            BY <5>1, LastOf
      <4>q. QED
          BY <1>2, <4>2, <4>3
    <3>2. CASE Mark(a) \/ Latest(a)
      <4>1. PICK step : To(a, step, local[a]) /\ pc[a] \in {"mark", "latest"}
          BY <3>2 DEF Mark, Latest
      <4>2. pc'[a] \in Ended \/ local'[a] = local[a]
          BY <1>1, <4>1, Known DEF To, Ended
      <4>q. QED
          BY <1>2, <4>1, <4>2 DEF Ended
    <3>3. CASE Still(a)
        BY <1>2, <3>3 DEF Still
    <3>4. CASE ~ (Find(a) \/ Mark(a) \/ Latest(a) \/ Still(a))
      <4>1. Step(a) \/ Raises(a) \/ Crash(a)
          BY <1>1, <3>4, MovesOrStill
      <4>q. QED
          BY <1>1, <1>6, <3>4, <4>1, Undecided
    <3>q. QED
        BY <3>1, <3>2, <3>3, <3>4
  <2>5. ASSUME pc'[a] = "open", events' # <<>>, Dedup > 0
        PROVE  events'[Len(events')].age - local'[a].lag > Dedup
    <3>1. events # <<>> /\ Len(events) \in DOMAIN events
        BY <2>3, <2>5
    <3>2. CASE Tick
      <4>1. pc[a] = "open" /\ a \in Timed
          BY <1>1, <2>5, <3>2 DEF Tick, Timed, Steps
      <4>2. local'[a].lag = local[a].lag + 1 /\ local[a].lag < MaxLag /\ local[a].lag \in Nat
        <5>1. local'[a] = [local[a] EXCEPT !.lag = @ + 1]
            BY <1>1, <3>2, <4>1 DEF Tick
        <5>q. QED
            BY <1>3, <3>2, <4>1, <5>1, BoundsAssumption DEF Tick, LocalType
      <4>3. events'[Len(events)].age = IF events[Len(events)].age < OldAge THEN events[Len(events)].age + 1
                                       ELSE events[Len(events)].age
          BY <3>1, <3>2, Ages DEF IInv
      <4>4. events[Len(events)].age \in 0..OldAge /\ MaxLag \in Nat /\ Dedup \in Nat
          BY <3>1, Known, Rows, BoundsAssumption
      <4>5. events[Len(events)].age - local[a].lag > Dedup
          BY <1>2, <2>5, <3>1, <4>1
      <4>6. \A old, new, lag, dedup, most \in Nat :
               /\ lag < most
               /\ new = IF old < dedup + most + 1 THEN old + 1 ELSE old
               /\ old - lag > dedup
               => new - (lag + 1) > dedup
          BY SMT
      <4>7. events'[Len(events)].age \in Nat /\ events[Len(events)].age \in Nat
          BY <4>3, <4>4 DEF OldAge
      <4>8. events'[Len(events)].age - (local[a].lag + 1) > Dedup
          BY <4>2, <4>3, <4>4, <4>5, <4>6, <4>7 DEF OldAge
      <4>q. QED
          BY <2>1, <4>2, <4>8
    <3>3. CASE Latest(a)
      <4>1. local'[a] = local[a] /\ ~Recent(a)
        <5>1. To(a, IF Recent(a) THEN "end" ELSE "open", local[a])
            BY <1>2, <3>3 DEF Latest
        <5>2. ~Recent(a)
            BY <1>1, <2>5, <5>1, Known DEF To
        <5>q. QED
            BY <1>1, <5>1, <5>2, GoesOn DEF Steps
      <4>2. events'[Len(events')].age = events[Len(events)].age
        <5>1. events' = events
            BY <3>3 DEF Latest, rows
        <5>q. QED
            BY <5>1
      <4>3. events[Len(events)].age \in Int /\ local[a].lag \in Int /\ Dedup \in Int
        <5>1. events[Len(events)].age \in 0..OldAge /\ local[a].lag \in 0..MaxLag
            BY <1>3, <3>1, Known, Rows DEF LocalType
        <5>q. QED
            BY <5>1, BoundsAssumption
      <4>q. QED
          BY <3>1, <4>1, <4>2, <4>3 DEF Recent
    <3>4. CASE Mark(a)
      <4>1. To(a, Decide(a), local[a]) /\ Decide(a) # "open"
          BY <2>5, <3>4 DEF Mark, Decide
      <4>2. pc'[a] # "open"
          BY <1>1, <4>1, Known DEF To
      <4>q. QED
          BY <2>5, <4>2
    <3>5. CASE Flip \/ Edit
      <4>1. pc' = pc /\ local' = local /\ events' = events
          BY <3>5 DEF Flip, Edit, rows
      <4>q. QED
          BY <1>2, <2>5, <4>1
    <3>6. CASE ~ (Tick \/ Latest(a) \/ Mark(a) \/ Flip \/ Edit)
      <4>1. Step(a) \/ Raises(a) \/ Crash(a)
          BY <1>1, <3>6 DEF Next
      <4>2. CASE Find(a)
          BY <1>1, <2>5, <4>2, GoesOn DEF Find, Steps
      <4>3. CASE ~Find(a)
          BY <1>1, <1>6, <2>5, <3>6, <4>1, <4>3, Undecided
      <4>q. QED
          BY <4>2, <4>3
    <3>q. QED
        BY <3>2, <3>3, <3>4, <3>5, <3>6
  <2>q. QED
      BY <1>1, <1>2, <2>2, <2>4, <2>5
<1>q. QED
    BY <1>4, <1>5, <1>6

\* So it always is.
LEMMA AlwaysAlone == Alone => (Spec => []AloneInv)
<1> SUFFICES ASSUME Alone PROVE Spec => []AloneInv
    OBVIOUS
<1>1. Init => AloneInv
    BY DEF Init, AloneInv, Firing
<1>2. IInv /\ AloneInv /\ [Next]_vars => AloneInv'
  <2> SUFFICES ASSUME IInv, AloneInv, [Next]_vars PROVE AloneInv'
      OBVIOUS
  <2>1. CASE Next
      BY <2>1, AloneStep
  <2>2. CASE UNCHANGED vars
      BY <2>2 DEF vars, rows, AloneInv, Firing
  <2>q. QED
      BY <2>1, <2>2
<1>q. QED
    BY <1>1, <1>2, Always, PTL DEF Spec

\* A loop that is alone never has two firing events open for its rule, whatever raises or
\* restarts between opening, closing and delivering (AlarmEvaluator._evaluate_rule).
THEOREM OneFiringEvent == Alone => (Spec => []SingleFiring)
<1> SUFFICES ASSUME Alone PROVE Spec => []SingleFiring
    OBVIOUS
<1>1. AloneInv => SingleFiring
  <2> SUFFICES ASSUME AloneInv, rule.switch # "gone" PROVE Cardinality(Firing) <= 1
      BY DEF SingleFiring
  <2>1. CASE Firing = {}
      BY <2>1, FS_EmptySet
  <2>2. CASE Firing # {}
    <3>1. PICK e \in Firing : Firing = {e}
        BY <2>2 DEF AloneInv
    <3>q. QED
        BY <3>1, FS_Singleton
  <2>q. QED
      BY <2>1, <2>2
<1>q. QED
    BY <1>1, AlwaysAlone, PTL

\* A loop that is alone opens no event within the dedup window after the start of the one
\* before (AlarmEvaluator._evaluate_rule): ages go on while it decides, but on an earlier `now`.
THEOREM WindowIsKept == Alone /\ Dedup > 0 => (Spec => DedupSpacing)
<1> SUFFICES ASSUME Alone, Dedup > 0 PROVE Spec => DedupSpacing
    OBVIOUS
<1>1. IInv /\ AloneInv /\ [Next]_vars =>
          [events # <<>> /\ Len(events') > Len(events) /\ rule.switch # "gone" =>
              events[Len(events)].age > Dedup]_vars
  <2> SUFFICES ASSUME IInv, AloneInv, Next, events # <<>>, Len(events') > Len(events), rule.switch # "gone"
               PROVE  events[Len(events)].age > Dedup
      OBVIOUS
  <2>1. Len(events) \in Nat /\ DOMAIN events = 1..Len(events) /\ Len(events) \in DOMAIN events
    <3>1. events \in Seq(EventType)
        BY Known
    <3>2. Len(events) \in Nat \ {0}
        BY <3>1, EmptySeq
    <3>q. QED
        BY <3>1, <3>2, Rows
  <2>2. PICK i \in Evaluators : Open(i)
      BY <2>1, Elsewhere
  <2>3. events[Len(events)].age - local[i].lag > Dedup
      BY <2>2 DEF AloneInv, Open
  <2>4. events[Len(events)].age \in 0..OldAge /\ local[i].lag \in 0..MaxLag
      BY <2>1, Known, Rows DEF LocalType
  <2>5. Dedup \in Nat /\ MaxLag \in Nat /\ OldAge \in Nat
      BY BoundsAssumption DEF OldAge
  <2> DEFINE age == events[Len(events)].age
             lag == local[i].lag
  <2>6. age \in Nat /\ lag \in Nat /\ age - lag > Dedup
      BY <2>3, <2>4, <2>5
  <2>7. \A x, y, z \in Nat : x - y > z => x > z
      OBVIOUS
  <2> HIDE DEF age, lag
  <2>8. age > Dedup
      BY <2>5, <2>6, <2>7
  <2>q. QED
      BY <2>8 DEF age
<1>q. QED
    BY <1>1, Always, AlwaysAlone, PTL DEF Spec, DedupSpacing
-------------------------------------------------------------------------------
(* The counters: sums over the channels and kinds of one event.            *)

\* The summand that SumFunctionOnSet takes out first.
Least(s) == CHOOSE x \in s : TRUE

\* What LET iter == ... in the fold says of iter.
Sums(f, S, h) == h = [s \in SUBSET S |-> IF s = {} THEN 0 ELSE f[Least(s)] + h[s \ {Least(s)}]]

\* A set of numbers has a least one.
LEMMA LeastNumber ==
    ASSUME NEW N \in SUBSET Nat, N # {}
    PROVE  \E n \in N : \A m \in N : n <= m
<1> DEFINE R == OpToRel(<, Nat)
<1>1. IsWellFoundedOn(R, Nat)
  BY NatLessThanWellFounded
<1>2. \A m, n \in Nat : <<m, n>> \notin R => n <= m
  BY DEF OpToRel
<1>3. \E n \in N : \A m \in N : ~ (<<m, n>> \in R)
  <2> HIDE DEF R
  <2>q. QED
    BY <1>1, WFMin
<1>q. QED
  BY <1>2, <1>3

\* Of any subsets of a finite set one is smallest: what holds of the empty set and
\* cannot fail first for a set with an element holds of all.
LEMMA Smallest ==
    ASSUME NEW S, IsFiniteSet(S), NEW F \in SUBSET (SUBSET S), F # {}
    PROVE  \E T \in F : \A U \in F : Cardinality(T) <= Cardinality(U)
<1> DEFINE N == {Cardinality(T) : T \in F}
<1>1. N \in SUBSET Nat /\ N # {}
  BY FS_Subset, FS_CardinalityType
<1>2. PICK n \in N : \A m \in N : n <= m
  <2> HIDE DEF N
  <2>q. QED
    BY <1>1, LeastNumber
<1>q. QED
  BY <1>2

\* There is one function as the fold defines it.
LEMMA SumsUnique ==
    ASSUME NEW S, IsFiniteSet(S), NEW f, NEW g, NEW h, Sums(f, S, g), Sums(f, S, h)
    PROVE  g = h
<1> DEFINE F == {T \in SUBSET S : g[T] # h[T]}
<1>1. ASSUME F # {} PROVE FALSE
  <2>1. PICK T \in F : \A U \in F : Cardinality(T) <= Cardinality(U)
    <3> HIDE DEF F
    <3>1. F \in SUBSET (SUBSET S)
      BY DEF F
    <3>q. QED
      BY <1>1, <3>1, Smallest
  <2>2. T # {} /\ Least(T) \in T /\ T \subseteq S
    BY DEF Sums, Least
  <2>3. Cardinality(T \ {Least(T)}) = Cardinality(T) - 1 /\ Cardinality(T) \in Nat
    BY <2>2, FS_Subset, FS_RemoveElement, FS_CardinalityType
  <2>4. g[T \ {Least(T)}] = h[T \ {Least(T)}]
    BY <2>1, <2>2, <2>3
  <2>q. QED
    BY <2>1, <2>2, <2>4 DEF Sums
<1>q. QED
  BY <1>1 DEF Sums

\* There is a sum function: one for the subsets of up to n elements extends to those of n + 1.
LEMMA SumsExist ==
    ASSUME NEW S, IsFiniteSet(S), NEW f
    PROVE  \E h : Sums(f, S, h)
<1> DEFINE Rec(h, T) == h[T] = IF T = {} THEN 0 ELSE f[Least(T)] + h[T \ {Least(T)}]
           Upto(n) == \E h : \A T \in SUBSET S : Cardinality(T) <= n => Rec(h, T)
           N == {n \in Nat : ~Upto(n)}
<1>1. ASSUME NEW n \in Nat, Upto(n), NEW m, m = n + 1 PROVE Upto(m)
  <2>1. PICK h : \A T \in SUBSET S : Cardinality(T) <= n => Rec(h, T)
    BY <1>1
  <2> DEFINE g == [T \in SUBSET S |-> IF T = {} THEN 0 ELSE f[Least(T)] + h[T \ {Least(T)}]]
  <2>2. ASSUME NEW T \in SUBSET S, Cardinality(T) <= m, T # {} PROVE g[T \ {Least(T)}] = h[T \ {Least(T)}]
    <3>1. Least(T) \in T
      BY <2>2 DEF Least
    <3>2. Cardinality(T \ {Least(T)}) <= n
      BY <1>1, <2>2, <3>1, FS_Subset, FS_RemoveElement, FS_CardinalityType
    <3>q. QED
      BY <2>1, <3>2
  <2>3. \A T \in SUBSET S : Cardinality(T) <= m => Rec(g, T)
    BY <2>2
  <2>q. QED
    BY <2>3
<1>2. Upto(0)
  <2> DEFINE g == [T \in SUBSET S |-> 0]
  <2>1. ASSUME NEW T \in SUBSET S, Cardinality(T) <= 0 PROVE T = {}
    BY <2>1, FS_Subset, FS_CardinalityType, FS_EmptySet
  <2>2. \A T \in SUBSET S : Cardinality(T) <= 0 => Rec(g, T)
    BY <2>1
  <2>q. QED
    BY <2>2
<1>3. N = {}
  <2> SUFFICES ASSUME N # {} PROVE FALSE
    OBVIOUS
  <2> HIDE DEF Upto
  <2>0. N \in SUBSET Nat
    OBVIOUS
  <2>1. PICK n \in N : \A m \in N : n <= m
    <3> HIDE DEF N
    <3>q. QED
      BY <2>0, LeastNumber
  <2>2. n # 0 /\ n \in Nat
    BY <1>2
  <2>3. n - 1 \in Nat /\ n - 1 \notin N
    <3> HIDE DEF N
    <3>q. QED
      BY <2>1, <2>2
  <2>q. QED
    BY <1>1, <2>2, <2>3
<1>4. Upto(Cardinality(S))
  BY <1>3, FS_CardinalityType
<1>5. PICK h : \A T \in SUBSET S : Cardinality(T) <= Cardinality(S) => Rec(h, T)
  BY <1>4
<1>6. \A T \in SUBSET S : Rec(h, T)
  BY <1>5, FS_Subset
<1> DEFINE g == [T \in SUBSET S |-> h[T]]
<1>7. Sums(f, S, g)
  BY <1>6 DEF Sums, Least
<1>q. QED
  BY <1>7

\* SumFunctionOnSet takes that function's value.
LEMMA SumIs ==
    ASSUME NEW S, IsFiniteSet(S), NEW f, NEW h, Sums(f, S, h)
    PROVE  \A T \in SUBSET S : SumFunctionOnSet(f, T) = h[T]
<1> SUFFICES ASSUME NEW T \in SUBSET S PROVE SumFunctionOnSet(f, T) = h[T]
  OBVIOUS
<1> DEFINE g == [U \in SUBSET T |-> h[U]]
<1>1. Sums(f, T, g)
  <2>1. ASSUME NEW U \in SUBSET T PROVE h[U] = IF U = {} THEN 0 ELSE f[Least(U)] + g[U \ {Least(U)}]
    <3>1. U \in SUBSET S /\ U \ {Least(U)} \in SUBSET T
      OBVIOUS
    <3>q. QED
      BY <3>1 DEF Sums
  <2>q. QED
    BY <2>1 DEF Sums
<1>2. IsFiniteSet(T)
  BY FS_Subset
<1> HIDE DEF g
<1>3. SumFunctionOnSet(f, T) = g[T]
  <2>1. \A k : Sums(f, T, k) => k = g
    BY <1>1, <1>2, SumsUnique
  <2>q. QED
    BY <1>1, <2>1 DEF SumFunctionOnSet, FoldFunctionOnSet, MapThenFoldSet, Sums, Least
<1>q. QED
  BY <1>3 DEF g

\* A sum is one summand more than the sum over the rest.
LEMMA SumUnfolds ==
    ASSUME NEW S, IsFiniteSet(S), NEW f
    PROVE  /\ SumFunctionOnSet(f, {}) = 0
           /\ \A T \in SUBSET S : T # {} =>
                /\ Least(T) \in T
                /\ SumFunctionOnSet(f, T) = f[Least(T)] + SumFunctionOnSet(f, T \ {Least(T)})
<1>1. PICK h : Sums(f, S, h)
  BY SumsExist
<1>2. \A T \in SUBSET S : SumFunctionOnSet(f, T) = h[T]
  BY <1>1, SumIs
<1>3. ASSUME NEW T \in SUBSET S, T # {}
      PROVE  Least(T) \in T /\ SumFunctionOnSet(f, T) = f[Least(T)] + SumFunctionOnSet(f, T \ {Least(T)})
  <2>1. Least(T) \in T /\ T \ {Least(T)} \in SUBSET S
    BY <1>3 DEF Least
  <2>2. h[T] = f[Least(T)] + h[T \ {Least(T)}]
    BY <1>1, <1>3 DEF Sums
  <2>q. QED
    BY <1>2, <2>1, <2>2
<1>4. SumFunctionOnSet(f, {}) = 0
  BY <1>1, <1>2 DEF Sums
<1>q. QED
  BY <1>3, <1>4

\* A sum of integers is one.
LEMMA SumType ==
    ASSUME NEW S, IsFiniteSet(S), NEW f, \A x \in S : f[x] \in Int
    PROVE  \A T \in SUBSET S : SumFunctionOnSet(f, T) \in Int
<1> DEFINE F == {T \in SUBSET S : SumFunctionOnSet(f, T) \notin Int}
<1> SUFFICES ASSUME F # {} PROVE FALSE
  OBVIOUS
<1>1. F \in SUBSET (SUBSET S)
  OBVIOUS
<1>2. PICK T \in F : \A U \in F : Cardinality(T) <= Cardinality(U)
  <2> HIDE DEF F
  <2>q. QED
    BY <1>1, Smallest
<1>3. T # {} /\ T \in SUBSET S
  BY SumUnfolds
<1> DEFINE x == Least(T)
<1>4. x \in T /\ SumFunctionOnSet(f, T) = f[x] + SumFunctionOnSet(f, T \ {x})
  BY <1>3, SumUnfolds
<1>5. Cardinality(T \ {x}) = Cardinality(T) - 1 /\ Cardinality(T) \in Nat
  BY <1>3, <1>4, FS_Subset, FS_RemoveElement, FS_CardinalityType
<1> HIDE DEF x
<1>6. T \ {x} \notin F
  BY <1>2, <1>5
<1>q. QED
  BY <1>2, <1>3, <1>4, <1>6

\* Zeros add up to zero.
LEMMA SumZero ==
    ASSUME NEW S, IsFiniteSet(S), NEW f, \A x \in S : f[x] = 0
    PROVE  SumFunctionOnSet(f, S) = 0
<1> DEFINE F == {T \in SUBSET S : SumFunctionOnSet(f, T) # 0}
<1> SUFFICES ASSUME F # {} PROVE FALSE
  OBVIOUS
<1>1. F \in SUBSET (SUBSET S)
  OBVIOUS
<1>2. PICK T \in F : \A U \in F : Cardinality(T) <= Cardinality(U)
  <2> HIDE DEF F
  <2>q. QED
    BY <1>1, Smallest
<1>3. T # {} /\ T \in SUBSET S
  BY SumUnfolds
<1>4. PICK x \in T : SumFunctionOnSet(f, T) = f[x] + SumFunctionOnSet(f, T \ {x})
  <2>1. /\ Least(T) \in T
        /\ SumFunctionOnSet(f, T) = f[Least(T)] + SumFunctionOnSet(f, T \ {Least(T)})
    BY <1>3, SumUnfolds
  <2>q. QED
    BY <2>1
<1>5. Cardinality(T \ {x}) = Cardinality(T) - 1 /\ Cardinality(T) \in Nat
  BY <1>3, FS_Subset, FS_RemoveElement, FS_CardinalityType
<1>6. T \ {x} \notin F
  BY <1>2, <1>5
<1>q. QED
  BY <1>2, <1>3, <1>4, <1>6

\* When one summand grows by at most d and no other grows, so does the sum.
LEMMA SumStep ==
    ASSUME NEW S, IsFiniteSet(S), NEW f, NEW g, NEW r, NEW d \in Int,
           \A x \in S : f[x] \in Int /\ g[x] \in Int /\ g[x] <= f[x] + (IF x = r THEN d ELSE 0)
    PROVE  SumFunctionOnSet(g, S) <= SumFunctionOnSet(f, S) + (IF r \in S THEN d ELSE 0)
<1> DEFINE Good(T) == SumFunctionOnSet(g, T) <= SumFunctionOnSet(f, T) + (IF r \in T THEN d ELSE 0)
           F == {T \in SUBSET S : ~Good(T)}
<1>0. SUFFICES ASSUME F # {} PROVE FALSE
  OBVIOUS
<1>1. F \in SUBSET (SUBSET S)
  OBVIOUS
<1>2. PICK T \in F : \A U \in F : Cardinality(T) <= Cardinality(U)
  <2> HIDE DEF F
  <2>q. QED
    BY <1>0, <1>1, Smallest
<1>3. T # {} /\ T \in SUBSET S
  <2>1. Good({})
    BY SumUnfolds
  <2>q. QED
    BY <2>1
<1>a. PICK x \in T : x = Least(T)
  BY <1>3, SumUnfolds
<1>4. /\ SumFunctionOnSet(f, T) = f[x] + SumFunctionOnSet(f, T \ {x})
      /\ SumFunctionOnSet(g, T) = g[x] + SumFunctionOnSet(g, T \ {x})
  BY <1>3, <1>a, SumUnfolds
<1>5. Cardinality(T \ {x}) = Cardinality(T) - 1 /\ Cardinality(T) \in Nat
  BY <1>3, FS_Subset, FS_RemoveElement, FS_CardinalityType
<1>6. Good(T \ {x})
  BY <1>2, <1>5
<1>7. T \ {x} \in SUBSET S
  OBVIOUS
<1>8. SumFunctionOnSet(f, T \ {x}) \in Int /\ SumFunctionOnSet(g, T \ {x}) \in Int
  BY <1>7, SumType
<1>9. Good(T)
  <2>1. CASE x = r
    BY <1>4, <1>6, <1>8, <2>1
  <2>2. CASE x # r
    BY <1>4, <1>6, <1>8, <2>2
  <2>q. QED
    BY <2>1, <2>2
<1>q. QED
  BY <1>2, <1>9

-------------------------------------------------------------------------------
\* Evaluators with a delivery of e in hand: made, and not yet counted.
InHand(e) == {i \in Evaluators : pc[i] \in {"read", "write"} /\ local[i].event = e}

\* What a loop that is alone has read of the counters is still so when it writes them.
CountersOf(e) ==
    /\ events[e].failures <= events[e].attempts
    /\ events[e].attempts + Cardinality(InHand(e)) <= Sends(e)
    /\ Sends(e) <= events[e].attempts + faults + crashes + Cardinality(InHand(e))
    /\ \A i \in InHand(e) : pc[i] = "write" =>
          local[i].attempts = events[e].attempts /\ local[i].failures = events[e].failures

CounterInv == \A e \in DOMAIN events : CountersOf(e)

\* There are finitely many notices of an event.
LEMMA Pairs == IsFiniteSet(Channels \X Kinds)
<1>1. IsFiniteSet(Kinds)
  <2>1. IsFiniteSet({"firing"}) /\ Kinds = {"firing"} \cup {"resolved"}
    BY FS_Singleton DEF Kinds
  <2>q. QED
    BY <2>1, FS_AddElement
<1>q. QED
  BY <1>1, SetsAssumption, FS_Product

\* The deliveries of an event are counted, none at first, one more with each.
LEMMA SendsType ==
    ASSUME IInv, NEW e \in DOMAIN events PROVE Sends(e) \in Int
<1>1. events[e].sent \in [Channels \X Kinds -> Nat]
  BY Known, Rows
<1>q. QED
  BY <1>1, Pairs, SumType DEF Sends

\* Nothing delivered adds up to zero.
LEMMA NoSends ==
    ASSUME NEW s, \A n \in Channels \X Kinds : s[n] = 0
    PROVE  SumFunctionOnSet(s, Channels \X Kinds) = 0
BY Pairs, SumZero

\* One more delivery of one notice is one more delivery.
LEMMA OneSend ==
    ASSUME NEW s \in [Channels \X Kinds -> Nat], NEW t \in [Channels \X Kinds -> Nat],
           NEW n \in Channels \X Kinds,
           \A m \in Channels \X Kinds : t[m] = IF m = n THEN s[m] + 1 ELSE s[m]
    PROVE  SumFunctionOnSet(t, Channels \X Kinds) = SumFunctionOnSet(s, Channels \X Kinds) + 1
<1> DEFINE S == Channels \X Kinds
<1>1. SumFunctionOnSet(s, S) \in Int /\ SumFunctionOnSet(t, S) \in Int
  BY Pairs, SumType
<1>2. SumFunctionOnSet(t, S) <= SumFunctionOnSet(s, S) + (IF n \in S THEN 1 ELSE 0)
  <2>1. \A m \in S : s[m] \in Int /\ t[m] \in Int /\ t[m] <= s[m] + (IF m = n THEN 1 ELSE 0)
    OBVIOUS
  <2>q. QED
    BY <2>1, Pairs, SumStep
<1>3. SumFunctionOnSet(s, S) <= SumFunctionOnSet(t, S) + (IF n \in S THEN -1 ELSE 0)
  <2>1. \A m \in S : s[m] \in Int /\ t[m] \in Int /\ s[m] <= t[m] + (IF m = n THEN -1 ELSE 0)
    OBVIOUS
  <2>2. -1 \in Int
    OBVIOUS
  <2>q. QED
    BY <2>1, <2>2, Pairs, SumStep
<1>q. QED
  BY <1>1, <1>2, <1>3

\* At most one evaluator has a delivery in hand when there is only one.
LEMMA OneInHand ==
    ASSUME NEW a, Evaluators = {a}, NEW e
    PROVE  Cardinality(InHand(e)) = IF pc[a] \in {"read", "write"} /\ local[a].event = e THEN 1 ELSE 0
<1>1. InHand(e) = IF pc[a] \in {"read", "write"} /\ local[a].event = e THEN {a} ELSE {}
  BY DEF InHand
<1>q. QED
  BY <1>1, FS_EmptySet, FS_Singleton

\* An evaluator that is not between a delivery and the write of its counters does not get
\* there without one.
LEMMA NotInHand ==
    ASSUME IInv, NEW i \in Evaluators, Step(i), ~ (Send(i) \/ ReadCounters(i) \/ WriteCounters(i))
    PROVE  pc[i] \notin {"read", "write"} /\ pc'[i] \notin {"read", "write"}
<1>1. To(i, "load", NoLocal) \/ To(i, "end", NoLocal) => pc'[i] \notin {"read", "write"}
  BY GoesOn, Ends DEF Steps, Ended
<1>2. CASE Begin(i)
  BY <1>1, <1>2 DEF Begin
<1>3. CASE Load(i)
  <2>1. pc'[i] = "compute"
    BY <1>3, GoesOn DEF Load, Steps
  <2>q. QED
    BY <1>3, <2>1 DEF Load
<1>4. CASE Compute(i)
  <2>1. pc'[i] \in {"insufficient", "find"}
    BY <1>4, GoesOn DEF Compute, Steps
  <2>q. QED
    BY <1>4, <2>1 DEF Compute
<1>5. CASE Insufficient(i)
  BY <1>1, <1>5 DEF Insufficient
<1>6. CASE Find(i)
  <2>1. pc'[i] = "mark"
    BY <1>6, GoesOn DEF Find, Steps
  <2>q. QED
    BY <1>6, <2>1 DEF Find
<1>7. CASE Mark(i)
  <2>1. Decide(i) \in {"latest", "open", "close", "end"}
    BY DEF Decide
  <2>2. To(i, Decide(i), local[i])
    BY <1>7 DEF Mark
  <2>3. pc'[i] \in {"latest", "open", "close"} \cup Ended
    BY <2>1, <2>2, Known DEF To, Ended
  <2>q. QED
    BY <1>7, <2>3 DEF Mark, Ended
<1>8. CASE Latest(i)
  <2>1. pc'[i] \in {"open"} \cup Ended
    BY <1>8, Known DEF Latest, To, Ended
  <2>q. QED
    BY <1>8, <2>1 DEF Latest, Ended
<1>9. CASE Open(i)
  <2>1. pc'[i] \in {"send"} \cup Ended
    BY <1>9, Known DEF Open, FanOut, To, Ended
  <2>q. QED
    BY <1>9, <2>1 DEF Open, Ended
<1>10. CASE Close(i)
  <2>1. pc'[i] \in {"send"} \cup Ended
    BY <1>10, Known DEF Close, FanOut, To, Ended
  <2>q. QED
    BY <1>10, <2>1 DEF Close, Ended
<1>q. QED
  BY <1>2, <1>3, <1>4, <1>5, <1>6, <1>7, <1>8, <1>9, <1>10 DEF Step

\* A delivery is one more of its event, and in hand.
LEMMA SendsOne ==
    ASSUME IInv, IInv', NEW i \in Evaluators, Send(i), NEW e \in DOMAIN events
    PROVE  /\ pc[i] = "send" /\ pc'[i] = "read"
           /\ local[i].event \in DOMAIN events /\ local'[i].event = local[i].event
           /\ DOMAIN events' = DOMAIN events
           /\ events'[e].attempts = events[e].attempts /\ events'[e].failures = events[e].failures
           /\ Sends(e)' = Sends(e) + (IF e = local[i].event THEN 1 ELSE 0)
<1>1. /\ pc[i] = "send" /\ local[i].event \in DOMAIN events
      /\ local[i] \in LocalType /\ events[e] \in EventType
  BY Known, Rows DEF Send, PlaceInv, Notifying
<1>2. PICK c \in local[i].left, ok \in BOOLEAN :
          /\ To(i, "read", [local[i] EXCEPT !.ok = ok, !.left = @ \ {c}])
          /\ events' \in Seq(EventType)
          /\ Len(events') = Len(events) /\ DOMAIN events' = DOMAIN events
          /\ \A d \in DOMAIN events :
                /\ events'[d].state = events[d].state /\ events'[d].age = events[d].age
                /\ events'[d].attempts = events[d].attempts /\ events'[d].failures = events[d].failures
                /\ \A n \in Channels \X Kinds : events'[d].sent[n] =
                      IF d = local[i].event /\ n = <<c, local[i].kind>>
                      THEN events[d].sent[n] + 1 ELSE events[d].sent[n]
  <2>1. TypeOK /\ local[i].event \in DOMAIN events
    BY <1>1 DEF IInv
  <2>q. QED
    BY <2>1, Delivers
<1>3. pc'[i] = "read" /\ local'[i].event = local[i].event
  <2>1. pc'[i] = "read" /\ local'[i] = [local[i] EXCEPT !.ok = ok, !.left = @ \ {c}]
    BY <1>2, GoesOn DEF Steps
  <2>q. QED
    BY <1>1, <2>1 DEF LocalType
<1>4. <<c, local[i].kind>> \in Channels \X Kinds
  BY <1>1 DEF LocalType
<1>5. events'[e].sent \in [Channels \X Kinds -> Nat] /\ events[e].sent \in [Channels \X Kinds -> Nat]
  <2>1. events'[e] \in EventType
    <3>1. events' \in Seq(EventType) /\ e \in DOMAIN events'
      BY <1>2
    <3>2. DOMAIN events' = 1..Len(events')
      BY <3>1, LenProperties
    <3>q. QED
      BY <3>1, <3>2, ElementOfSeq
  <2>q. QED
    BY <1>1, <2>1 DEF EventType
<1>6. Sends(e)' = SumFunctionOnSet(events'[e].sent, Channels \X Kinds)
  BY DEF Sends
<1>7. CASE e = local[i].event
  <2>1. \A m \in Channels \X Kinds :
           events'[e].sent[m] = IF m = <<c, local[i].kind>> THEN events[e].sent[m] + 1 ELSE events[e].sent[m]
    BY <1>2, <1>7
  <2>2. SumFunctionOnSet(events'[e].sent, Channels \X Kinds)
           = SumFunctionOnSet(events[e].sent, Channels \X Kinds) + 1
    BY <1>4, <1>5, <2>1, OneSend
  <2>q. QED
    BY <1>1, <1>2, <1>3, <1>6, <1>7, <2>2 DEF Sends
<1>8. CASE e # local[i].event
  <2>1. events'[e].sent = events[e].sent
    BY <1>2, <1>5, <1>8
  <2>2. Sends(e)' = Sends(e) /\ Sends(e) \in Int
    BY <1>6, <2>1, SendsType DEF Sends
  <2>q. QED
    BY <1>1, <1>2, <1>3, <1>8, <2>2
<1>q. QED
  BY <1>7, <1>8

\* A loop that is alone keeps its counters: nobody writes between its read and its write.
LEMMA CounterStep ==
    ASSUME Alone, IInv, IInv', CounterInv, Next
    PROVE  CounterInv'
<1>1. PICK a : Evaluators = {a}
  BY DEF Alone, Evaluators
<1> DEFINE H(e) == IF pc[a] \in {"read", "write"} /\ local[a].event = e THEN 1 ELSE 0
           G(e) == IF pc'[a] \in {"read", "write"} /\ local'[a].event = e THEN 1 ELSE 0
<1>2. \A e : Cardinality(InHand(e)) = H(e)
  BY <1>1, OneInHand
<1>3. \A e : Cardinality(InHand(e)') = G(e)
  <2> SUFFICES ASSUME NEW e PROVE Cardinality(InHand(e)') = G(e)
    OBVIOUS
  <2>1. InHand(e)' = IF pc'[a] \in {"read", "write"} /\ local'[a].event = e THEN {a} ELSE {}
    BY <1>1 DEF InHand
  <2>q. QED
    BY <2>1, FS_EmptySet, FS_Singleton
<1>4. /\ faults \in Nat /\ crashes \in Nat /\ faults' \in Nat /\ crashes' \in Nat
      /\ \A e \in DOMAIN events : /\ events[e].attempts \in Nat /\ events[e].failures \in Nat
                                  /\ Sends(e) \in Int
                                  /\ events[e].sent \in [Channels \X Kinds -> Nat]
  BY Known, Rows, SendsType DEF IInv, TypeOK
<1>5. ASSUME NEW e \in DOMAIN events
      PROVE  /\ events[e].failures <= events[e].attempts
             /\ events[e].attempts + H(e) <= Sends(e)
             /\ Sends(e) <= events[e].attempts + faults + crashes + H(e)
             /\ pc[a] = "write" /\ local[a].event = e =>
                  local[a].attempts = events[e].attempts /\ local[a].failures = events[e].failures
  <2>1. pc[a] = "write" /\ local[a].event = e => a \in InHand(e)
    BY <1>1 DEF InHand
  <2>2. /\ events[e].failures <= events[e].attempts
        /\ events[e].attempts + Cardinality(InHand(e)) <= Sends(e)
        /\ Sends(e) <= events[e].attempts + faults + crashes + Cardinality(InHand(e))
        /\ \A i \in InHand(e) : pc[i] = "write" =>
              local[i].attempts = events[e].attempts /\ local[i].failures = events[e].failures
    BY DEF CounterInv, CountersOf
  <2>3. Cardinality(InHand(e)) = H(e)
    BY <1>2
  <2> HIDE DEF H
  <2>4. /\ events[e].attempts + H(e) <= Sends(e)
        /\ Sends(e) <= events[e].attempts + faults + crashes + H(e)
    BY <2>2, <2>3
  <2>q. QED
    BY <2>1, <2>2, <2>4
<1> SUFFICES ASSUME NEW e \in DOMAIN events' PROVE CountersOf(e)'
  BY DEF CounterInv
<1> SUFFICES /\ events'[e].failures <= events'[e].attempts
             /\ events'[e].attempts + G(e) <= Sends(e)'
             /\ Sends(e)' <= events'[e].attempts + faults' + crashes' + G(e)
             /\ pc'[a] = "write" /\ local'[a].event = e =>
                  local'[a].attempts = events'[e].attempts /\ local'[a].failures = events'[e].failures
  <2>1. Cardinality(InHand(e)') = G(e)
    BY <1>3
  <2>2. \A i \in InHand(e)' : i = a /\ local'[a].event = e
    BY <1>1 DEF InHand
  <2> HIDE DEF G
  <2>q. QED
    BY <2>1, <2>2 DEF CountersOf
<1>6. Sends(e)' = SumFunctionOnSet(events'[e].sent, Channels \X Kinds)
  BY DEF Sends
<1>7. \A d : /\ H(d) \in {0, 1} /\ G(d) \in {0, 1}
             /\ pc[a] \notin {"read", "write"} => H(d) = 0
             /\ pc'[a] \notin {"read", "write"} => G(d) = 0
  OBVIOUS
<1>8. a \in Evaluators /\ local[a] \in LocalType /\ PlaceInv(a)
  BY <1>1, Known
<1>9. CASE Open(a)
  <2>1. pc[a] \notin {"read", "write"} /\ pc'[a] \notin {"read", "write"}
    <3>1. Step(a) /\ ~ (Send(a) \/ ReadCounters(a) \/ WriteCounters(a))
      BY <1>9 DEF Step, Open, Send, ReadCounters, WriteCounters
    <3>q. QED
      BY <1>8, <3>1, NotInHand
  <2>2. faults' = faults /\ crashes' = crashes
    BY <1>9 DEF Open, bounds
  <2>3. CASE e \in DOMAIN events
    <3>1. events'[e] = events[e]
      BY <1>8, <1>9, <2>3, Opens DEF IInv
    <3>2. Sends(e)' = Sends(e)
      BY <1>6, <3>1 DEF Sends
    <3> HIDE DEF H, G
    <3>q. QED
      BY <1>4, <1>5, <1>7, <2>1, <2>2, <2>3, <3>1, <3>2
  <2>4. CASE e \notin DOMAIN events
    <3>1. /\ events'[e].attempts = 0 /\ events'[e].failures = 0
          /\ \A n \in Channels \X Kinds : events'[e].sent[n] = 0
      BY <1>8, <1>9, <2>4, Opens DEF IInv
    <3>2. Sends(e)' = 0
      BY <1>6, <3>1, NoSends
    <3> HIDE DEF H, G
    <3>q. QED
      BY <1>4, <1>7, <2>1, <2>2, <3>1, <3>2
  <2>q. QED
    BY <2>3, <2>4
<1>10. CASE Send(a)
  <2>1. e \in DOMAIN events
    <3>1. local[a].event \in DOMAIN events
      BY <1>8, <1>10 DEF Send, PlaceInv, Notifying
    <3>q. QED
      BY <1>8, <1>10, <3>1, SendsOne
  <2>2. /\ pc[a] = "send" /\ pc'[a] = "read" /\ local'[a].event = local[a].event
        /\ events'[e].attempts = events[e].attempts /\ events'[e].failures = events[e].failures
        /\ Sends(e)' = Sends(e) + (IF e = local[a].event THEN 1 ELSE 0)
    BY <1>8, <1>10, <2>1, SendsOne
  <2>3. faults' = faults /\ crashes' = crashes
    BY <1>10 DEF Send, bounds
  <2>4. H(e) = 0 /\ G(e) = IF e = local[a].event THEN 1 ELSE 0
    BY <2>2
  <2> HIDE DEF H, G
  <2>q. QED
    BY <1>4, <1>5, <2>1, <2>2, <2>3, <2>4
<1>11. CASE ReadCounters(a)
  <2>1. /\ pc[a] = "read" /\ events' = events /\ faults' = faults /\ crashes' = crashes
        /\ To(a, "write", [local[a] EXCEPT !.attempts = events[local[a].event].attempts,
                                           !.failures = events[local[a].event].failures])
    BY <1>11 DEF ReadCounters, rows, bounds
  <2>2. /\ pc'[a] = "write" /\ local'[a].event = local[a].event
        /\ local'[a].attempts = events[local[a].event].attempts
        /\ local'[a].failures = events[local[a].event].failures
    <3>1. local'[a] = [local[a] EXCEPT !.attempts = events[local[a].event].attempts,
                                       !.failures = events[local[a].event].failures]
      BY <1>8, <2>1, GoesOn DEF Steps
    <3>2. pc'[a] = "write"
      BY <1>8, <2>1, GoesOn DEF Steps
    <3>q. QED
      BY <1>8, <3>1, <3>2 DEF LocalType
  <2>3. G(e) = H(e)
    BY <2>1, <2>2
  <2>4. Sends(e)' = Sends(e) /\ e \in DOMAIN events
    BY <1>6, <2>1 DEF Sends
  <2> HIDE DEF H, G
  <2>q. QED
    BY <1>5, <2>1, <2>2, <2>3, <2>4
<1>12. CASE WriteCounters(a)
  <2>1. pc[a] = "write" /\ local[a].event \in DOMAIN events
    BY <1>8, <1>12 DEF WriteCounters, PlaceInv, Notifying
  <2>2. /\ DOMAIN events' = DOMAIN events
        /\ events'[e].sent = events[e].sent
        /\ events'[e].attempts = IF e = local[a].event THEN local[a].attempts + 1 ELSE events[e].attempts
        /\ events'[e].failures = IF e = local[a].event /\ ~local[a].ok
                                 THEN local[a].failures + 1 ELSE events[e].failures
    BY <1>8, <1>12, <2>1, Counts DEF IInv
  <2>3. pc'[a] \notin {"read", "write"}
    BY <1>8, <1>12, Known DEF WriteCounters, AfterDelivery, To
  <2>4. Sends(e)' = Sends(e) /\ e \in DOMAIN events
    BY <1>6, <2>2 DEF Sends
  <2>5. faults' = faults /\ crashes' = crashes
    BY <1>12 DEF WriteCounters, bounds
  <2>6. H(e) = (IF e = local[a].event THEN 1 ELSE 0) /\ G(e) = 0
    BY <2>1, <2>3
  <2>7. e = local[a].event => local[a].attempts = events[e].attempts /\ local[a].failures = events[e].failures
    BY <1>5, <2>1, <2>4
  <2> HIDE DEF H, G
  <2>8. CASE e = local[a].event
    BY <1>4, <1>5, <2>2, <2>3, <2>4, <2>5, <2>6, <2>7, <2>8
  <2>9. CASE e # local[a].event
    BY <1>4, <1>5, <2>2, <2>3, <2>4, <2>5, <2>6, <2>9
  <2>q. QED
    BY <2>8, <2>9
<1>13. CASE Raises(a) \/ Crash(a)
  <2>1. /\ events' = events /\ To(a, "end", NoLocal)
        /\ faults' + crashes' = faults + crashes + 1
    BY <1>4, <1>13 DEF Raises, Crash, rows
  <2>2. pc'[a] \notin {"read", "write"}
    BY <1>8, <2>1, Ends DEF Ended
  <2>3. Sends(e)' = Sends(e) /\ e \in DOMAIN events
    BY <1>6, <2>1 DEF Sends
  <2> HIDE DEF H, G
  <2>q. QED
    BY <1>4, <1>5, <1>7, <2>1, <2>2, <2>3
<1>14. ASSUME DOMAIN events' = DOMAIN events,
              events'[e].attempts = events[e].attempts, events'[e].failures = events[e].failures,
              events'[e].sent = events[e].sent, faults' = faults, crashes' = crashes, G(e) = H(e),
              pc'[a] = "write" => /\ pc[a] = "write" /\ local'[a].event = local[a].event
                                  /\ local'[a].attempts = local[a].attempts
                                  /\ local'[a].failures = local[a].failures
       PROVE  /\ events'[e].failures <= events'[e].attempts
              /\ events'[e].attempts + G(e) <= Sends(e)'
              /\ Sends(e)' <= events'[e].attempts + faults' + crashes' + G(e)
              /\ pc'[a] = "write" /\ local'[a].event = e =>
                   local'[a].attempts = events'[e].attempts /\ local'[a].failures = events'[e].failures
  <2>1. Sends(e)' = Sends(e)
    BY <1>6, <1>14 DEF Sends
  <2> HIDE DEF H, G
  <2>q. QED
    BY <1>5, <1>14, <2>1
<1>15. CASE Close(a)
  <2>1. local[a].active \in DOMAIN events
    BY <1>8, <1>15 DEF Close, PlaceInv
  <2>2. /\ DOMAIN events' = DOMAIN events
        /\ \A d \in DOMAIN events :
              /\ events'[d].attempts = events[d].attempts /\ events'[d].failures = events[d].failures
              /\ events'[d].sent = events[d].sent
    BY <1>8, <1>15, <2>1, Closes DEF IInv
  <2>3. pc[a] \notin {"read", "write"} /\ pc'[a] \notin {"read", "write"}
    <3>1. Step(a) /\ ~ (Send(a) \/ ReadCounters(a) \/ WriteCounters(a))
      BY <1>15 DEF Step, Close, Send, ReadCounters, WriteCounters
    <3>q. QED
      BY <1>8, <3>1, NotInHand
  <2>4. faults' = faults /\ crashes' = crashes
    BY <1>15 DEF Close, bounds
  <2>5. G(e) = H(e)
    BY <2>3
  <2> HIDE DEF H, G
  <2>q. QED
    BY <1>14, <2>2, <2>3, <2>4, <2>5
<1>16. CASE Tick
  <2>1. /\ DOMAIN events' = DOMAIN events
        /\ \A d \in DOMAIN events :
              /\ events'[d].attempts = events[d].attempts /\ events'[d].failures = events[d].failures
              /\ events'[d].sent = events[d].sent
    BY <1>16, Ages DEF IInv
  <2>2. /\ pc' = pc /\ faults' = faults /\ crashes' = crashes
        /\ local'[a] = IF a \in Timed THEN [local[a] EXCEPT !.lag = @ + 1] ELSE local[a]
    BY <1>8, <1>16 DEF Tick, bounds
  <2>3. /\ local'[a].event = local[a].event /\ local'[a].attempts = local[a].attempts
        /\ local'[a].failures = local[a].failures
    BY <1>8, <2>2 DEF LocalType
  <2>4. G(e) = H(e)
    BY <2>2, <2>3
  <2> HIDE DEF H, G
  <2>q. QED
    BY <1>14, <2>1, <2>2, <2>3, <2>4
<1>17. CASE Flip \/ Edit
  <2>1. events' = events /\ pc' = pc /\ local' = local /\ faults' = faults /\ crashes' = crashes
    BY <1>17 DEF Flip, Edit, rows
  <2>q. QED
    BY <1>14, <2>1
<1>18. CASE Step(a) /\ ~ (Open(a) \/ Close(a) \/ Send(a) \/ ReadCounters(a) \/ WriteCounters(a))
  <2>1. events' = events /\ faults' = faults /\ crashes' = crashes
    BY <1>18 DEF Step, Begin, Load, Compute, Insufficient, Find, Mark, Latest, rows, bounds
  <2>2. pc[a] \notin {"read", "write"} /\ pc'[a] \notin {"read", "write"}
    BY <1>8, <1>18, NotInHand
  <2>q. QED
    BY <1>14, <2>1, <2>2
<1>q. QED
  BY <1>1, <1>9, <1>10, <1>11, <1>12, <1>13, <1>15, <1>16, <1>17, <1>18 DEF Next

\* The counters of an event that one loop writes match its deliveries, up to the one in
\* hand and those a failure or a restart cut short (AlarmService.record_delivery).
THEOREM DeliveriesAreCounted == Alone => (Spec => []CountersMatch)
<1> SUFFICES ASSUME Alone PROVE Spec => []CountersMatch
  OBVIOUS
<1>1. Init => CounterInv
  BY DEF Init, CounterInv
<1>2. IInv /\ IInv' /\ CounterInv /\ [Next]_vars => CounterInv'
  <2> SUFFICES ASSUME IInv, IInv', CounterInv, [Next]_vars PROVE CounterInv'
    OBVIOUS
  <2>1. CASE Next
    BY <2>1, CounterStep
  <2>2. CASE UNCHANGED vars
    BY <2>2 DEF vars, rows, bounds, CounterInv, CountersOf, InHand, Sends
  <2>q. QED
    BY <2>1, <2>2
<1>3. IInv /\ CounterInv => CountersMatch
  <2> SUFFICES ASSUME IInv, CounterInv, NEW e \in DOMAIN events
               PROVE  /\ events[e].failures <= events[e].attempts
                      /\ events[e].attempts <= Sends(e)
                      /\ Sends(e) <= events[e].attempts + faults + crashes
                              + Cardinality({i \in Evaluators : pc[i] \in {"read", "write"}
                                                                /\ local[i].event = e})
    BY DEF CountersMatch
  <2>1. events[e].attempts \in Nat /\ Sends(e) \in Int
    BY Known, Rows, SendsType
  <2>2. PICK a : Evaluators = {a}
    BY DEF Alone, Evaluators
  <2>3. Cardinality(InHand(e)) \in {0, 1}
    BY <2>2, OneInHand
  <2>q. QED
    BY <2>1, <2>3 DEF CounterInv, CountersOf, InHand
<1>q. QED
  BY <1>1, <1>2, <1>3, Always, PTL DEF Spec
-------------------------------------------------------------------------------
(* The counters of an event that several evaluators deliver.               *)

Held(i, e) == pc[i] \in {"read", "write"} /\ local[i].event = e

\* The deliveries of an event that nobody has in hand.
Room(e) == Sends(e) - Cardinality(InHand(e))

\* What is counted, or was read and will be written, never exceeds them: a write that
\* overwrites another one loses deliveries and invents none.
RoomFor(e) ==
    /\ events[e].attempts <= Room(e) /\ events[e].failures <= Room(e)
    /\ \A i \in Evaluators : Held(i, e) /\ pc[i] = "write" =>
          local[i].attempts <= Room(e) /\ local[i].failures <= Room(e)

RoomInv == \A e \in DOMAIN events : RoomFor(e)

\* No event counts more deliveries, or more failed ones, than were made of it.
NothingInvented ==
    \A e \in DOMAIN events :
        events[e].attempts <= Sends(e) /\ events[e].failures <= Sends(e)

\* Deliveries in hand are counted.
LEMMA HandsType ==
    ASSUME NEW e
    PROVE  /\ IsFiniteSet(InHand(e)) /\ Cardinality(InHand(e)) \in Nat
           /\ Cardinality(InHand(e)') \in Nat
<1>1. IsFiniteSet(Evaluators)
  BY SetsAssumption, FS_Union DEF Evaluators
<1>2. InHand(e) \subseteq Evaluators /\ InHand(e)' \subseteq Evaluators
  BY DEF InHand
<1>q. QED
  BY <1>1, <1>2, FS_Subset, FS_CardinalityType

\* One evaluator at a time takes a delivery in hand or is done with it.
LEMMA Hands ==
    ASSUME IInv, NEW i \in Evaluators, Step(i) \/ Raises(i) \/ Crash(i), NEW e
    PROVE  Cardinality(InHand(e)') = Cardinality(InHand(e)) + (IF Held(i, e)' THEN 1 ELSE 0)
                                                            - (IF Held(i, e) THEN 1 ELSE 0)
<1>1. PICK B : B = InHand(e) \ {i}
  OBVIOUS
<1>2. \A j \in Evaluators : j # i => pc'[j] = pc[j] /\ local'[j] = local[j]
  BY OneMoves
<1>3. InHand(e) = IF Held(i, e) THEN B \cup {i} ELSE B
  BY <1>1 DEF InHand, Held
<1>4. InHand(e)' = IF Held(i, e)' THEN B \cup {i} ELSE B
  <2>1. InHand(e)' = {j \in Evaluators : pc'[j] \in {"read", "write"} /\ local'[j].event = e}
    BY DEF InHand
  <2>2. Held(i, e)' <=> pc'[i] \in {"read", "write"} /\ local'[i].event = e
    BY DEF Held
  <2>q. QED
    BY <1>1, <1>2, <2>1, <2>2 DEF InHand
<1>5. i \notin B /\ IsFiniteSet(B)
  BY <1>1, HandsType, FS_Subset
<1>6. Cardinality(B \cup {i}) = Cardinality(B) + 1 /\ Cardinality(B) \in Nat
  BY <1>5, FS_AddElement, FS_CardinalityType
<1>q. QED
  BY <1>3, <1>4, <1>6

\* What is enough for an event: its room does not shrink, its counters fit, and whoever
\* has read them read no more than there is room for.
LEMMA StillFits ==
    ASSUME RoomInv, NEW e \in DOMAIN events, Room(e) \in Int, Room(e)' \in Int,
           Room(e) <= Room(e)',
           events'[e].attempts <= Room(e)', events'[e].failures <= Room(e)',
           IInv, IInv', DOMAIN events \subseteq DOMAIN events',
           \A j \in Evaluators : Held(j, e)' /\ pc'[j] = "write" =>
              \/ /\ Held(j, e) /\ pc[j] = "write"
                 /\ local'[j].attempts = local[j].attempts /\ local'[j].failures = local[j].failures
              \/ local'[j].attempts <= Room(e)' /\ local'[j].failures <= Room(e)'
    PROVE  RoomFor(e)'
<1>1. ASSUME NEW j \in Evaluators, Held(j, e)', pc'[j] = "write"
      PROVE  local'[j].attempts <= Room(e)' /\ local'[j].failures <= Room(e)'
  <2>1. local[j].attempts \in Nat /\ local[j].failures \in Nat
    BY Known DEF LocalType
  <2>2. CASE /\ Held(j, e) /\ pc[j] = "write"
             /\ local'[j].attempts = local[j].attempts /\ local'[j].failures = local[j].failures
    <3>1. local[j].attempts <= Room(e) /\ local[j].failures <= Room(e)
      BY <2>2 DEF RoomInv, RoomFor
    <3> HIDE DEF Room
    <3>q. QED
      BY <2>1, <2>2, <3>1
  <2>q. QED
    BY <1>1, <2>2
<1>q. QED
  BY <1>1 DEF RoomFor

\* Every step leaves room for what is counted: a delivery makes none until it is
\* counted, and a write takes what its own delivery had made.
LEMMA RoomStep ==
    ASSUME IInv, IInv', RoomInv, Next
    PROVE  RoomInv'
<1>1. DOMAIN events \subseteq DOMAIN events'
  BY Grows
<1>2. ASSUME NEW e \in DOMAIN events
      PROVE  /\ events[e].attempts \in Nat /\ events[e].failures \in Nat
             /\ Sends(e) \in Int /\ Sends(e)' \in Int /\ Room(e) \in Int /\ Room(e)' \in Int
             /\ Room(e) = Sends(e) - Cardinality(InHand(e))
             /\ Room(e)' = Sends(e)' - Cardinality(InHand(e)')
             /\ Cardinality(InHand(e)) \in Nat /\ Cardinality(InHand(e)') \in Nat
             /\ events[e].attempts <= Room(e) /\ events[e].failures <= Room(e)
  <2>1. events[e].attempts \in Nat /\ events[e].failures \in Nat /\ Sends(e) \in Int
    BY Known, Rows, SendsType
  <2>2. Sends(e)' \in Int
    <3>1. events' \in Seq(EventType) /\ e \in DOMAIN events'
      BY <1>1, Grows
    <3>2. DOMAIN events' = 1..Len(events')
      BY <3>1, LenProperties
    <3>3. events'[e] \in EventType
      BY <3>1, <3>2, ElementOfSeq
    <3>4. events'[e].sent \in [Channels \X Kinds -> Nat]
      BY <3>3 DEF EventType
    <3>q. QED
      BY <3>4, Pairs, SumType DEF Sends
  <2>3. Cardinality(InHand(e)) \in Nat /\ Cardinality(InHand(e)') \in Nat
    BY HandsType
  <2>q. QED
    BY <2>1, <2>2, <2>3 DEF Room, RoomInv, RoomFor
<1>3. ASSUME NEW e \in DOMAIN events,
             events'[e].attempts = events[e].attempts, events'[e].failures = events[e].failures,
             Room(e) <= Room(e)',
             \A j \in Evaluators : Held(j, e)' /\ pc'[j] = "write" =>
                \/ /\ Held(j, e) /\ pc[j] = "write"
                   /\ local'[j].attempts = local[j].attempts /\ local'[j].failures = local[j].failures
                \/ local'[j].attempts = events[e].attempts /\ local'[j].failures = events[e].failures
      PROVE  RoomFor(e)'
  <2> HIDE DEF Room, RoomFor, Held
  <2>1. events[e].attempts <= Room(e)' /\ events[e].failures <= Room(e)'
    BY <1>2, <1>3
  <2>q. QED
    BY <1>1, <1>2, <1>3, <2>1, StillFits
<1> SUFFICES ASSUME NEW e \in DOMAIN events' PROVE RoomFor(e)'
  BY DEF RoomInv
<1> DEFINE H(i) == IF Held(i, e) THEN 1 ELSE 0
           G(i) == IF Held(i, e)' THEN 1 ELSE 0
<1>4. ASSUME NEW i \in Evaluators, Step(i) \/ Raises(i) \/ Crash(i)
      PROVE  /\ i \in Evaluators /\ local[i] \in LocalType /\ PlaceInv(i)
             /\ Cardinality(InHand(e)') = Cardinality(InHand(e)) + G(i) - H(i)
             /\ \A j \in Evaluators : j # i /\ Held(j, e)' /\ pc'[j] = "write" =>
                   /\ Held(j, e) /\ pc[j] = "write"
                   /\ local'[j].attempts = local[j].attempts /\ local'[j].failures = local[j].failures
             /\ pc[i] \notin {"read", "write"} => H(i) = 0
             /\ pc'[i] \notin {"read", "write"} => G(i) = 0
             /\ H(i) \in {0, 1} /\ G(i) \in {0, 1}
  <2>1. \A j \in Evaluators : j # i => pc'[j] = pc[j] /\ local'[j] = local[j]
    BY <1>4, OneMoves
  <2>2. \A j \in Evaluators : j # i /\ Held(j, e)' => Held(j, e)
    BY <2>1 DEF Held
  <2>3. Cardinality(InHand(e)') = Cardinality(InHand(e)) + G(i) - H(i)
    BY <1>4, Hands
  <2>4. pc[i] \notin {"read", "write"} => H(i) = 0
    BY DEF Held
  <2>5. pc'[i] \notin {"read", "write"} => G(i) = 0
    BY DEF Held
  <2>q. QED
    BY <2>1, <2>2, <2>3, <2>4, <2>5, Known
<1>5. Sends(e)' = SumFunctionOnSet(events'[e].sent, Channels \X Kinds)
  BY DEF Sends
<1>6. ASSUME NEW i \in Evaluators, Step(i) \/ Raises(i) \/ Crash(i), e \in DOMAIN events,
             events'[e].attempts = events[e].attempts, events'[e].failures = events[e].failures,
             events'[e].sent = events[e].sent, pc'[i] \notin {"read", "write"}
      PROVE  RoomFor(e)'
  <2>1. Sends(e)' = Sends(e)
    BY <1>5, <1>6 DEF Sends
  <2>2. Cardinality(InHand(e)') <= Cardinality(InHand(e))
    <3> HIDE DEF H, G
    <3>q. QED
      BY <1>2, <1>4, <1>6
  <2>3. Room(e) <= Room(e)'
    <3> HIDE DEF Room
    <3>q. QED
      BY <1>2, <1>6, <2>1, <2>2
  <2>4. \A j \in Evaluators : Held(j, e)' /\ pc'[j] = "write" =>
           /\ Held(j, e) /\ pc[j] = "write"
           /\ local'[j].attempts = local[j].attempts /\ local'[j].failures = local[j].failures
    <3> HIDE DEF Held
    <3>q. QED
      BY <1>4, <1>6
  <2>q. QED
    BY <1>3, <1>6, <2>3, <2>4
<1>7. ASSUME NEW i \in Evaluators, Open(i) PROVE RoomFor(e)'
  <2>1. pc[i] \notin {"read", "write"} /\ pc'[i] \notin {"read", "write"} /\ Step(i)
    <3>1. Step(i) /\ ~ (Send(i) \/ ReadCounters(i) \/ WriteCounters(i))
      BY <1>7 DEF Step, Open, Send, ReadCounters, WriteCounters
    <3>q. QED
      BY <3>1, NotInHand
  <2>2. CASE e \in DOMAIN events
    <3>1. events'[e] = events[e]
      BY <1>7, <2>2, Opens DEF IInv
    <3>q. QED
      BY <1>6, <2>1, <2>2, <3>1
  <2>3. CASE e \notin DOMAIN events
    <3>1. /\ events'[e].attempts = 0 /\ events'[e].failures = 0
          /\ \A n \in Channels \X Kinds : events'[e].sent[n] = 0
      BY <1>7, <2>3, Opens DEF IInv
    <3>2. Sends(e)' = 0
      BY <1>5, <3>1, NoSends
    <3>3. \A j \in Evaluators : ~Held(j, e)'
      <4>1. \A j \in Evaluators : ~Held(j, e)
        BY <2>3, Known DEF Held, PlaceInv, Notifying
      <4>2. \A j \in Evaluators : j # i => pc'[j] = pc[j] /\ local'[j] = local[j]
        BY <2>1, OneMoves
      <4>q. QED
        BY <2>1, <4>1, <4>2 DEF Held
    <3>4. InHand(e)' = {}
      BY <3>3 DEF InHand, Held
    <3>5. Room(e)' = 0
      <4>1. Cardinality(InHand(e)') = 0
        BY <3>4, FS_EmptySet
      <4>q. QED
        BY <3>2, <4>1 DEF Room
    <3>q. QED
      BY <3>1, <3>3, <3>5 DEF RoomFor
  <2>q. QED
    BY <2>2, <2>3
<1>8. ASSUME NEW i \in Evaluators, Send(i) PROVE RoomFor(e)'
  <2>1. e \in DOMAIN events /\ Step(i)
    <3>1. local[i].event \in DOMAIN events
      BY <1>8, Known DEF Send, PlaceInv, Notifying
    <3>q. QED
      BY <1>8, <3>1, SendsOne DEF Step
  <2>2. /\ pc[i] = "send" /\ pc'[i] = "read" /\ local'[i].event = local[i].event
        /\ events'[e].attempts = events[e].attempts /\ events'[e].failures = events[e].failures
        /\ Sends(e)' = Sends(e) + (IF e = local[i].event THEN 1 ELSE 0)
    BY <1>8, <2>1, SendsOne
  <2>3. H(i) = 0 /\ G(i) = IF e = local[i].event THEN 1 ELSE 0
    BY <2>2 DEF Held
  <2>4. Cardinality(InHand(e)') = Cardinality(InHand(e)) + (IF e = local[i].event THEN 1 ELSE 0)
    <3> HIDE DEF H, G
    <3>q. QED
      BY <1>2, <1>4, <2>1, <2>3
  <2>5. Room(e) <= Room(e)'
    <3> HIDE DEF Room
    <3>q. QED
      BY <1>2, <2>1, <2>2, <2>4
  <2>q. QED
    BY <1>3, <1>4, <2>1, <2>2, <2>5
<1>9. ASSUME NEW i \in Evaluators, ReadCounters(i) PROVE RoomFor(e)'
  <2>1. /\ pc[i] = "read" /\ events' = events /\ Step(i)
        /\ To(i, "write", [local[i] EXCEPT !.attempts = events[local[i].event].attempts,
                                           !.failures = events[local[i].event].failures])
    BY <1>9 DEF ReadCounters, rows, Step
  <2>2. /\ pc'[i] = "write" /\ local'[i].event = local[i].event
        /\ local'[i].attempts = events[local[i].event].attempts
        /\ local'[i].failures = events[local[i].event].failures
    <3>1. /\ local'[i] = [local[i] EXCEPT !.attempts = events[local[i].event].attempts,
                                          !.failures = events[local[i].event].failures]
          /\ pc'[i] = "write"
      BY <2>1, GoesOn DEF Steps
    <3>q. QED
      BY <3>1, Known DEF LocalType
  <2>3. G(i) = H(i) /\ e \in DOMAIN events /\ Sends(e)' = Sends(e)
    BY <1>5, <2>1, <2>2 DEF Held, Sends
  <2>4. Room(e) <= Room(e)'
    <3> HIDE DEF Room, H, G
    <3>q. QED
      BY <1>2, <1>4, <2>1, <2>3
  <2>5. Held(i, e)' => /\ local'[i].attempts = events[e].attempts
                       /\ local'[i].failures = events[e].failures
    BY <2>2 DEF Held
  <2>q. QED
    BY <1>3, <1>4, <2>1, <2>3, <2>4, <2>5
<1>10. ASSUME NEW i \in Evaluators, WriteCounters(i) PROVE RoomFor(e)'
  <2>1. pc[i] = "write" /\ local[i].event \in DOMAIN events /\ Step(i)
    BY <1>10, Known DEF WriteCounters, PlaceInv, Notifying, Step
  <2>2. /\ e \in DOMAIN events /\ events'[e].sent = events[e].sent
        /\ events'[e].attempts = IF e = local[i].event THEN local[i].attempts + 1 ELSE events[e].attempts
        /\ events'[e].failures = IF e = local[i].event /\ ~local[i].ok
                                 THEN local[i].failures + 1 ELSE events[e].failures
    BY <1>10, <2>1, Counts DEF IInv
  <2>3. pc'[i] \notin {"read", "write"}
    BY <1>10, Known DEF WriteCounters, AfterDelivery, To
  <2>4. CASE e # local[i].event
    BY <1>6, <2>1, <2>2, <2>3, <2>4
  <2>5. CASE e = local[i].event
    <3>1. Held(i, e) /\ H(i) = 1 /\ G(i) = 0
      BY <2>1, <2>3, <2>5 DEF Held
    <3>2. Sends(e)' = Sends(e)
      BY <1>5, <2>2 DEF Sends
    <3>3. Cardinality(InHand(e)') = Cardinality(InHand(e)) - 1
      <4> HIDE DEF H, G
      <4>q. QED
        BY <1>2, <1>4, <2>1, <2>2, <3>1
    <3>4. Room(e)' = Room(e) + 1
      <4> HIDE DEF Room
      <4>q. QED
        BY <1>2, <2>2, <3>2, <3>3
    <3>5. local[i].attempts <= Room(e) /\ local[i].failures <= Room(e)
      BY <2>1, <2>2, <3>1 DEF RoomInv, RoomFor
    <3>6. local[i].attempts \in Nat /\ local[i].failures \in Nat
      BY Known DEF LocalType
    <3>7. Room(e) <= Room(e)' /\ events'[e].attempts <= Room(e)' /\ events'[e].failures <= Room(e)'
      <4> HIDE DEF Room
      <4>q. QED
        BY <1>2, <2>2, <2>5, <3>4, <3>5, <3>6
    <3>8. \A j \in Evaluators : Held(j, e)' /\ pc'[j] = "write" =>
             /\ Held(j, e) /\ pc[j] = "write"
             /\ local'[j].attempts = local[j].attempts /\ local'[j].failures = local[j].failures
      BY <1>4, <2>1, <2>3
    <3>q. QED
      <4> HIDE DEF Room, RoomFor, Held
      <4>q. QED
        BY <1>1, <1>2, <2>2, <3>7, <3>8, StillFits
  <2>q. QED
    BY <2>4, <2>5
<1>11. ASSUME NEW i \in Evaluators, Close(i) PROVE RoomFor(e)'
  <2>1. local[i].active \in DOMAIN events /\ Step(i)
    BY <1>11, Known DEF Close, PlaceInv, Step
  <2>2. /\ e \in DOMAIN events /\ events'[e].sent = events[e].sent
        /\ events'[e].attempts = events[e].attempts /\ events'[e].failures = events[e].failures
    BY <1>11, <2>1, Closes DEF IInv
  <2>3. pc'[i] \notin {"read", "write"}
    <3>1. ~ (Send(i) \/ ReadCounters(i) \/ WriteCounters(i))
      BY <1>11 DEF Close, Send, ReadCounters, WriteCounters
    <3>q. QED
      BY <2>1, <3>1, NotInHand
  <2>q. QED
    BY <1>6, <2>1, <2>2, <2>3
<1>12. ASSUME NEW i \in Evaluators, Raises(i) \/ Crash(i) PROVE RoomFor(e)'
  <2>1. events' = events /\ To(i, "end", NoLocal)
    BY <1>12 DEF Raises, Crash, rows
  <2>2. pc'[i] \notin {"read", "write"}
    BY <2>1, Ends DEF Ended
  <2>q. QED
    BY <1>6, <1>12, <2>1, <2>2
<1>13. ASSUME NEW i \in Evaluators, Step(i),
              ~ (Open(i) \/ Close(i) \/ Send(i) \/ ReadCounters(i) \/ WriteCounters(i))
       PROVE  RoomFor(e)'
  <2>1. events' = events
    BY <1>13 DEF Step, Begin, Load, Compute, Insufficient, Find, Mark, Latest, rows
  <2>2. pc'[i] \notin {"read", "write"}
    BY <1>13, NotInHand
  <2>q. QED
    BY <1>6, <1>13, <2>1, <2>2
<1>14. CASE Tick \/ Flip \/ Edit
  <2>1. /\ e \in DOMAIN events /\ events'[e].sent = events[e].sent
        /\ events'[e].attempts = events[e].attempts /\ events'[e].failures = events[e].failures
    BY <1>14, Ages DEF IInv, Flip, Edit, rows
  <2>2. \A j \in Evaluators :
           /\ pc'[j] = pc[j] /\ local'[j].event = local[j].event
           /\ local'[j].attempts = local[j].attempts /\ local'[j].failures = local[j].failures
    <3> SUFFICES ASSUME NEW j \in Evaluators
                 PROVE  /\ pc'[j] = pc[j] /\ local'[j].event = local[j].event
                        /\ local'[j].attempts = local[j].attempts /\ local'[j].failures = local[j].failures
      OBVIOUS
    <3>1. CASE Tick
      <4>1. pc' = pc /\ local'[j] = IF j \in Timed THEN [local[j] EXCEPT !.lag = @ + 1] ELSE local[j]
        BY <3>1 DEF Tick
      <4>q. QED
        BY <4>1, Known DEF LocalType
    <3>2. CASE Flip \/ Edit
      BY <3>2 DEF Flip, Edit
    <3>q. QED
      BY <1>14, <3>1, <3>2
  <2>3. \A j \in Evaluators : Held(j, e)' <=> Held(j, e)
    BY <2>2 DEF Held
  <2>4. InHand(e)' = InHand(e)
    BY <2>2 DEF InHand
  <2>5. Sends(e)' = Sends(e)
    BY <1>5, <2>1 DEF Sends
  <2>6. Room(e) <= Room(e)'
    <3>1. Room(e)' = Room(e)
      BY <2>4, <2>5 DEF Room
    <3> HIDE DEF Room
    <3>q. QED
      BY <1>2, <2>1, <3>1
  <2>q. QED
    BY <1>3, <2>1, <2>2, <2>3, <2>6
<1>q. QED
  BY <1>7, <1>8, <1>9, <1>10, <1>11, <1>12, <1>13, <1>14 DEF Next

\* Evaluators that overwrite each other's counters may lose deliveries, and never invent
\* one: no event counts more attempts or failures than it had deliveries
\* (AlarmService.record_delivery), for any number of loops and requests.
THEOREM DeliveriesAreNotInvented == Spec => []NothingInvented
<1>1. Init => RoomInv
  BY DEF Init, RoomInv
<1>2. IInv /\ IInv' /\ RoomInv /\ [Next]_vars => RoomInv'
  <2> SUFFICES ASSUME IInv, IInv', RoomInv, [Next]_vars PROVE RoomInv'
    OBVIOUS
  <2>1. CASE Next
    BY <2>1, RoomStep
  <2>2. CASE UNCHANGED vars
    BY <2>2 DEF vars, rows, bounds, RoomInv, RoomFor, Room, Held, InHand, Sends
  <2>q. QED
    BY <2>1, <2>2
<1>3. IInv /\ RoomInv => NothingInvented
  <2> SUFFICES ASSUME IInv, RoomInv, NEW e \in DOMAIN events
               PROVE  events[e].attempts <= Sends(e) /\ events[e].failures <= Sends(e)
    BY DEF NothingInvented
  <2>1. events[e].attempts \in Nat /\ events[e].failures \in Nat /\ Sends(e) \in Int
    BY Known, Rows, SendsType
  <2>2. Cardinality(InHand(e)) \in Nat /\ Room(e) = Sends(e) - Cardinality(InHand(e))
    BY HandsType DEF Room
  <2>3. events[e].attempts <= Room(e) /\ events[e].failures <= Room(e)
    BY DEF RoomInv, RoomFor
  <2> HIDE DEF Room
  <2>q. QED
    BY <2>1, <2>2, <2>3
<1>q. QED
  BY <1>1, <1>2, <1>3, Always, PTL DEF Spec
===============================================================================
