---------------------------- MODULE SynthJobsProofs ----------------------------
(***************************************************************************)
(* SynthJobs: what its streams are told and what its figures say is right   *)
(* for any number of streams and cancellations, any target, queue and tail  *)
(* size, and any number of faults and restarts.                             *)
(***************************************************************************)
EXTENDS SynthJobs, SequenceTheorems, TLAPS

Publications == {"queued", "running"} \cup Terminal
EventType == [at : Nat \ {0}, status : Publications]

BrokerType ==
    /\ published \in Nat /\ tail \in Seq(EventType)
    /\ phase \in [Listeners -> {"idle", "open", "over"}]
    /\ replay \in [Listeners -> Seq(EventType)]
    /\ queue \in [Listeners -> Seq(EventType)]
    /\ last \in [Listeners -> Nat] /\ dropped \subseteq Listeners

JobType ==
    /\ status \in {"none"} \cup Publications /\ shown \in Nat
    /\ setAlive \in BOOLEAN /\ items \in Nat
    /\ launch \in {"idle", "committed", "spawned", "lost"} /\ flag \in BOOLEAN
    /\ pc \in Live \cup {"none", "over", "dead", "lost"} /\ cancelReq \in BOOLEAN
    /\ docs \in 0..Target /\ generated \in Nat
    /\ client \in [Clients -> {"idle", "refused", "checked", "accepted", "lost"}]
    /\ faults \in Nat /\ crashes \in Nat

TypeOK == JobType /\ BrokerType
-------------------------------------------------------------------------------
(* The inductive invariant.                                                *)

Untold == \A i \in DOMAIN tail : tail[i].status \notin Terminal

\* Only a worker that lives is to be cancelled.
CancelInv == cancelReq => pc \in Live

\* The worker comes after its launch and has told nothing terminal while it lives.
ToldInv ==
    /\ launch = "idle" <=> status = "none"
    /\ launch \in {"idle", "committed"} => pc = "none"
    /\ pc \in Live \cup {"none"} => Untold
    /\ pc = "doneClose" => status = "done"
    /\ pc = "failClose" => status = "failed"

\* Where the worker may be once its row is final.
Ending == {"doneClose", "over", "dead", "lost"} \cup Handlers

\* Where the worker has candidates to make, and what the counter, the row, the set
\* and the target say of each other.
FiguresInv ==
    /\ pc \in {"call", "persist", "progress"} => docs > 0
    /\ pc \in {"none", "scheduled", "opened", "spec", "sources"} => generated = 0
    /\ pc \in {"call", "persist", "markCancelled"} => generated + docs <= Target
    /\ pc = "progress" => generated + docs <= Target + 1
    /\ generated <= Target
    /\ generated \in {shown, shown + 1}
    /\ setAlive => items = generated
    /\ pc \in {"none"} \cup (Live \ ({"progress"} \cup Handlers)) => generated = shown
    /\ status = "done" => generated = shown
    /\ status \in Terminal => pc \in Ending

\* The positions of a sequence of events lie after lo and up to hi; they ascend; they
\* follow n one by one.
Within(x, lo, hi) == \A i \in DOMAIN x : lo < x[i].at /\ x[i].at <= hi
Ascending(x)      == \A i, j \in DOMAIN x : i < j => x[i].at < x[j].at
Follows(x, n)     == \A i \in DOMAIN x : x[i].at = n + i

\* What an open stream still has to send (r, then q) lies between what it sent last
\* (sent) and what was published last (top), in order; without gap unless its queue
\* overflowed (lossy).
Stream(l, r, q, sent, top, ph, lossy) ==
    /\ sent <= top /\ Len(q) <= QueueSize
    /\ ph # "open" => r = <<>> /\ q = <<>>
    /\ ph = "idle" => sent = 0
    /\ Within(r, sent, top) /\ Within(q, sent, top)
    /\ Ascending(r) /\ Ascending(q)
    /\ \A i \in DOMAIN r, j \in DOMAIN q : r[i].at < q[j].at
    /\ ph = "open" /\ l \notin lossy =>
         /\ Follows(q, top - Len(q))
         /\ Follows(r, top - Len(q) - Len(r))
         /\ sent # 0 => sent = top - Len(q) - Len(r)

StreamInv(l) == Stream(l, replay[l], queue[l], last[l], published, phase[l], dropped)

TailInv == Follows(tail, published - Len(tail))

IInv == TypeOK /\ CancelInv /\ ToldInv /\ ToldIsTrue /\ FiguresInv /\ TailInv /\ \A l \in Listeners : StreamInv(l)
-------------------------------------------------------------------------------
(* The broker, whoever publishes: its types, its tail, its streams.        *)

BrokerNext ==
    \/ \E s \in Publications : Publish(s)
    \/ \E l \in Listeners : Subscribe(l) \/ Receive(l) \/ Leave(l)
    \/ BrokerLost
    \/ UNCHANGED broker

BrokerInv == BrokerType /\ TailInv /\ \A l \in Listeners : StreamInv(l)

\* The sequence new continues old by one element, after dropping k at its head.
Continues(new, old, k) ==
    /\ Len(new) = Len(old) + 1 - k
    /\ \A i \in 1..(Len(new) - 1) : i + k \in DOMAIN old /\ new[i] = old[i + k]

\* The new tail holds the last events of the old one and the new event.
LEMMA TailGrows ==
    ASSUME BrokerType, NEW s \in Publications, Publish(s)
    PROVE  /\ tail' \in Seq(EventType) /\ Len(tail') \in Nat \ {0}
           /\ tail'[Len(tail')] = Event(s)
           /\ \E k \in {0, 1} : Continues(tail', tail, k)
<1> DEFINE longer == Append(tail, Event(s))
<1>1. Event(s) \in EventType
    BY SMT DEF Event, EventType, BrokerType
<1>2. tail \in Seq(EventType) /\ DOMAIN tail = 1..Len(tail) /\ Len(tail) \in Nat
    BY LenProperties DEF BrokerType
<1>3. /\ longer \in Seq(EventType) /\ longer # <<>> /\ Len(longer) = Len(tail) + 1
      /\ \A i \in 1..Len(tail) : longer[i] = tail[i]
      /\ longer[Len(tail) + 1] = Event(s)
    BY <1>1, <1>2, AppendProperties
<1>4. tail' = IF Len(longer) > TailSize THEN Tail(longer) ELSE longer
    BY DEF Publish
<1> HIDE DEF longer
<1>5. CASE tail' = longer
  <2>1. Continues(tail', tail, 0)
      BY <1>2, <1>3, <1>5, SMT DEF Continues
  <2>q. QED
      BY <1>2, <1>3, <1>5, <2>1, SMT
<1>6. CASE tail' = Tail(longer) /\ Len(longer) > TailSize
  <2>1. /\ Tail(longer) \in Seq(EventType)
        /\ Len(Tail(longer)) = Len(longer) - 1
        /\ \A i \in 1..Len(Tail(longer)) : Tail(longer)[i] = longer[i + 1]
    <3>1. longer \in Seq(EventType) /\ longer # <<>>
        BY <1>3
    <3>q. QED
        BY <3>1, HeadTailProperties
  <2>2. Len(tail') = Len(tail) /\ Len(tail) > 0
      BY <1>2, <1>3, <1>6, <2>1, SizesAssumption, SMT
  <2>3. tail'[Len(tail')] = Event(s)
      BY <1>2, <1>3, <1>6, <2>1, <2>2, SMT
  <2>4. Continues(tail', tail, 1)
      BY <1>2, <1>3, <1>6, <2>1, <2>2, SMT DEF Continues
  <2>q. QED
      BY <1>2, <1>6, <2>1, <2>2, <2>3, <2>4, SMT
<1>q. QED
    BY <1>4, <1>5, <1>6

\* An offered event comes last; before it is the queue, less its head if full.
LEMMA Offered ==
    ASSUME NEW q \in Seq(EventType), NEW e \in EventType, Len(q) <= QueueSize
    PROVE  /\ Offer(q, e) \in Seq(EventType) /\ Len(Offer(q, e)) \in 1..QueueSize
           /\ Offer(q, e)[Len(Offer(q, e))] = e
           /\ \E k \in {0, 1} : (k = 1 <=> Len(q) = QueueSize) /\ Continues(Offer(q, e), q, k)
<1>1. DOMAIN q = 1..Len(q) /\ Len(q) \in Nat /\ QueueSize \in Nat \ {0}
    BY LenProperties, SizesAssumption
<1>2. CASE Len(q) < QueueSize
  <2>1. Offer(q, e) = Append(q, e)
      BY <1>2 DEF Offer
  <2>q. QED
    <3>1. /\ Append(q, e) \in Seq(EventType) /\ Len(Append(q, e)) = Len(q) + 1
          /\ \A i \in 1..Len(q) : Append(q, e)[i] = q[i]
          /\ Append(q, e)[Len(q) + 1] = e
        BY AppendProperties
    <3>2. Continues(Offer(q, e), q, 0)
        BY <1>1, <2>1, <3>1, SMT DEF Continues
    <3>3. Len(Offer(q, e)) \in 1..QueueSize /\ Offer(q, e)[Len(Offer(q, e))] = e
        BY <1>1, <1>2, <2>1, <3>1, SMT
    <3>q. QED
        BY <1>1, <1>2, <2>1, <3>1, <3>2, <3>3, SMT
<1>3. CASE Len(q) = QueueSize
  <2>1. Offer(q, e) = Append(Tail(q), e) /\ q # <<>>
      BY <1>1, <1>3, SMT DEF Offer
  <2>2. /\ Tail(q) \in Seq(EventType) /\ Len(Tail(q)) = Len(q) - 1
        /\ \A i \in 1..Len(Tail(q)) : Tail(q)[i] = q[i + 1]
      BY <2>1, HeadTailProperties
  <2>3. /\ Append(Tail(q), e) \in Seq(EventType)
        /\ Len(Append(Tail(q), e)) = Len(Tail(q)) + 1
        /\ \A i \in 1..Len(Tail(q)) : Append(Tail(q), e)[i] = Tail(q)[i]
        /\ Append(Tail(q), e)[Len(Tail(q)) + 1] = e
      BY <2>2, AppendProperties
  <2>q. QED
    <3>1. Continues(Offer(q, e), q, 1)
        BY <1>1, <2>1, <2>2, <2>3, SMT DEF Continues
    <3>2. Len(Offer(q, e)) \in 1..QueueSize /\ Offer(q, e)[Len(Offer(q, e))] = e
        BY <1>1, <1>3, <2>1, <2>2, <2>3, SMT
    <3>q. QED
        BY <1>1, <1>3, <2>1, <2>3, <3>1, <3>2, SMT
<1>4. Len(q) < QueueSize \/ Len(q) = QueueSize
  <2>1. \A m, n \in Nat : m <= n => m < n \/ m = n
      BY SMT
  <2>2. Len(q) \in Nat /\ QueueSize \in Nat /\ Len(q) <= QueueSize
      BY <1>1
  <2>q. QED
      BY <2>1, <2>2
<1>q. QED
    BY <1>2, <1>3, <1>4

\* The events of a sequence have positions.
LEMMA Positions ==
    ASSUME NEW x \in Seq(EventType)
    PROVE  /\ DOMAIN x = 1..Len(x) /\ Len(x) \in Nat
           /\ \A i \in DOMAIN x : x[i] \in EventType /\ x[i].at \in Nat \ {0}
<1>1. DOMAIN x = 1..Len(x) /\ Len(x) \in Nat
    BY LenProperties
<1>2. ASSUME NEW i \in DOMAIN x PROVE x[i] \in EventType
    BY <1>1, ElementOfSeq
<1>q. QED
    BY <1>1, <1>2 DEF EventType

\* A stream whose queue is offered the next event stays in order.
LEMMA StreamOffered ==
    ASSUME NEW r \in Seq(EventType), NEW q \in Seq(EventType), NEW new \in Seq(EventType),
           NEW sent \in Nat, NEW top \in Nat, NEW k \in {0, 1},
           NEW l, NEW d, NEW d2,
           Stream(l, r, q, sent, top, "open", d), Continues(new, q, k),
           Len(new) \in 1..QueueSize, new[Len(new)].at = top + 1,
           d \subseteq d2, k = 1 => l \in d2
    PROVE  Stream(l, r, new, sent, top + 1, "open", d2)
<1>1. /\ DOMAIN r = 1..Len(r) /\ Len(r) \in Nat /\ \A i \in DOMAIN r : r[i].at \in Nat
      /\ DOMAIN q = 1..Len(q) /\ Len(q) \in Nat /\ \A i \in DOMAIN q : q[i].at \in Nat
      /\ DOMAIN new = 1..Len(new) /\ Len(new) \in Nat /\ \A i \in DOMAIN new : new[i].at \in Nat
    BY Positions
<1>2. /\ sent <= top
      /\ \A i \in DOMAIN r : sent < r[i].at /\ r[i].at <= top
      /\ \A i \in DOMAIN q : sent < q[i].at /\ q[i].at <= top
      /\ \A i, j \in DOMAIN r : i < j => r[i].at < r[j].at
      /\ \A i, j \in DOMAIN q : i < j => q[i].at < q[j].at
      /\ \A i \in DOMAIN r, j \in DOMAIN q : r[i].at < q[j].at
    BY DEF Stream, Within, Ascending
<1>3. ASSUME NEW i \in DOMAIN new, i # Len(new)
      PROVE  i + k \in DOMAIN q /\ new[i].at = q[i + k].at
  <2>1. i \in 1..(Len(new) - 1)
      BY <1>1, <1>3, SMT
  <2>q. QED
      BY <2>1 DEF Continues
<1>4. QueueSize \in Nat /\ Len(new) = Len(q) + 1 - k /\ Len(new) <= QueueSize /\ Len(new) \in DOMAIN new
    BY <1>1, SizesAssumption, SMT DEF Continues
<1>5. Within(new, sent, top + 1)
  <2> SUFFICES ASSUME NEW i \in DOMAIN new PROVE sent < new[i].at /\ new[i].at <= top + 1
      BY DEF Within
  <2>1. CASE i = Len(new)
      BY <1>2, <2>1, SMT
  <2>2. CASE i # Len(new)
    <3>1. i + k \in DOMAIN q /\ new[i].at = q[i + k].at
        BY <1>3, <2>2
    <3>2. sent < q[i + k].at /\ q[i + k].at <= top /\ q[i + k].at \in Nat
        BY <1>1, <1>2, <3>1
    <3>q. QED
        BY <3>1, <3>2, SMT
  <2>q. QED
      BY <2>1, <2>2
<1>6. Within(r, sent, top + 1)
    BY <1>1, <1>2, SMT DEF Within
<1>7. Ascending(new)
  <2> SUFFICES ASSUME NEW i \in DOMAIN new, NEW j \in DOMAIN new, i < j
               PROVE  new[i].at < new[j].at
      BY DEF Ascending
  <2>1. i # Len(new)
      BY <1>1, SMT
  <2>2. i + k \in DOMAIN q /\ new[i].at = q[i + k].at
      BY <1>3, <2>1
  <2>3. CASE j = Len(new)
      BY <1>1, <1>2, <2>2, <2>3, SMT
  <2>4. CASE j # Len(new)
    <3>1. j + k \in DOMAIN q /\ new[j].at = q[j + k].at
        BY <1>3, <2>4
    <3>2. i + k < j + k
        BY <1>1, SMT
    <3>q. QED
        BY <1>2, <2>2, <3>1, <3>2
  <2>q. QED
      BY <2>3, <2>4
<1>8. ASSUME NEW i \in DOMAIN r, NEW j \in DOMAIN new PROVE r[i].at < new[j].at
  <2>1. CASE j = Len(new)
      BY <1>1, <1>2, <2>1, SMT
  <2>2. CASE j # Len(new)
      BY <1>2, <1>3, <2>2
  <2>q. QED
      BY <2>1, <2>2
<1>9. ASSUME l \notin d2
      PROVE  /\ Follows(new, top + 1 - Len(new))
             /\ Follows(r, top + 1 - Len(new) - Len(r))
             /\ sent # 0 => sent = top + 1 - Len(new) - Len(r)
  <2>1. k = 0 /\ l \notin d
      BY <1>9
  <2>2. Len(new) = Len(q) + 1
      BY <1>1, <1>4, <2>1, SMT
  <2>3. /\ \A i \in DOMAIN q : q[i].at = top - Len(q) + i
        /\ \A i \in DOMAIN r : r[i].at = top - Len(q) - Len(r) + i
        /\ sent # 0 => sent = top - Len(q) - Len(r)
      BY <2>1 DEF Stream, Follows
  <2>4. top + 1 - Len(new) = top - Len(q) /\ top + 1 - Len(new) - Len(r) = top - Len(q) - Len(r)
      BY <1>1, <2>2, SMT
  <2>5. Follows(new, top + 1 - Len(new))
    <3> SUFFICES ASSUME NEW i \in DOMAIN new PROVE new[i].at = top - Len(q) + i
        BY <2>4 DEF Follows
    <3>1. CASE i = Len(new)
        BY <1>1, <2>2, <3>1, SMT
    <3>2. CASE i # Len(new)
        BY <1>1, <1>3, <2>1, <2>3, <3>2, SMT
    <3>q. QED
        BY <3>1, <3>2
  <2>q. QED
      BY <2>3, <2>4, <2>5 DEF Follows
<1>10. sent <= top + 1
    BY <1>2, SMT
<1>q. QED
    BY <1>4, <1>5, <1>6, <1>7, <1>8, <1>9, <1>10 DEF Stream

\* A stream that is open has been sent the next event: less remains.
LEMMA StreamSent ==
    ASSUME NEW r \in Seq(EventType), NEW q \in Seq(EventType),
           NEW sent \in Nat, NEW top \in Nat, NEW l, NEW d,
           Stream(l, r, q, sent, top, "open", d)
    PROVE  /\ r # <<>> => /\ Tail(r) \in Seq(EventType) /\ Head(r) \in EventType
                          /\ Stream(l, Tail(r), q, Head(r).at, top, "open", d)
                          /\ sent < Head(r).at
                          /\ sent # 0 /\ l \notin d => Head(r).at = sent + 1
           /\ r = <<>> /\ q # <<>> => /\ Tail(q) \in Seq(EventType) /\ Head(q) \in EventType
                                      /\ Stream(l, r, Tail(q), Head(q).at, top, "open", d)
                                      /\ sent < Head(q).at
                                      /\ sent # 0 /\ l \notin d => Head(q).at = sent + 1
<1>1. /\ DOMAIN r = 1..Len(r) /\ Len(r) \in Nat /\ \A i \in DOMAIN r : r[i].at \in Nat
      /\ DOMAIN q = 1..Len(q) /\ Len(q) \in Nat /\ \A i \in DOMAIN q : q[i].at \in Nat
    BY Positions
<1>2. /\ sent <= top /\ Len(q) <= QueueSize /\ QueueSize \in Nat
      /\ \A i \in DOMAIN r : sent < r[i].at /\ r[i].at <= top
      /\ \A i \in DOMAIN q : sent < q[i].at /\ q[i].at <= top
      /\ \A i, j \in DOMAIN r : i < j => r[i].at < r[j].at
      /\ \A i, j \in DOMAIN q : i < j => q[i].at < q[j].at
      /\ \A i \in DOMAIN r, j \in DOMAIN q : r[i].at < q[j].at
    BY SizesAssumption DEF Stream, Within, Ascending
<1>3. ASSUME l \notin d
      PROVE  /\ \A i \in DOMAIN q : q[i].at = top - Len(q) + i
             /\ \A i \in DOMAIN r : r[i].at = top - Len(q) - Len(r) + i
             /\ sent # 0 => sent = top - Len(q) - Len(r)
    BY <1>3 DEF Stream, Follows
<1>4. ASSUME NEW x \in Seq(EventType), x # <<>>
      PROVE  /\ Tail(x) \in Seq(EventType) /\ Head(x) = x[1] /\ Len(Tail(x)) = Len(x) - 1
             /\ DOMAIN Tail(x) = 1..(Len(x) - 1) /\ 1 \in DOMAIN x /\ x[1] \in EventType
             /\ \A i \in DOMAIN Tail(x) : i + 1 \in DOMAIN x /\ Tail(x)[i] = x[i + 1]
  <2>1. DOMAIN x = 1..Len(x) /\ Len(x) \in Nat /\ Len(x) # 0
      BY <1>4, LenProperties, EmptySeq
  <2>2. /\ Tail(x) \in Seq(EventType) /\ Len(Tail(x)) = Len(x) - 1
        /\ \A i \in 1..Len(Tail(x)) : Tail(x)[i] = x[i + 1]
      BY <1>4, HeadTailProperties
  <2>3. DOMAIN Tail(x) = 1..Len(Tail(x)) /\ Head(x) = x[1]
      BY <1>4, <2>2, LenProperties, HeadTailProperties
  <2>4. 1 \in DOMAIN x /\ \A i \in 1..(Len(x) - 1) : i + 1 \in DOMAIN x
      BY <2>1, SMT
  <2>q. QED
      BY <2>1, <2>2, <2>3, <2>4, Positions
<1>5. ASSUME r # <<>>
      PROVE  /\ Tail(r) \in Seq(EventType) /\ Head(r) \in EventType
             /\ Stream(l, Tail(r), q, Head(r).at, top, "open", d)
             /\ sent < Head(r).at
             /\ sent # 0 /\ l \notin d => Head(r).at = sent + 1
  <2> DEFINE t == Tail(r)
  <2>1. /\ t \in Seq(EventType) /\ Head(r) = r[1] /\ Len(t) = Len(r) - 1
        /\ DOMAIN t = 1..(Len(r) - 1) /\ 1 \in DOMAIN r /\ r[1] \in EventType
        /\ \A i \in DOMAIN t : i + 1 \in DOMAIN r /\ t[i] = r[i + 1]
      BY <1>4, <1>5
  <2> HIDE DEF t
  <2>2. Head(r).at \in Nat /\ sent < Head(r).at /\ Head(r).at <= top
      BY <1>1, <1>2, <2>1
  <2>3. Within(t, Head(r).at, top)
    <3> SUFFICES ASSUME NEW i \in DOMAIN t PROVE r[1].at < t[i].at /\ t[i].at <= top
        BY <2>1 DEF Within
    <3>1. i + 1 \in DOMAIN r /\ t[i] = r[i + 1] /\ 1 < i + 1
        BY <1>1, <2>1, SMT
    <3>q. QED
        BY <1>2, <2>1, <3>1
  <2>4. Within(q, Head(r).at, top)
      BY <1>2, <2>1 DEF Within
  <2>5. Ascending(t)
    <3> SUFFICES ASSUME NEW i \in DOMAIN t, NEW j \in DOMAIN t, i < j
                 PROVE  t[i].at < t[j].at
        BY DEF Ascending
    <3>1. i + 1 < j + 1
        BY <1>1, <2>1, SMT
    <3>q. QED
        BY <1>2, <2>1, <3>1
  <2>6. \A i \in DOMAIN t, j \in DOMAIN q : t[i].at < q[j].at
      BY <1>2, <2>1
  <2>7. ASSUME l \notin d
        PROVE  /\ Follows(q, top - Len(q)) /\ Follows(t, top - Len(q) - Len(t))
               /\ Head(r).at = top - Len(q) - Len(t)
               /\ sent # 0 => Head(r).at = sent + 1
    <3>1. Head(r).at = top - Len(q) - Len(r) + 1
        BY <1>3, <2>1, <2>7
    <3>2. \A i \in DOMAIN t : t[i].at = top - Len(q) - Len(t) + i
      <4> SUFFICES ASSUME NEW i \in DOMAIN t PROVE t[i].at = top - Len(q) - Len(t) + i
          OBVIOUS
      <4>1. t[i].at = top - Len(q) - Len(r) + (i + 1)
          BY <1>3, <2>1, <2>7
      <4>q. QED
          BY <1>1, <2>1, <4>1, SMT
    <3>3. Head(r).at = top - Len(q) - Len(t)
        BY <1>1, <2>1, <3>1, SMT
    <3>4. sent # 0 => Head(r).at = sent + 1
        BY <1>3, <2>7, <3>1
    <3>q. QED
        BY <1>3, <2>7, <3>2, <3>3, <3>4 DEF Follows
  <2>8. Ascending(q)
      BY <1>2 DEF Ascending
  <2>9. Stream(l, t, q, Head(r).at, top, "open", d)
      BY <1>2, <2>2, <2>3, <2>4, <2>5, <2>6, <2>7, <2>8 DEF Stream
  <2>q. QED
      BY <2>1, <2>2, <2>7, <2>9 DEF t
<1>6. ASSUME r = <<>>, q # <<>>
      PROVE  /\ Tail(q) \in Seq(EventType) /\ Head(q) \in EventType
             /\ Stream(l, r, Tail(q), Head(q).at, top, "open", d)
             /\ sent < Head(q).at
             /\ sent # 0 /\ l \notin d => Head(q).at = sent + 1
  <2> DEFINE t == Tail(q)
  <2>1. /\ t \in Seq(EventType) /\ Head(q) = q[1] /\ Len(t) = Len(q) - 1
        /\ DOMAIN t = 1..(Len(q) - 1) /\ 1 \in DOMAIN q /\ q[1] \in EventType
        /\ \A i \in DOMAIN t : i + 1 \in DOMAIN q /\ t[i] = q[i + 1]
      BY <1>4, <1>6
  <2>2. Len(r) = 0 /\ DOMAIN r = {}
      BY <1>1, <1>6, EmptySeq, SMT
  <2> HIDE DEF t
  <2>3. Head(q).at \in Nat /\ sent < Head(q).at /\ Head(q).at <= top
      BY <1>1, <1>2, <2>1
  <2>4. Within(t, Head(q).at, top)
    <3> SUFFICES ASSUME NEW i \in DOMAIN t PROVE q[1].at < t[i].at /\ t[i].at <= top
        BY <2>1 DEF Within
    <3>1. i + 1 \in DOMAIN q /\ t[i] = q[i + 1] /\ 1 < i + 1
        BY <1>1, <2>1, SMT
    <3>q. QED
        BY <1>2, <2>1, <3>1
  <2>5. Ascending(t)
    <3> SUFFICES ASSUME NEW i \in DOMAIN t, NEW j \in DOMAIN t, i < j
                 PROVE  t[i].at < t[j].at
        BY DEF Ascending
    <3>1. i + 1 < j + 1
        BY <1>1, <2>1, SMT
    <3>q. QED
        BY <1>2, <2>1, <3>1
  <2>6. ASSUME l \notin d
        PROVE  /\ Follows(t, top - Len(t)) /\ Head(q).at = top - Len(t) - Len(r)
               /\ sent # 0 => Head(q).at = sent + 1
    <3>1. Head(q).at = top - Len(q) + 1
        BY <1>3, <2>1, <2>6
    <3>2. \A i \in DOMAIN t : t[i].at = top - Len(t) + i
      <4> SUFFICES ASSUME NEW i \in DOMAIN t PROVE t[i].at = top - Len(t) + i
          OBVIOUS
      <4>1. t[i].at = top - Len(q) + (i + 1)
          BY <1>3, <2>1, <2>6
      <4>q. QED
          BY <1>1, <2>1, <4>1, SMT
    <3>3. Head(q).at = top - Len(t) - Len(r)
        BY <1>1, <2>1, <2>2, <3>1, SMT
    <3>4. sent # 0 => sent = top - Len(q) - Len(r)
        BY <1>3, <2>6
    <3>5. sent # 0 => Head(q).at = sent + 1
        BY <1>1, <2>2, <3>1, <3>4, SMT
    <3>q. QED
        BY <3>2, <3>3, <3>5 DEF Follows
  <2>7. Within(r, Head(q).at, top) /\ Ascending(r) /\ Follows(r, top - Len(t) - Len(r))
      BY <2>2 DEF Within, Ascending, Follows
  <2>8. Len(t) <= QueueSize
      BY <1>1, <1>2, <2>1, SMT
  <2>9. Stream(l, r, t, Head(q).at, top, "open", d)
      BY <2>2, <2>3, <2>4, <2>5, <2>6, <2>7, <2>8 DEF Stream
  <2>q. QED
      BY <2>1, <2>3, <2>6, <2>9 DEF t
<1>q. QED
    BY <1>5, <1>6

-------------------------------------------------------------------------------
(* One lemma for each step of the broker.                                  *)

\* Publishing offers every open stream the next event.
LEMMA PublishKeeps ==
    ASSUME BrokerInv, NEW s \in Publications, Publish(s) PROVE BrokerInv'
<1>1. BrokerType /\ TailInv /\ Event(s) \in EventType /\ published \in Nat /\ published' = published + 1
  <2>1. BrokerType /\ TailInv /\ published \in Nat /\ published' = published + 1
      BY DEF BrokerInv, BrokerType, Publish
  <2>2. published + 1 \in Nat \ {0}
      BY <2>1, SMT
  <2>q. QED
      BY <2>1, <2>2 DEF Event, EventType
<1>2. tail' \in Seq(EventType) /\ tail'[Len(tail')] = Event(s) /\ Len(tail') \in Nat \ {0}
    BY <1>1, TailGrows
<1>3. TailInv'
  <2>1. PICK k \in {0, 1} : Continues(tail', tail, k)
      BY <1>1, TailGrows
  <2>2. DOMAIN tail' = 1..Len(tail') /\ DOMAIN tail = 1..Len(tail) /\ Len(tail) \in Nat
      BY <1>1, <1>2, LenProperties DEF BrokerType
  <2> SUFFICES ASSUME NEW i \in DOMAIN tail' PROVE tail'[i].at = published' - Len(tail') + i
      BY DEF TailInv, Follows
  <2>3. CASE i = Len(tail')
      BY <1>1, <1>2, <2>2, <2>3, SMT DEF Event
  <2>4. CASE i # Len(tail')
    <3>1. i \in 1..(Len(tail') - 1)
        BY <1>2, <2>2, <2>4, SMT
    <3>2. /\ i + k \in DOMAIN tail /\ tail'[i] = tail[i + k]
          /\ Len(tail') = Len(tail) + 1 - k
        BY <2>1, <3>1 DEF Continues
    <3>3. tail[i + k].at = published - Len(tail) + (i + k)
        BY <1>1, <3>2 DEF TailInv, Follows
    <3>4. tail'[i].at = published - Len(tail) + (i + k)
        BY <3>2, <3>3
    <3>5. published' - Len(tail') + i = published - Len(tail) + (i + k)
      <4>1. i \in Int /\ published \in Int /\ Len(tail) \in Int /\ k \in Int
          BY <1>1, <2>2, <3>1, SMT
      <4>2. \A p, x, y, z \in Int : (p + 1) - (x + 1 - y) + z = p - x + (z + y)
          BY SMT
      <4>3. (published + 1) - (Len(tail) + 1 - k) + i = published - Len(tail) + (i + k)
          BY <4>1, <4>2
      <4>q. QED
          BY <1>1, <3>2, <4>3, Zenon
    <3>q. QED
        BY <3>4, <3>5
  <2>q. QED
      BY <2>3, <2>4
<1>4. ASSUME NEW l \in Listeners
      PROVE  queue'[l] \in Seq(EventType) /\ StreamInv(l)'
  <2>1. /\ phase'[l] = phase[l] /\ replay'[l] = replay[l] /\ last'[l] = last[l]
        /\ queue'[l] = IF phase[l] = "open" THEN Offer(queue[l], Event(s)) ELSE queue[l]
        /\ dropped' = dropped \cup {x \in Open : Len(queue[x]) = QueueSize}
      BY <1>1, <1>4 DEF Publish, Open, BrokerType
  <2>2. /\ queue[l] \in Seq(EventType) /\ replay[l] \in Seq(EventType) /\ last[l] \in Nat
        /\ Stream(l, replay[l], queue[l], last[l], published, phase[l], dropped)
      BY <1>4 DEF BrokerInv, BrokerType, StreamInv
  <2>3. CASE phase[l] # "open"
    <3>1. replay[l] = <<>> /\ queue[l] = <<>> /\ Len(queue[l]) <= QueueSize
        BY <2>2, <2>3 DEF Stream
    <3>2. DOMAIN queue[l] = {} /\ DOMAIN replay[l] = {}
        BY <3>1, SMT
    <3>3. last[l] <= published + 1
        BY <1>1, <2>2, SMT DEF Stream
    <3>4. Stream(l, replay[l], queue[l], last[l], published + 1, phase[l], dropped')
        BY <2>2, <2>3, <3>1, <3>2, <3>3 DEF Stream, Within
    <3>q. QED
        BY <1>1, <2>1, <2>2, <2>3, <3>4 DEF StreamInv
  <2>4. CASE phase[l] = "open"
    <3> DEFINE q == queue[l]  n == Offer(q, Event(s))
    <3>1. Len(q) <= QueueSize /\ q \in Seq(EventType) /\ n = queue'[l]
        BY <2>1, <2>2, <2>4 DEF Stream
    <3>2. Stream(l, replay[l], q, last[l], published, "open", dropped)
        BY <2>2, <2>4
    <3> HIDE DEF q
    <3>3. n \in Seq(EventType) /\ Len(n) \in 1..QueueSize /\ n[Len(n)] = Event(s)
        BY <1>1, <3>1, Offered
    <3>4. PICK k \in {0, 1} : (k = 1 <=> Len(q) = QueueSize) /\ Continues(n, q, k)
        BY <1>1, <3>1, Offered
    <3>5. dropped \subseteq dropped' /\ (k = 1 => l \in dropped')
        BY <2>1, <2>4, <3>4 DEF Open, q
    <3>6. n[Len(n)].at = published + 1
        BY <3>3 DEF Event
    <3> HIDE DEF n
    <3>7. Stream(l, replay[l], n, last[l], published + 1, "open", dropped')
        BY <1>1, <2>2, <3>1, <3>2, <3>3, <3>4, <3>5, <3>6, StreamOffered
    <3>q. QED
        BY <1>1, <2>1, <2>4, <3>1, <3>3, <3>7 DEF StreamInv
  <2>q. QED
      BY <2>3, <2>4
<1>5. BrokerType'
  <2>1. queue' \in [Listeners -> Seq(EventType)]
    <3>1. queue' = [l \in Listeners |-> queue'[l]]
        BY DEF Publish
    <3>q. QED
        BY <1>4, <3>1
  <2>2. dropped' \subseteq Listeners
      BY <1>1 DEF Publish, Open, BrokerType
  <2>3. published' \in Nat
      BY <1>1, SMT
  <2>4. phase' = phase /\ replay' = replay /\ last' = last
      BY DEF Publish
  <2>q. QED
      BY <1>1, <1>2, <2>1, <2>2, <2>3, <2>4 DEF BrokerType
<1>q. QED
    BY <1>3, <1>4, <1>5 DEF BrokerInv

\* A new stream has the tail to replay and an empty queue.
LEMMA SubscribeKeeps ==
    ASSUME BrokerInv, NEW l \in Listeners, Subscribe(l) PROVE BrokerInv'
<1>1. /\ BrokerType /\ TailInv /\ published' = published /\ tail' = tail /\ queue' = queue
      /\ last' = last /\ dropped' = dropped
      /\ phase' = [phase EXCEPT ![l] = "open"] /\ replay' = [replay EXCEPT ![l] = tail]
    BY DEF BrokerInv, Subscribe
<1>2. BrokerType'
  <2>1. phase' \in [Listeners -> {"idle", "open", "over"}] /\ replay' \in [Listeners -> Seq(EventType)]
      BY <1>1 DEF BrokerType
  <2>q. QED
      BY <1>1, <2>1 DEF BrokerType
<1>3. ASSUME NEW x \in Listeners PROVE StreamInv(x)'
  <2>1. Stream(x, replay[x], queue[x], last[x], published, phase[x], dropped)
      BY <1>3 DEF BrokerInv, StreamInv
  <2>2. CASE x # l
    <3>1. phase'[x] = phase[x] /\ replay'[x] = replay[x]
        BY <1>1, <1>3, <2>2 DEF BrokerType
    <3>q. QED
        BY <1>1, <2>1, <3>1 DEF StreamInv
  <2>3. CASE x = l
    <3>1. phase'[l] = "open" /\ replay'[l] = tail /\ phase[l] = "idle"
        BY <1>1 DEF BrokerType, Subscribe
    <3>2. queue[l] = <<>> /\ last[l] = 0 /\ Len(queue[l]) <= QueueSize
        BY <2>1, <2>3, <3>1 DEF Stream
    <3>3. DOMAIN queue[l] = {} /\ Len(queue[l]) = 0
        BY <3>2, SMT
    <3>4. tail \in Seq(EventType) /\ published \in Nat
        BY <1>1 DEF BrokerType
    <3>5. DOMAIN tail = 1..Len(tail) /\ Len(tail) \in Nat /\ \A i \in DOMAIN tail : tail[i].at \in Nat \ {0}
        BY <3>4, Positions
    <3>6. \A i \in DOMAIN tail : tail[i].at = published - Len(tail) + i
        BY <1>1 DEF TailInv, Follows
    <3>7. Within(tail, 0, published) /\ Ascending(tail)
        BY <3>4, <3>5, <3>6, SMT DEF Within, Ascending
    <3>8. published - Len(tail) = published - 0 - Len(tail) /\ 0 <= published
        BY <3>4, <3>5, SMT
    <3>9. Stream(l, tail, queue[l], 0, published, "open", dropped)
        BY <3>2, <3>3, <3>6, <3>7, <3>8 DEF Stream, Within, Ascending, Follows
    <3>q. QED
        BY <1>1, <2>3, <3>1, <3>2, <3>9 DEF StreamInv
  <2>q. QED
      BY <2>2, <2>3
<1>q. QED
    BY <1>1, <1>2, <1>3 DEF BrokerInv, TailInv

\* A stream that is over, or not begun, holds nothing.
LEMMA StreamClosed ==
    ASSUME NEW l, NEW sent, NEW top, NEW d, NEW ph, ph # "open", ph = "idle" => sent = 0, sent <= top
    PROVE  Stream(l, <<>>, <<>>, sent, top, ph, d)
<1>1. DOMAIN <<>> = {} /\ Len(<<>>) = 0 /\ 0 <= QueueSize
    BY SizesAssumption, SMT
<1>q. QED
    BY <1>1 DEF Stream, Within, Ascending, Follows

\* What is sent is the head of the replayed tail, then of the queue.
LEMMA NextEvent ==
    ASSUME NEW r \in Seq(EventType), NEW q \in Seq(EventType), r \o q # <<>>
    PROVE  /\ r # <<>> => Head(r \o q) = Head(r)
           /\ r = <<>> => q # <<>> /\ Head(r \o q) = Head(q)
<1>1. CASE r = <<>>
    BY <1>1, ConcatEmptySeq
<1>2. CASE r # <<>>
  <2>1. /\ Len(r) \in Nat /\ Len(r) # 0 /\ Len(q) \in Nat
        /\ r \o q \in Seq(EventType) /\ Len(r \o q) = Len(r) + Len(q)
        /\ \A i \in 1..(Len(r) + Len(q)) : (r \o q)[i] = IF i <= Len(r) THEN r[i] ELSE q[i - Len(r)]
      BY <1>2, LenProperties, EmptySeq, ConcatProperties
  <2>2. Head(r \o q) = (r \o q)[1] /\ Head(r) = r[1]
      BY <1>2, <2>1, HeadTailProperties
  <2>3. 1 \in 1..(Len(r) + Len(q)) /\ 1 <= Len(r)
      BY <2>1, SMT
  <2>q. QED
      BY <1>2, <2>1, <2>2, <2>3
<1>q. QED
    BY <1>1, <1>2

\* What a stream sends comes after what it sent before, and follows it at once unless
\* its queue overflowed.
SendsInOrder(l) ==
    /\ last'[l] > last[l]
    /\ last[l] # 0 /\ l \notin dropped => last'[l] = last[l] + 1

\* A stream sends the head of its replay, then of its queue.
LEMMA ReceiveKeeps ==
    ASSUME BrokerInv, NEW l \in Listeners, Receive(l) PROVE BrokerInv' /\ SendsInOrder(l)
<1> DEFINE r == replay[l]  q == queue[l]  e == Head(r \o q)
<1>1. /\ BrokerType /\ TailInv /\ published' = published /\ tail' = tail /\ dropped' = dropped
      /\ phase[l] = "open" /\ r \o q # <<>> /\ last' = [last EXCEPT ![l] = e.at]
      /\ phase' = [phase EXCEPT ![l] = IF e.status \in Terminal THEN "over" ELSE phase[l]]
      /\ replay' = [replay EXCEPT ![l] = IF e.status \in Terminal THEN <<>>
                                         ELSE IF r = <<>> THEN r ELSE Tail(r)]
      /\ queue' = [queue EXCEPT ![l] = IF e.status \in Terminal THEN <<>>
                                       ELSE IF r = <<>> THEN Tail(q) ELSE q]
    BY DEF BrokerInv, Receive
<1>2. /\ r \in Seq(EventType) /\ q \in Seq(EventType) /\ last[l] \in Nat /\ published \in Nat
      /\ Stream(l, r, q, last[l], published, "open", dropped)
    BY <1>1 DEF BrokerInv, BrokerType, StreamInv
<1>3. /\ phase'[l] = (IF e.status \in Terminal THEN "over" ELSE phase[l])
      /\ replay'[l] = (IF e.status \in Terminal THEN <<>> ELSE IF r = <<>> THEN r ELSE Tail(r))
      /\ queue'[l] = (IF e.status \in Terminal THEN <<>> ELSE IF r = <<>> THEN Tail(q) ELSE q)
      /\ last'[l] = e.at
    BY <1>1 DEF BrokerType
<1> DEFINE r2 == IF r = <<>> THEN r ELSE Tail(r)  q2 == IF r = <<>> THEN Tail(q) ELSE q
<1>4. /\ e \in EventType /\ r2 \in Seq(EventType) /\ q2 \in Seq(EventType)
      /\ Stream(l, r2, q2, e.at, published, "open", dropped)
      /\ last[l] < e.at /\ (last[l] # 0 /\ l \notin dropped => e.at = last[l] + 1)
  <2> HIDE DEF r, q
  <2>1. CASE r = <<>>
    <3>1. q # <<>> /\ e = Head(q)
        BY <1>1, <1>2, <2>1, NextEvent
    <3>2. /\ Tail(q) \in Seq(EventType) /\ Head(q) \in EventType
          /\ Stream(l, r, Tail(q), Head(q).at, published, "open", dropped)
          /\ last[l] < Head(q).at
          /\ last[l] # 0 /\ l \notin dropped => Head(q).at = last[l] + 1
        BY <1>2, <2>1, <3>1, StreamSent
    <3>3. r2 = r /\ q2 = Tail(q)
        BY <2>1
    <3> HIDE DEF r2, q2, e
    <3>q. QED
        BY <1>2, <3>1, <3>2, <3>3
  <2>2. CASE r # <<>>
    <3>1. e = Head(r)
        BY <1>1, <1>2, <2>2, NextEvent
    <3>2. /\ Tail(r) \in Seq(EventType) /\ Head(r) \in EventType
          /\ Stream(l, Tail(r), q, Head(r).at, published, "open", dropped)
          /\ last[l] < Head(r).at
          /\ last[l] # 0 /\ l \notin dropped => Head(r).at = last[l] + 1
        BY <1>2, <2>2, <3>1, StreamSent
    <3>3. r2 = Tail(r) /\ q2 = q
        BY <2>2
    <3> HIDE DEF r2, q2, e
    <3>q. QED
        BY <1>2, <3>1, <3>2, <3>3
  <2>q. QED
      BY <2>1, <2>2
<1>5. SendsInOrder(l)
    BY <1>3, <1>4 DEF SendsInOrder
<1>6. e.at \in Nat /\ e.at <= published
    BY <1>4 DEF EventType, Stream
<1>7. StreamInv(l)'
  <2>1. CASE e.status \in Terminal
    <3>1. Stream(l, <<>>, <<>>, e.at, published, "over", dropped)
        BY <1>6, StreamClosed
    <3>q. QED
        BY <1>1, <1>3, <2>1, <3>1 DEF StreamInv
  <2>2. CASE e.status \notin Terminal
      BY <1>1, <1>3, <1>4, <2>2 DEF StreamInv
  <2>q. QED
      BY <2>1, <2>2
<1>8. ASSUME NEW x \in Listeners PROVE StreamInv(x)'
  <2>1. CASE x # l
    <3>1. phase'[x] = phase[x] /\ replay'[x] = replay[x] /\ queue'[x] = queue[x] /\ last'[x] = last[x]
        BY <1>1, <1>8, <2>1 DEF BrokerType
    <3>q. QED
        BY <1>1, <1>8, <3>1 DEF StreamInv, BrokerInv
  <2>q. QED
      BY <1>7, <2>1
<1>9. BrokerType'
  <2>1. replay' \in [Listeners -> Seq(EventType)] /\ queue' \in [Listeners -> Seq(EventType)]
    <3>1. /\ (IF e.status \in Terminal THEN <<>> ELSE r2) \in Seq(EventType)
          /\ (IF e.status \in Terminal THEN <<>> ELSE q2) \in Seq(EventType)
        BY <1>4, EmptySeq
    <3>q. QED
        BY <1>1, <3>1 DEF BrokerType
  <2>2. phase' \in [Listeners -> {"idle", "open", "over"}] /\ last' \in [Listeners -> Nat]
    <3>1. (IF e.status \in Terminal THEN "over" ELSE phase[l]) \in {"idle", "open", "over"}
        BY <1>1
    <3>q. QED
        BY <1>1, <1>6, <3>1 DEF BrokerType
  <2>q. QED
      BY <1>1, <2>1, <2>2 DEF BrokerType
<1>q. QED
    BY <1>1, <1>5, <1>8, <1>9 DEF BrokerInv, TailInv

\* A stream that is left has nothing more to send.
LEMMA LeaveKeeps ==
    ASSUME BrokerInv, NEW l \in Listeners, Leave(l) PROVE BrokerInv'
<1>1. /\ BrokerType /\ TailInv /\ published' = published /\ tail' = tail /\ dropped' = dropped
      /\ last' = last /\ phase' = [phase EXCEPT ![l] = "over"]
      /\ replay' = [replay EXCEPT ![l] = <<>>] /\ queue' = [queue EXCEPT ![l] = <<>>]
    BY DEF BrokerInv, Leave
<1>2. BrokerType'
  <2>1. replay' \in [Listeners -> Seq(EventType)] /\ queue' \in [Listeners -> Seq(EventType)]
      BY <1>1, EmptySeq DEF BrokerType
  <2>2. phase' \in [Listeners -> {"idle", "open", "over"}]
      BY <1>1 DEF BrokerType
  <2>q. QED
      BY <1>1, <2>1, <2>2 DEF BrokerType
<1>3. ASSUME NEW x \in Listeners PROVE StreamInv(x)'
  <2>1. Stream(x, replay[x], queue[x], last[x], published, phase[x], dropped)
      BY <1>3 DEF BrokerInv, StreamInv
  <2>2. CASE x # l
    <3>1. phase'[x] = phase[x] /\ replay'[x] = replay[x] /\ queue'[x] = queue[x]
        BY <1>1, <1>3, <2>2 DEF BrokerType
    <3>q. QED
        BY <1>1, <2>1, <3>1 DEF StreamInv
  <2>3. CASE x = l
    <3>1. phase'[l] = "over" /\ replay'[l] = <<>> /\ queue'[l] = <<>>
        BY <1>1 DEF BrokerType
    <3>2. Stream(l, <<>>, <<>>, last[l], published, "over", dropped)
      <4>1. last[l] <= published
          BY <2>1, <2>3 DEF Stream
      <4>q. QED
          BY <4>1, StreamClosed
    <3>q. QED
        BY <1>1, <2>3, <3>1, <3>2 DEF StreamInv
  <2>q. QED
      BY <2>2, <2>3
<1>q. QED
    BY <1>1, <1>2, <1>3 DEF BrokerInv, TailInv

\* A restart ends every stream.
LEMMA LostKeeps ==
    ASSUME BrokerInv, BrokerLost PROVE BrokerInv'
<1>1. /\ BrokerType /\ published' = published /\ dropped' = dropped /\ last' = last /\ tail' = <<>>
      /\ phase' = [l \in Listeners |-> IF phase[l] = "open" THEN "over" ELSE phase[l]]
      /\ replay' = [l \in Listeners |-> <<>>] /\ queue' = [l \in Listeners |-> <<>>]
    BY DEF BrokerInv, BrokerLost
<1>2. BrokerType'
  <2>1. tail' \in Seq(EventType) /\ replay' \in [Listeners -> Seq(EventType)] /\ queue' \in [Listeners -> Seq(EventType)]
      BY <1>1, EmptySeq
  <2>2. phase' \in [Listeners -> {"idle", "open", "over"}]
      BY <1>1 DEF BrokerType
  <2>q. QED
      BY <1>1, <2>1, <2>2 DEF BrokerType
<1>3. ASSUME NEW x \in Listeners PROVE StreamInv(x)'
  <2>1. Stream(x, replay[x], queue[x], last[x], published, phase[x], dropped)
      BY <1>3 DEF BrokerInv, StreamInv
  <2>2. /\ phase'[x] # "open" /\ (phase'[x] = "idle" => phase[x] = "idle")
        /\ replay'[x] = <<>> /\ queue'[x] = <<>>
      BY <1>1, <1>3
  <2>3. last[x] <= published /\ (phase'[x] = "idle" => last[x] = 0)
      BY <2>1, <2>2 DEF Stream
  <2>4. Stream(x, <<>>, <<>>, last[x], published, phase'[x], dropped)
      BY <2>2, <2>3, StreamClosed
  <2>q. QED
      BY <1>1, <2>2, <2>4 DEF StreamInv
<1>4. TailInv'
  <2>1. DOMAIN <<>> = {}
      BY SMT
  <2>q. QED
      BY <1>1, <2>1 DEF TailInv, Follows
<1>q. QED
    BY <1>2, <1>3, <1>4 DEF BrokerInv

\* So every step of the broker keeps its streams in order.
LEMMA BrokerStep ==
    ASSUME BrokerInv, BrokerNext PROVE BrokerInv'
<1>1. CASE UNCHANGED broker
    BY <1>1 DEF broker, BrokerInv, BrokerType, TailInv, StreamInv
<1>q. QED
    BY <1>1, PublishKeeps, SubscribeKeeps, ReceiveKeeps, LeaveKeeps, LostKeeps DEF BrokerNext
-------------------------------------------------------------------------------
(* The job.                                                                *)

\* Whatever the job does is for the broker a publication, a step of a stream, or
\* nothing.
LEMMA JobUsesBroker ==
    ASSUME Next PROVE BrokerNext
<1>1. {"queued", "running", "done", "failed", "cancelled"} = Publications
    BY DEF Publications, Terminal
<1>2. CASE StartCommit
    BY <1>2 DEF StartCommit, BrokerNext
<1>3. CASE StartSpawn
    BY <1>1, <1>3 DEF StartSpawn, BrokerNext
<1>4. CASE \E c \in Clients : CancelRead(c) \/ CancelAct(c)
    BY <1>4 DEF CancelRead, CancelAct, BrokerNext
<1>5. CASE Worker
    BY <1>1, <1>5 DEF Worker, WriteRunning, PublishRunning, ResolveSpec, CollectSources, CallReturns,
        Persist, PersistRaises, WriteProgress, WriteDone, PublishDone, WriteCancelled, WriteFailed,
        PublishFailed, RaiseCancelled, BrokerNext
<1>6. CASE WorkerFault \/ DeleteSet
    BY <1>6 DEF WorkerFault, DeleteSet, BrokerNext
<1>7. CASE \E l \in Listeners : Watch(l) \/ Read(l) \/ Close(l)
    BY <1>7 DEF Watch, Read, Close, BrokerNext
<1>8. CASE Crash
    BY <1>8 DEF Crash, BrokerNext
<1>q. QED
    BY <1>2, <1>3, <1>4, <1>5, <1>6, <1>7, <1>8 DEF Next

\* A worker that has told nothing terminal tells its status, and tells it last.
LEMMA TailTells ==
    ASSUME BrokerType, Untold, NEW s \in Publications, Publish(s)
    PROVE  /\ \A i \in DOMAIN tail' : tail'[i].status \in Terminal
                                        => i = Len(tail') /\ s = tail'[i].status
           /\ s \notin Terminal => Untold'
<1>1. tail' \in Seq(EventType) /\ tail'[Len(tail')] = Event(s) /\ Len(tail') \in Nat \ {0}
    BY TailGrows
<1>2. PICK k \in {0, 1} : Continues(tail', tail, k)
    BY TailGrows
<1>3. DOMAIN tail' = 1..Len(tail')
    BY <1>1, LenProperties
<1>4. ASSUME NEW i \in DOMAIN tail', i # Len(tail') PROVE tail'[i].status \notin Terminal
  <2>1. i \in 1..(Len(tail') - 1)
      BY <1>1, <1>3, <1>4, SMT
  <2>q. QED
      BY <1>2, <2>1 DEF Continues, Untold
<1>5. tail'[Len(tail')].status = s
    BY <1>1 DEF Event
<1>q. QED
    BY <1>4, <1>5 DEF Untold

\* Only a living worker has a cancellation pending.
LEMMA CancelStep ==
    ASSUME IInv, Next PROVE CancelInv'
<1>1. CancelInv
    BY DEF IInv
<1>2. CASE StartSpawn \/ \E c \in Clients : CancelAct(c)
    BY <1>1, <1>2 DEF StartSpawn, CancelAct, CancelInv, Live, Goto
<1>3. CASE Worker \/ WorkerFault \/ Crash
    BY <1>3 DEF Worker, WriteRunning, PublishRunning, ResolveSpec, CollectSources, CallReturns,
        Persist, PersistRaises, WriteProgress, WriteDone, PublishDone, WriteCancelled, WriteFailed,
        PublishFailed, RaiseCancelled, WorkerFault, Crash, LoopHead, Goto, At, CancelInv
<1>4. CASE \/ StartCommit \/ DeleteSet \/ \E c \in Clients : CancelRead(c)
           \/ \E l \in Listeners : Watch(l) \/ Read(l) \/ Close(l)
    BY <1>1, <1>4 DEF StartCommit, DeleteSet, CancelRead, Watch, Read, Close, CancelInv, task
<1>q. QED
    BY <1>2, <1>3, <1>4 DEF Next

\* A terminal event is the last, and the row says the same.
LEMMA ToldStep ==
    ASSUME IInv, Next PROVE (ToldInv /\ ToldIsTrue)'
<1> USE DEF Live, Guarded, Handlers, Terminal, Goto, At, rows, set, task, locals, bounds, broker
<1>1. /\ BrokerType /\ CancelInv /\ ToldInv /\ ToldIsTrue /\ pc \in Live \cup {"none", "over", "dead", "lost"}
    BY DEF IInv, TypeOK, JobType
<1>2. CASE StartCommit
    BY <1>1, <1>2 DEF StartCommit, ToldInv, ToldIsTrue, Untold
<1>3. CASE StartSpawn
  <2>1. pc = "none" /\ Publish("queued") /\ Untold
      BY <1>1, <1>3 DEF StartSpawn, ToldInv
  <2>2. Untold' /\ ToldIsTrue'
      BY <1>1, <2>1, TailTells DEF Publications, ToldIsTrue, Untold
  <2>q. QED
      BY <1>1, <1>3, <2>2 DEF StartSpawn, ToldInv
<1>4. CASE \E c \in Clients : CancelRead(c) \/ CancelAct(c)
    BY <1>1, <1>4 DEF CancelRead, CancelAct, ToldInv, ToldIsTrue, Untold
<1>5. CASE WriteRunning \/ WriteDone \/ WriteFailed
    BY <1>1, <1>5 DEF WriteRunning, WriteDone, WriteFailed, ToldInv, ToldIsTrue, Untold
<1>6. CASE ResolveSpec \/ CollectSources \/ CallReturns \/ Persist \/ PersistRaises
    BY <1>1, <1>6 DEF ResolveSpec, CollectSources, CallReturns, Persist, PersistRaises, LoopHead,
        ToldInv, ToldIsTrue, Untold
<1>7. CASE PublishRunning \/ WriteProgress
  <2>1. pc \in {"opened", "progress"} /\ Publish("running") /\ UNCHANGED <<status, launch>>
      BY <1>7 DEF PublishRunning, WriteProgress
  <2>2. Untold' /\ ToldIsTrue'
      BY <1>1, <2>1, TailTells DEF Publications, ToldIsTrue, Untold, ToldInv
  <2>3. pc' \in {"spec", "doneWrite", "markCancelled", "call"}
      BY <1>7 DEF PublishRunning, WriteProgress, LoopHead
  <2>q. QED
      BY <1>1, <2>1, <2>2, <2>3 DEF ToldInv
<1>8. CASE PublishDone
  <2>1. pc = "doneClose" /\ Publish("done") /\ pc' = "over" /\ UNCHANGED <<status, launch>>
      BY <1>8 DEF PublishDone
  <2>2. Untold /\ status = "done"
      BY <1>1, <2>1 DEF ToldInv
  <2>q. QED
      BY <1>1, <2>1, <2>2, TailTells DEF Publications, ToldInv, ToldIsTrue
<1>9. CASE PublishFailed
  <2>1. pc = "failClose" /\ Publish("failed") /\ pc' = "over" /\ UNCHANGED <<status, launch>>
      BY <1>9 DEF PublishFailed
  <2>2. Untold /\ status = "failed"
      BY <1>1, <2>1 DEF ToldInv
  <2>q. QED
      BY <1>1, <2>1, <2>2, TailTells DEF Publications, ToldInv, ToldIsTrue
<1>10. CASE WriteCancelled
  <2>1. /\ pc \in {"cancelWrite", "markCancelled"} /\ pc' = "over" /\ status' = "cancelled"
        /\ launch' = launch /\ (Publish("cancelled") \/ UNCHANGED broker)
      BY <1>10 DEF WriteCancelled
  <2>2. Untold /\ launch \notin {"idle", "committed"}
      BY <1>1, <2>1 DEF ToldInv
  <2>3. ToldIsTrue'
      BY <1>1, <2>1, <2>2, TailTells DEF Publications, ToldIsTrue, Untold
  <2>q. QED
      BY <1>1, <2>1, <2>2, <2>3 DEF ToldInv
<1>11. CASE RaiseCancelled \/ WorkerFault
  <2>1. /\ UNCHANGED <<status, launch, tail>> /\ pc \in Live /\ ~cancelReq'
        /\ pc' \in {"cancelWrite", "failWrite", "dead"}
      BY <1>1, <1>11 DEF RaiseCancelled, WorkerFault, CancelInv
  <2>q. QED
      BY <1>1, <2>1 DEF ToldInv, ToldIsTrue, Untold
<1>12. CASE DeleteSet
    BY <1>1, <1>12 DEF DeleteSet, ToldInv, ToldIsTrue, Untold
<1>13. CASE \E l \in Listeners : Watch(l) \/ Read(l) \/ Close(l)
    BY <1>1, <1>13 DEF Watch, Read, Close, Subscribe, Receive, Leave, ToldInv, ToldIsTrue, Untold
<1>14. CASE Crash
  <2>1. DOMAIN tail' = {}
      BY <1>14, SMT DEF Crash, BrokerLost
  <2>2. launch' \notin {"idle", "committed"} /\ status' = status /\ status # "none"
      BY <1>1, <1>14 DEF Crash, ToldInv
  <2>3. pc' \notin {"doneClose", "failClose"}
      BY <1>14 DEF Crash
  <2>q. QED
      BY <2>1, <2>2, <2>3 DEF ToldInv, ToldIsTrue, Untold
<1>q. QED
    BY <1>2, <1>3, <1>4, <1>5, <1>6, <1>7, <1>8, <1>9, <1>10, <1>11, <1>12, <1>13, <1>14 DEF Next, Worker

\* The job keeps its types.
LEMMA JobTypeStep ==
    ASSUME IInv, Next PROVE JobType'
<1> USE DEF Live, Guarded, Handlers, Terminal, Publications, Goto, At, LoopHead,
        rows, set, task, locals, bounds,
        Next, StartCommit, StartSpawn, CancelRead, CancelAct, Worker, WriteRunning,
        PublishRunning, ResolveSpec, CollectSources, CallReturns, Persist, PersistRaises,
        WriteProgress, WriteDone, PublishDone, WriteCancelled, WriteFailed, PublishFailed,
        RaiseCancelled, WorkerFault, DeleteSet, Watch, Read, Close, Crash
<1>1. JobType /\ FiguresInv
    BY DEF IInv, TypeOK
<1>2. status' \in {"none"} \cup Publications /\ launch' \in {"idle", "committed", "spawned", "lost"}
    BY <1>1 DEF JobType
<1>3. flag' \in BOOLEAN /\ setAlive' \in BOOLEAN
    BY <1>1 DEF JobType
<1>4. pc' \in Live \cup {"none", "over", "dead", "lost"}
    BY <1>1 DEF JobType
<1>5. cancelReq' \in BOOLEAN
    BY <1>1 DEF JobType
<1>6. client' \in [Clients -> {"idle", "refused", "checked", "accepted", "lost"}]
    BY <1>1 DEF JobType
<1>7. shown' \in Nat /\ items' \in Nat /\ generated' \in Nat /\ faults' \in Nat /\ crashes' \in Nat
    BY <1>1, SMT DEF JobType
<1>8. docs' \in 0..Target
  <2>1. docs \in 0..Target /\ Target \in Nat
      BY <1>1, SizesAssumption DEF JobType
  <2>2. CASE WriteProgress
    <3>1. docs > 0 /\ docs' = docs - 1
        BY <1>1, <2>2 DEF FiguresInv
    <3>q. QED
        BY <2>1, <3>1, SMT
  <2>3. ~WriteProgress => docs' \in 0..Target
      BY <2>1
  <2>q. QED
      BY <2>2, <2>3
<1>q. QED
    BY <1>2, <1>3, <1>4, <1>5, <1>6, <1>7, <1>8 DEF JobType

\* Counter, row, set and target keep agreeing, wherever the worker is cut short.
LEMMA FiguresStep ==
    ASSUME IInv, Next PROVE FiguresInv'
<1> USE DEF Live, Guarded, Handlers, Terminal, Ending, Goto, At, rows, set, task, locals, bounds
<1>1. /\ FiguresInv /\ ToldInv /\ JobType /\ Target \in Nat \ {0} /\ generated \in Nat /\ shown \in Nat
      /\ items \in Nat /\ docs \in 0..Target /\ pc \in Live \cup {"none", "over", "dead", "lost"}
    BY SizesAssumption DEF IInv, TypeOK, JobType
<1>2. CASE StartCommit \/ StartSpawn
    BY <1>1, <1>2, SMT DEF StartCommit, StartSpawn, FiguresInv, ToldInv
<1>3. CASE \E c \in Clients : CancelRead(c) \/ CancelAct(c)
    BY <1>1, <1>3 DEF CancelRead, CancelAct, FiguresInv
<1>4. CASE WriteRunning \/ PublishRunning \/ ResolveSpec
    BY <1>1, <1>4, SMT DEF WriteRunning, PublishRunning, ResolveSpec, FiguresInv
<1>5. CASE CollectSources
  <2>1. /\ docs' \in 0..Target /\ pc = "sources" /\ UNCHANGED <<rows, set, generated>>
        /\ pc' = IF docs' = 0 THEN "doneWrite" ELSE IF flag THEN "markCancelled" ELSE "call"
      BY <1>5 DEF CollectSources, LoopHead
  <2>2. generated = 0 /\ generated = shown /\ (setAlive => items = generated) /\ status \notin Terminal
      BY <1>1, <2>1 DEF FiguresInv
  <2>3. docs' \in Nat /\ docs' <= Target /\ (docs' # 0 => docs' > 0)
      BY <1>1, <2>1, SMT
  <2>4. pc' \in {"doneWrite", "markCancelled", "call"} /\ (pc' = "call" => docs' # 0)
      BY <2>1
  <2>5. generated' = 0 /\ shown' = 0 /\ UNCHANGED <<setAlive, items, status>>
      BY <2>1, <2>2
  <2>6. generated' + docs' <= Target /\ generated' <= Target /\ generated' \in {shown', shown' + 1}
    <3>1. \A m, n \in Nat : m <= n => 0 + m <= n /\ 0 <= n
        BY SMT
    <3>2. 0 + docs' <= Target /\ 0 <= Target
        BY <1>1, <2>3, <3>1
    <3>q. QED
        BY <2>5, <3>2, Zenon
  <2>q. QED
      BY <2>1, <2>2, <2>3, <2>4, <2>5, <2>6 DEF FiguresInv
<1>6. CASE CallReturns \/ PersistRaises
    BY <1>1, <1>6, SMT DEF CallReturns, PersistRaises, FiguresInv
<1>7. CASE Persist
    BY <1>1, <1>7, SMT DEF Persist, FiguresInv
<1>8. CASE WriteProgress
    BY <1>1, <1>8, SMT DEF WriteProgress, LoopHead, FiguresInv
<1>9. CASE WriteDone \/ PublishDone \/ WriteCancelled \/ WriteFailed \/ PublishFailed
    BY <1>1, <1>9, SMT DEF WriteDone, PublishDone, WriteCancelled, WriteFailed, PublishFailed, FiguresInv
<1>10. CASE RaiseCancelled \/ WorkerFault
    BY <1>1, <1>10, SMT DEF RaiseCancelled, WorkerFault, FiguresInv
<1>11. CASE DeleteSet
    BY <1>1, <1>11 DEF DeleteSet, FiguresInv
<1>12. CASE \E l \in Listeners : Watch(l) \/ Read(l) \/ Close(l)
    BY <1>1, <1>12 DEF Watch, Read, Close, FiguresInv
<1>13. CASE Crash
    BY <1>1, <1>13, SMT DEF Crash, FiguresInv
<1>q. QED
    BY <1>2, <1>3, <1>4, <1>5, <1>6, <1>7, <1>8, <1>9, <1>10, <1>11, <1>12, <1>13 DEF Next, Worker

\* The invariant holds at first.
LEMMA Starts == Init => IInv
<1> SUFFICES ASSUME Init PROVE IInv
    OBVIOUS
<1>1. <<>> \in Seq(EventType) /\ DOMAIN <<>> = {} /\ Len(<<>>) = 0 /\ Target \in Nat \ {0}
    BY EmptySeq, SizesAssumption, SMT
<1>2. JobType
  <2>1. docs \in 0..Target /\ shown \in Nat /\ items \in Nat /\ generated \in Nat /\ faults \in Nat /\ crashes \in Nat
      BY <1>1, SMT DEF Init
  <2>q. QED
      BY <2>1 DEF Init, JobType
<1>3. BrokerType
    BY <1>1 DEF Init, BrokerInit, BrokerType
<1>4. ToldInv /\ ToldIsTrue
    BY <1>1 DEF Init, BrokerInit, ToldInv, ToldIsTrue, Untold
<1>5. FiguresInv
    BY <1>1, SMT DEF Init, FiguresInv, Live, Guarded, Handlers, Terminal
<1>6. TailInv
    BY <1>1 DEF Init, BrokerInit, TailInv, Follows
<1>7. ASSUME NEW l \in Listeners PROVE StreamInv(l)
  <2>1. Stream(l, <<>>, <<>>, 0, 0, "idle", {})
      BY StreamClosed, SMT
  <2>q. QED
      BY <1>7, <2>1 DEF Init, BrokerInit, StreamInv
<1>q. QED
    BY <1>2, <1>3, <1>4, <1>5, <1>6, <1>7 DEF Init, IInv, TypeOK, CancelInv

\* Every step keeps it.
LEMMA Steps == IInv /\ [Next]_vars => IInv'
<1> SUFFICES ASSUME IInv, [Next]_vars PROVE IInv'
    OBVIOUS
<1>1. CASE Next
  <2>1. BrokerInv
      BY DEF IInv, TypeOK, BrokerInv
  <2>2. BrokerInv'
      BY <1>1, <2>1, JobUsesBroker, BrokerStep
  <2>3. JobType' /\ CancelInv' /\ (ToldInv /\ ToldIsTrue)' /\ FiguresInv'
      BY <1>1, JobTypeStep, CancelStep, ToldStep, FiguresStep
  <2>q. QED
      BY <2>2, <2>3 DEF IInv, TypeOK, BrokerInv
<1>2. CASE UNCHANGED vars
    BY <1>2 DEF vars, rows, set, task, locals, bounds, broker, IInv, TypeOK, JobType, BrokerType, CancelInv, ToldInv, ToldIsTrue,
        Untold, FiguresInv, TailInv, StreamInv
<1>q. QED
    BY <1>1, <1>2

\* So it always holds.
LEMMA Always == Spec => []IInv
<1>1. Init => IInv
    BY Starts
<1>2. IInv /\ [Next]_vars => IInv'
    BY Steps
<1>q. QED
    BY <1>1, <1>2, PTL DEF Spec
-------------------------------------------------------------------------------
(* The results.                                                            *)

\* Every variable keeps its type; the worker never has more sources left than its
\* target (SynthesizerService._worker).
THEOREM TypeCorrect == Spec => []TypeOK
<1>1. IInv => TypeOK
    BY DEF IInv
<1>q. QED
    BY <1>1, Always, PTL

\* What a stream was told last is what the row says, and stays so
\* (synthesizer.py publishes a terminal event after its commit and last).
THEOREM ToldTruth == Spec => []ToldIsTrue
<1>1. IInv => ToldIsTrue
    BY DEF IInv
<1>q. QED
    BY <1>1, Always, PTL

\* A stream delivers in order, nothing twice and nothing left out unless its queue
\* overflowed (ProgressBroker.stream replays its buffer before its queue).
THEOREM StreamsDeliverInOrder == Spec => StreamInOrder
<1> DEFINE Step == \A l \in Listeners : last'[l] # last[l] => SendsInOrder(l)
<1>1. IInv /\ [Next]_vars => [Step]_vars
  <2> SUFFICES ASSUME IInv, Next, NEW l \in Listeners, last'[l] # last[l] PROVE SendsInOrder(l)
      OBVIOUS
  <2>1. BrokerNext /\ BrokerInv /\ last \in [Listeners -> Nat]
      BY JobUsesBroker DEF IInv, TypeOK, BrokerInv, BrokerType
  <2>2. \E x \in Listeners : Receive(x)
      BY <2>1 DEF BrokerNext, Publish, Subscribe, Leave, BrokerLost, broker
  <2>3. PICK x \in Listeners : Receive(x)
      BY <2>2
  <2>4. x = l
      BY <2>1, <2>3 DEF Receive
  <2>q. QED
      BY <2>1, <2>3, <2>4, ReceiveKeeps
<1>2. [Step]_vars => [\A l \in Listeners : last'[l] # last[l] =>
          /\ last'[l] > last[l]
          /\ last[l] # 0 /\ l \notin dropped => last'[l] = last[l] + 1]_vars
    BY DEF SendsInOrder
<1>q. QED
    BY <1>1, <1>2, Always, PTL DEF Spec, StreamInOrder

\* The row never claims a candidate the set did not get, trails by one at most, and a
\* job that is over adds nothing (SynthesizerService._worker).
THEOREM JobsAddUp == Spec => JobAddsUp
<1>1. IInv => Figures
  <2> SUFFICES ASSUME IInv PROVE Figures
      OBVIOUS
  <2>1. /\ generated \in {shown, shown + 1} /\ (setAlive => items = generated)
        /\ (status = "done" => generated = shown) /\ shown \in Nat
      BY DEF IInv, FiguresInv, TypeOK, JobType
  <2>q. QED
      BY <2>1, SMT DEF Figures
<1>2. IInv /\ [Next]_vars => [(status \in Terminal) => items' = items]_vars
  <2> SUFFICES ASSUME IInv, Next, status \in Terminal PROVE items' = items
      OBVIOUS
  <2>1. pc # "persist"
      BY DEF IInv, FiguresInv, Ending, Handlers
  <2>q. QED
      BY <2>1 DEF Next, StartCommit, StartSpawn, CancelRead, CancelAct, Worker, WriteRunning,
        PublishRunning, ResolveSpec, CollectSources, CallReturns, Persist, PersistRaises,
        WriteProgress, WriteDone, PublishDone, WriteCancelled, WriteFailed, PublishFailed,
        RaiseCancelled, WorkerFault, DeleteSet, Watch, Read, Close, Crash, At, set
<1>q. QED
    BY <1>1, <1>2, Always, PTL DEF Spec, JobAddsUp

\* However the job ends, it has made no more candidates than it was asked for: the
\* sources bound it, since the loop's comparison with the target never ends it.
THEOREM WithinTarget == Spec => [](generated <= Target /\ (setAlive => items <= Target))
<1>1. IInv => generated <= Target /\ (setAlive => items <= Target)
    BY DEF IInv, FiguresInv
<1>q. QED
    BY <1>1, Always, PTL

===============================================================================
