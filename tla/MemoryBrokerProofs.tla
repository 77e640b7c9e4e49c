------------------------- MODULE MemoryBrokerProofs -------------------------
(***************************************************************************)
(* broker.InMemoryBroker for any number of messages, subscriptions,         *)
(* receivers, nacks and cancellations.                                      *)
(*                                                                         *)
(* The argument has two halves that do not meet.  A queue keeps every       *)
(* message in one place, because a delivery settles only what is in flight  *)
(* under its own count.  And the one token of a notify channel is enough,   *)
(* because a receiver blocks only when there is none, so that a signal      *)
(* finds a blocked receiver or leaves the token.                            *)
(***************************************************************************)
EXTENDS MemoryBroker, TLAPS, FiniteSetTheorems

-----------------------------------------------------------------------------
(* A queue that knows the messages of the set known.                         *)

Queue(known) ==
  [jetStream : {FALSE}, queued : Seq(known), inFlight : [known -> Nat], count : [known -> Nat],
   acked : SUBSET known, settled : {{}}]

IsQueued(b, m) == \E n \in 1..Len(b.queued) : b.queued[n] = m

\* Every message is in one place.
Placed(known, b) ==
  /\ b \in Queue(known)
  /\ \A n, k \in 1..Len(b.queued) : b.queued[n] = b.queued[k] => n = k
  /\ \A m \in known : IsQueued(b, m) => b.inFlight[m] = 0 /\ m \notin b.acked
  /\ \A m \in known : b.inFlight[m] # 0 => m \notin b.acked
  /\ \A m \in known : IsQueued(b, m) \/ b.inFlight[m] # 0 \/ m \in b.acked

Injective(s) == \A n, k \in 1..Len(s) : s[n] = s[k] => n = k

\* subscriptionLocked queues everything there is.
LEMMA OpenPlaces ==
  ASSUME NEW M, NEW l \in Seq(M), Injective(l)
  PROVE  /\ Placed(Range(l), QueueOf(l))
         /\ QueueOf(l).queued = l /\ QueueOf(l).acked = {}
         /\ \A m \in Range(l) : QueueOf(l).inFlight[m] = 0
<1> DEFINE b == QueueOf(l)
           known == Range(l)
           zero == [m \in Range(l) |-> 0]
<1>1. /\ b.jetStream = FALSE /\ b.queued = l /\ b.inFlight = zero /\ b.count = zero
      /\ b.acked = {} /\ b.settled = {} /\ b \in Queue(known)
  <2>1. b = [jetStream |-> FALSE, queued |-> l, inFlight |-> zero, count |-> zero,
             acked |-> {}, settled |-> {}]
    BY DEF QueueOf
  <2>2. l \in Seq(Range(l))
    BY DEF Range
  <2>3. zero \in [known -> Nat]
    OBVIOUS
  <2> HIDE DEF zero, b
  <2> QED  BY <2>1, <2>2, <2>3 DEF Queue
<1>2. \A m \in known : IsQueued(b, m)
  BY <1>1 DEF Range, IsQueued
<1> QED  BY <1>1, <1>2 DEF Placed, Injective

\* Publish queues a message that is new.
LEMMA PublishPlaces ==
  ASSUME NEW known, NEW b, Placed(known, b), NEW m, m \notin known
  PROVE  LET c == PublishTo(b, m) IN
         /\ Placed(known \cup {m}, c) /\ c.acked = b.acked /\ c.queued # <<>>
         /\ c.inFlight[m] = 0 /\ \A k \in known : c.inFlight[k] = b.inFlight[k]
<1> DEFINE c == PublishTo(b, m)
           all == known \cup {m}
<1>1. b \in Queue(known) /\ Known(b) = known
  BY DEF Placed, Queue, Known
<1>2. AddKey(b.inFlight, m, 0) \in [all -> Nat] /\ AddKey(b.count, m, 0) \in [all -> Nat]
      /\ AddKey(b.inFlight, m, 0)[m] = 0
      /\ \A k \in known : AddKey(b.inFlight, m, 0)[k] = b.inFlight[k]
  BY <1>1 DEF AddKey, Queue
<1>3. /\ b.queued \in Seq(known) /\ b.queued \in Seq(all) /\ Append(b.queued, m) \in Seq(all)
      /\ Len(Append(b.queued, m)) = Len(b.queued) + 1 /\ Append(b.queued, m)[Len(b.queued) + 1] = m
      /\ \A n \in 1..Len(b.queued) : Append(b.queued, m)[n] = b.queued[n] /\ b.queued[n] \in known
  BY <1>1 DEF Queue
<1>4. /\ c \in Queue(all) /\ c.queued = Append(b.queued, m) /\ c.acked = b.acked
      /\ c.inFlight = AddKey(b.inFlight, m, 0)
  <2>1. c = [b EXCEPT !.queued = Append(@, m), !.inFlight = AddKey(@, m, 0), !.count = AddKey(@, m, 0)]
    BY <1>1 DEF PublishTo
  <2> QED  BY <1>1, <1>2, <1>3, <2>1 DEF Queue
<1> HIDE DEF c
<1>5. Len(b.queued) \in Nat
  BY <1>3
<1>6. \A n \in 1..Len(c.queued) : n \in 1..Len(b.queued) \/ n = Len(b.queued) + 1
  BY <1>3, <1>4, <1>5
<1>7. \A n, k \in 1..Len(c.queued) : c.queued[n] = c.queued[k] => n = k
  BY <1>3, <1>4, <1>6 DEF Placed
<1>8. /\ IsQueued(c, m)
      /\ \A k \in known : IsQueued(c, k) <=> IsQueued(b, k)
  BY <1>3, <1>4, <1>5, <1>6 DEF IsQueued
<1>9. m \notin b.acked
  BY <1>1 DEF Queue
<1>10. Placed(all, c)
  BY <1>2, <1>4, <1>7, <1>8, <1>9 DEF Placed
<1>11. c.queued # <<>>
  BY <1>3, <1>4, <1>5
<1> QED  BY <1>2, <1>4, <1>10, <1>11 DEF c

\* c is b after message m was taken from it.
Taken(known, b, c, m) ==
  /\ Placed(known, c) /\ c.acked = b.acked
  /\ m \in known /\ b.inFlight[m] = 0 /\ m \notin b.acked /\ c.inFlight[m] # 0
  /\ \A k \in known \ {m} : c.inFlight[k] = b.inFlight[k]
  /\ Delivery(b).count # 0

\* Receive puts the first message in flight.
LEMMA ReceivePlaces ==
  ASSUME NEW known, NEW b, Placed(known, b), b.queued # <<>>
  PROVE  Taken(known, b, ReceiveFrom(b), Head(b.queued))
<1> DEFINE c == ReceiveFrom(b)
           m == Head(b.queued)
           n == b.count[m] + 1
<1>0. b \in Queue(known) /\ b.queued \in Seq(known)
  BY DEF Placed, Queue
<1>1. b \in Queue(known) /\ b.queued \in Seq(known) /\ Len(b.queued) \in Nat \ {0}
  BY <1>0
<1>2. /\ m \in known /\ m = b.queued[1] /\ Tail(b.queued) \in Seq(known)
      /\ Len(Tail(b.queued)) = Len(b.queued) - 1
      /\ \A k \in 1..(Len(b.queued) - 1) : Tail(b.queued)[k] = b.queued[k + 1]
  BY <1>1
<1>3. n \in Nat \ {0} /\ Delivery(b).message = m /\ Delivery(b).count = n
  BY <1>1, <1>2 DEF Queue, Delivery
<1>4. /\ c \in Queue(known) /\ c.queued = Tail(b.queued) /\ c.acked = b.acked
      /\ c.inFlight = [b.inFlight EXCEPT ![m] = n]
  <2>1. c = [b EXCEPT !.queued = Tail(@), !.count = [b.count EXCEPT ![m] = n],
                      !.inFlight = [b.inFlight EXCEPT ![m] = n]]
    BY <1>3 DEF ReceiveFrom
  <2>2. [b.count EXCEPT ![m] = n] \in [known -> Nat] /\ [b.inFlight EXCEPT ![m] = n] \in [known -> Nat]
    BY <1>1, <1>2, <1>3 DEF Queue
  <2> QED  BY <1>1, <1>2, <2>1, <2>2 DEF Queue
<1> HIDE DEF c, m, n
<1>5. c.inFlight[m] = n /\ \A k \in known \ {m} : c.inFlight[k] = b.inFlight[k]
  BY <1>1, <1>2, <1>4 DEF Queue
<1>6. \A k, l \in 1..Len(c.queued) : c.queued[k] = c.queued[l] => k = l
  <2> SUFFICES ASSUME NEW k \in 1..(Len(b.queued) - 1), NEW l \in 1..(Len(b.queued) - 1),
                      Tail(b.queued)[k] = Tail(b.queued)[l]
               PROVE  k = l
    BY <1>2, <1>4
  <2>1. b.queued[k + 1] = b.queued[l + 1] /\ k + 1 \in 1..Len(b.queued) /\ l + 1 \in 1..Len(b.queued)
    BY <1>1, <1>2
  <2>2. k + 1 = l + 1
    BY <2>1 DEF Placed
  <2> QED  BY <2>2
<1>7. IsQueued(b, m) /\ ~IsQueued(c, m)
  BY <1>1, <1>2, <1>4 DEF Placed, IsQueued
<1>8. ASSUME NEW k \in known \ {m} PROVE IsQueued(c, k) <=> IsQueued(b, k)
  <2>1. ASSUME NEW l \in 1..Len(b.queued), b.queued[l] = k PROVE IsQueued(c, k)
    <3>1. l # 1 /\ l - 1 \in 1..(Len(b.queued) - 1) /\ Tail(b.queued)[l - 1] = b.queued[l]
      BY <1>1, <1>2, <2>1
    <3> QED  BY <1>2, <1>4, <2>1, <3>1 DEF IsQueued
  <2>2. ASSUME NEW l \in 1..Len(c.queued), c.queued[l] = k PROVE IsQueued(b, k)
    <3>1. l + 1 \in 1..Len(b.queued) /\ b.queued[l + 1] = k
      BY <1>1, <1>2, <1>4, <2>2
    <3> QED  BY <3>1 DEF IsQueued
  <2> QED  BY <2>1, <2>2 DEF IsQueued
<1>9. b.inFlight[m] = 0 /\ m \notin b.acked
  BY <1>2, <1>7 DEF Placed
<1>10. Placed(known, c)
  BY <1>3, <1>4, <1>5, <1>6, <1>7, <1>8, <1>9 DEF Placed
<1> QED  BY <1>2, <1>3, <1>4, <1>5, <1>9, <1>10 DEF c, m, Taken

\* A delivery that can be settled is the one its message is in flight with.
LEMMA UnsettledIsInFlight ==
  ASSUME NEW known, NEW b, Placed(known, b), NEW d, Unsettled(b, d), d.count # 0
  PROVE  /\ d.message \in known /\ b.inFlight[d.message] # 0 /\ d.message \notin b.acked
         /\ ~IsQueued(b, d.message) /\ d.message \in InFlight(b)
         /\ ~b.jetStream /\ b \in Queue(known)
<1>1. b \in Queue(known) /\ ~b.jetStream /\ Known(b) = known
  BY DEF Placed, Queue, Known
<1>2. d.message \in known /\ b.inFlight[d.message] # 0
  BY <1>1 DEF Unsettled, IsCurrentDelivery
<1> QED  BY <1>1, <1>2 DEF Placed, InFlight

\* Ack takes the message out of flight for good.
LEMMA AckPlaces ==
  ASSUME NEW known, NEW b, Placed(known, b), NEW d, Unsettled(b, d), d.count # 0
  PROVE  LET c == AckIn(b, d) IN
         /\ Placed(known, c) /\ c.queued = b.queued /\ c.acked = b.acked \cup {d.message}
         /\ c.inFlight[d.message] = 0
         /\ \A k \in known \ {d.message} : c.inFlight[k] = b.inFlight[k]
<1> DEFINE c == AckIn(b, d)
           m == d.message
<1>1. m \in known /\ ~IsQueued(b, m) /\ ~b.jetStream /\ b \in Queue(known)
  BY UnsettledIsInFlight
<1>2. /\ c \in Queue(known) /\ c.queued = b.queued /\ c.acked = b.acked \cup {m}
      /\ c.inFlight = [b.inFlight EXCEPT ![m] = 0]
  <2>1. c = [b EXCEPT !.inFlight = [b.inFlight EXCEPT ![m] = 0], !.acked = b.acked \cup {m},
                      !.queued = b.queued, !.settled = b.settled]
    BY <1>1 DEF AckIn, Dequeue, Settle
  <2>2. [b.inFlight EXCEPT ![m] = 0] \in [known -> Nat] /\ b.acked \cup {m} \in SUBSET known
    BY <1>1 DEF Queue
  <2> QED  BY <1>1, <2>1, <2>2 DEF Queue
<1> HIDE DEF c
<1>3. c.inFlight[m] = 0 /\ \A k \in known \ {m} : c.inFlight[k] = b.inFlight[k]
  BY <1>1, <1>2 DEF Queue
<1>4. \A k \in known : IsQueued(c, k) <=> IsQueued(b, k)
  BY <1>2 DEF IsQueued
<1>5. Placed(known, c)
  BY <1>1, <1>2, <1>3, <1>4 DEF Placed
<1> QED  BY <1>2, <1>3, <1>5 DEF c

\* Nack takes the message out of flight and queues it.
LEMMA NackPlaces ==
  ASSUME NEW known, NEW b, Placed(known, b), NEW d, Unsettled(b, d), d.count # 0
  PROVE  LET c == NackIn(b, d) IN
         /\ Placed(known, c) /\ c.acked = b.acked /\ c.inFlight[d.message] = 0
         /\ \A k \in known \ {d.message} : c.inFlight[k] = b.inFlight[k]
<1> DEFINE c == NackIn(b, d)
           m == d.message
<1>1. /\ m \in known /\ ~IsQueued(b, m) /\ ~b.jetStream /\ b \in Queue(known) /\ m \in InFlight(b)
      /\ m \notin b.acked
  BY UnsettledIsInFlight
<1>2. /\ b.queued \in Seq(known) /\ Append(b.queued, m) \in Seq(known) /\ Len(b.queued) \in Nat
      /\ Len(Append(b.queued, m)) = Len(b.queued) + 1 /\ Append(b.queued, m)[Len(b.queued) + 1] = m
      /\ \A n \in 1..Len(b.queued) : Append(b.queued, m)[n] = b.queued[n] /\ b.queued[n] \in known
  BY <1>1 DEF Queue
<1>3. /\ c \in Queue(known) /\ c.queued = Append(b.queued, m) /\ c.acked = b.acked
      /\ c.inFlight = [b.inFlight EXCEPT ![m] = 0]
  <2> DEFINE r == [b EXCEPT !.inFlight = [b.inFlight EXCEPT ![m] = 0], !.queued = Append(b.queued, m)]
  <2>1. Requeue(b, m) = r
    BY <1>1 DEF Requeue
  <2>2. [b.inFlight EXCEPT ![m] = 0] \in [known -> Nat]
    BY <1>1 DEF Queue
  <2>3. /\ r \in Queue(known) /\ r.queued = Append(b.queued, m) /\ r.acked = b.acked
        /\ r.inFlight = [b.inFlight EXCEPT ![m] = 0]
    BY <1>1, <1>2, <2>2 DEF Queue
  <2>4. c = [r EXCEPT !.settled = b.settled] /\ b.settled = {}
    BY <1>1, <2>1 DEF NackIn, Settle, Queue
  <2> HIDE DEF r
  <2> QED  BY <2>3, <2>4 DEF Queue
<1> HIDE DEF c
<1>4. c.inFlight[m] = 0 /\ \A k \in known \ {m} : c.inFlight[k] = b.inFlight[k]
  BY <1>1, <1>3 DEF Queue
<1>5. \A n \in 1..Len(c.queued) : n \in 1..Len(b.queued) \/ n = Len(b.queued) + 1
  BY <1>2, <1>3
<1>6. \A n, k \in 1..Len(c.queued) : c.queued[n] = c.queued[k] => n = k
  BY <1>1, <1>2, <1>3, <1>5 DEF Placed, IsQueued
<1>7. IsQueued(c, m) /\ \A k \in known \ {m} : IsQueued(c, k) <=> IsQueued(b, k)
  BY <1>2, <1>3, <1>5 DEF IsQueued
<1>8. Placed(known, c)
  BY <1>1, <1>3, <1>4, <1>6, <1>7 DEF Placed
<1> QED  BY <1>3, <1>4, <1>8 DEF c

-----------------------------------------------------------------------------
(* The queues.                                                               *)

QueueInv ==
  /\ log \in Seq(Messages) /\ Injective(log)
  /\ exists \subseteq Subscriptions /\ DOMAIN queue = Subscriptions
  /\ \A s \in exists : Placed(Range(log), queue[s])
  /\ \A i \in issued : i.sub \in exists /\ i.delivery.count # 0

\* Where a message is, in terms of its queue.
LEMMA PlaceIs ==
  ASSUME QueueInv, NEW s \in Subscriptions, NEW m \in Messages
  PROVE  /\ Place[s][m] = PlaceOf(s, m)
         /\ s \notin exists \/ m \notin Range(log) => PlaceOf(s, m) = "absent"
         /\ s \in exists /\ m \in Range(log) =>
              PlaceOf(s, m) = IF m \in queue[s].acked THEN "done"
                              ELSE IF queue[s].inFlight[m] # 0 THEN "held" ELSE "available"
<1>1. s \in exists => Known(queue[s]) = Range(log)
  BY DEF QueueInv, Placed, Queue, Known
<1>2. Place[s][m] = PlaceOf(s, m)
  BY DEF Place
<1> QED  BY <1>1, <1>2 DEF PlaceOf, InFlight

\* One message of one subscription changes its place.
LEMMA OneMoves ==
  ASSUME NEW s \in Subscriptions, NEW m \in Messages, NEW to,
         PlaceOf(s, m)' = to,
         \A t \in Subscriptions, k \in Messages :
           t # s \/ k # m => PlaceOf(t, k)' = PlaceOf(t, k)
  PROVE  Place' = [Place EXCEPT ![s][m] = to]
<1>1. Place' = [t \in Subscriptions |-> [k \in Messages |-> PlaceOf(t, k)']]
  BY DEF Place
<1>2. \A t \in Subscriptions \ {s} : Place[t] = [k \in Messages |-> PlaceOf(t, k)']
  BY DEF Place
<1>3. [Place[s] EXCEPT ![m] = to] = [k \in Messages |-> PlaceOf(s, k)']
  BY DEF Place
<1>4. [Place EXCEPT ![s][m] = to] = [t \in Subscriptions |-> IF t = s THEN [Place[s] EXCEPT ![m] = to]
                                                             ELSE Place[t]]
  BY DEF Place
<1> QED  BY <1>1, <1>2, <1>3, <1>4

\* Nothing is where it was not.
LEMMA NoneMoves ==
  ASSUME \A t \in Subscriptions, k \in Messages : PlaceOf(t, k)' = PlaceOf(t, k)
  PROVE  UNCHANGED Place
BY DEF Place

\* The same of the next state.
LEMMA PlaceWillBe ==
  ASSUME QueueInv', NEW s \in Subscriptions, NEW m \in Messages
  PROVE  /\ s \notin exists' \/ m \notin Range(log') => PlaceOf(s, m)' = "absent"
         /\ s \in exists' /\ m \in Range(log') =>
              PlaceOf(s, m)' = IF m \in queue'[s].acked THEN "done"
                               ELSE IF queue'[s].inFlight[m] # 0 THEN "held" ELSE "available"
<1>1. s \in exists' => DOMAIN queue'[s].count = Range(log')
  BY DEF QueueInv, Placed, Queue
<1> QED  BY <1>1 DEF PlaceOf, InFlight, Known

\* A publication reaches every subscription that exists.
LEMMA PublishQueues ==
  ASSUME QueueInv, NEW m \in Messages, Publish(m)
  PROVE  /\ QueueInv' /\ Contract!Publish(m)
         /\ \A s \in exists : queue'[s].queued # <<>>
<1> DEFINE known == Range(log)
<1>1. /\ log \in Seq(Messages) /\ log' = Append(log, m) /\ m \notin known
      /\ queue' = [s \in Subscriptions |-> IF s \in exists THEN PublishTo(queue[s], m) ELSE queue[s]]
      /\ UNCHANGED <<exists, issued>>
  BY DEF Publish, QueueInv
<1>2. log' \in Seq(Messages) /\ Range(log') = known \cup {m} /\ Injective(log')
  <2>1. /\ Len(log) \in Nat /\ Len(log') = Len(log) + 1 /\ log' \in Seq(Messages)
        /\ log'[Len(log) + 1] = m /\ \A n \in 1..Len(log) : log'[n] = log[n]
    BY <1>1
  <2>2. \A n \in 1..Len(log') : n \in 1..Len(log) \/ n = Len(log) + 1
    BY <2>1
  <2>3. \A n \in 1..Len(log) : log[n] # m
    BY <1>1 DEF Range
  <2>4. Injective(log')
    BY <2>1, <2>2, <2>3 DEF QueueInv, Injective
  <2>5. DOMAIN log = 1..Len(log) /\ DOMAIN log' = 1..Len(log')
    BY <1>1, <2>1
  <2>6. Range(log') = known \cup {m}
    BY <2>1, <2>2, <2>5 DEF Range
  <2> QED  BY <2>1, <2>4, <2>6
<1> HIDE DEF known
<1>3. \A s \in exists : /\ queue'[s] = PublishTo(queue[s], m) /\ s \in Subscriptions
                        /\ Placed(known, queue[s])
  BY <1>1 DEF QueueInv, known
<1>4. ASSUME NEW s \in exists
      PROVE  /\ Placed(Range(log'), queue'[s]) /\ queue'[s].acked = queue[s].acked
             /\ queue'[s].queued # <<>> /\ queue'[s].inFlight[m] = 0
             /\ \A k \in known : queue'[s].inFlight[k] = queue[s].inFlight[k]
             /\ m \notin queue[s].acked
  <2>1. m \notin queue[s].acked
    BY <1>1, <1>3 DEF Placed, Queue, known
  <2>2. Placed(known, queue[s]) /\ m \notin known /\ queue'[s] = PublishTo(queue[s], m)
    BY <1>1, <1>3
  <2>3. /\ Placed(known \cup {m}, PublishTo(queue[s], m))
        /\ PublishTo(queue[s], m).acked = queue[s].acked
        /\ PublishTo(queue[s], m).queued # <<>> /\ PublishTo(queue[s], m).inFlight[m] = 0
        /\ \A k \in known : PublishTo(queue[s], m).inFlight[k] = queue[s].inFlight[k]
    BY <2>2, PublishPlaces
  <2> QED  BY <1>2, <2>1, <2>2, <2>3
<1>5. QueueInv'
  BY <1>1, <1>2, <1>4 DEF QueueInv
<1>6. ASSUME NEW s \in Subscriptions, NEW k \in Messages
      PROVE  PlaceOf(s, k)' = IF s \in exists /\ k = m THEN "available" ELSE PlaceOf(s, k)
  <2>1. CASE s \notin exists
    BY <1>1, <1>5, <2>1, PlaceIs, PlaceWillBe
  <2>2. CASE s \in exists /\ k = m
    BY <1>1, <1>2, <1>4, <1>5, <2>2, PlaceWillBe
  <2>3. CASE s \in exists /\ k # m /\ k \in known
    BY <1>1, <1>2, <1>4, <1>5, <2>3, PlaceIs, PlaceWillBe DEF known
  <2>4. CASE s \in exists /\ k # m /\ k \notin known
    BY <1>1, <1>2, <1>5, <2>4, PlaceIs, PlaceWillBe DEF known
  <2> QED  BY <2>1, <2>2, <2>3, <2>4
<1>7. Place' = [s \in Subscriptions |-> IF s \in exists /\ Place[s][m] = "absent"
                                        THEN [Place[s] EXCEPT ![m] = "available"] ELSE Place[s]]
  <2>1. Place' = [s \in Subscriptions |-> [k \in Messages |-> PlaceOf(s, k)']]
    BY DEF Place
  <2>2. ASSUME NEW s \in Subscriptions
        PROVE  [k \in Messages |-> PlaceOf(s, k)']
                 = IF s \in exists /\ Place[s][m] = "absent"
                   THEN [Place[s] EXCEPT ![m] = "available"] ELSE Place[s]
    <3>1. Place[s] = [k \in Messages |-> PlaceOf(s, k)]
      BY DEF Place
    <3>2. s \in exists => Place[s][m] = "absent"
      BY <1>1, PlaceIs DEF known
    <3> QED  BY <1>6, <3>1, <3>2
  <2> QED  BY <2>1, <2>2
<1> QED  BY <1>4, <1>5, <1>7 DEF Contract!Publish, QueueInv

\* A step that changes one queue, and in it the place of one message.
LEMMA QueueChanges ==
  ASSUME QueueInv, NEW s \in exists, NEW b, Placed(Range(log), b), NEW m \in Range(log),
         queue' = [queue EXCEPT ![s] = b], UNCHANGED <<log, exists>>,
         \A i \in issued' : i.sub \in exists /\ i.delivery.count # 0,
         NEW to, to = IF m \in b.acked THEN "done"
                      ELSE IF b.inFlight[m] # 0 THEN "held" ELSE "available",
         \A k \in Range(log) \ {m} : /\ b.inFlight[k] = queue[s].inFlight[k]
                                     /\ k \in b.acked <=> k \in queue[s].acked
  PROVE  QueueInv' /\ Contract!Move(s, m, PlaceOf(s, m), to)
<1>1. s \in Subscriptions /\ DOMAIN queue = Subscriptions /\ m \in Messages
  BY DEF QueueInv, Range
<1>2. /\ queue'[s] = b /\ DOMAIN queue' = Subscriptions
      /\ \A t \in Subscriptions \ {s} : queue'[t] = queue[t]
  BY <1>1
<1>3. QueueInv'
  BY <1>2 DEF QueueInv
<1>4. ASSUME NEW t \in Subscriptions, NEW k \in Messages, t # s \/ k # m
      PROVE  PlaceOf(t, k)' = PlaceOf(t, k)
  <2>1. CASE t \notin exists \/ k \notin Range(log)
    BY <1>3, <2>1, PlaceIs, PlaceWillBe
  <2>2. CASE t \in exists /\ k \in Range(log) /\ t # s
    BY <1>2, <1>3, <2>2, PlaceIs, PlaceWillBe
  <2>3. CASE t = s /\ k \in Range(log) /\ k # m
    BY <1>2, <1>3, <2>3, PlaceIs, PlaceWillBe
  <2> QED  BY <1>4, <2>1, <2>2, <2>3
<1>5. PlaceOf(s, m)' = to
  BY <1>1, <1>2, <1>3, PlaceWillBe
<1>6. Place' = [Place EXCEPT ![s][m] = to]
  BY <1>1, <1>4, <1>5, OneMoves
<1>7. Place[s][m] = PlaceOf(s, m)
  BY <1>1, PlaceIs
<1> QED  BY <1>3, <1>6, <1>7 DEF Contract!Move

\* Ack and Nack settle a delivery that is held.
LEMMA SettleQueues ==
  ASSUME QueueInv, NEW i \in issued, Ack(i) \/ Nack(i)
  PROVE  QueueInv' /\ Contract!Next
<1> DEFINE s == i.sub
           d == i.delivery
           m == d.message
           known == Range(log)
<1>1. /\ s \in exists /\ s \in Subscriptions /\ Placed(known, queue[s])
      /\ d.count # 0 /\ Unsettled(queue[s], d)
  BY DEF QueueInv, Ack, Nack
<1>2. /\ m \in known /\ m \in Messages /\ queue[s].inFlight[m] # 0 /\ m \notin queue[s].acked
  BY <1>1, UnsettledIsInFlight DEF QueueInv, Range
<1>3. PlaceOf(s, m) = "held"
  BY <1>1, <1>2, PlaceIs
<1>4. UNCHANGED <<log, exists, issued>> /\ \A j \in issued' : j.sub \in exists /\ j.delivery.count # 0
  BY DEF QueueInv, Ack, Nack
<1>5. CASE Ack(i)
  <2> DEFINE b == AckIn(queue[s], d)
  <2>1. queue' = [queue EXCEPT ![s] = b]
    BY <1>5 DEF Ack
  <2>2. /\ Placed(known, b) /\ m \in b.acked
        /\ \A k \in known \ {m} : /\ b.inFlight[k] = queue[s].inFlight[k]
                                  /\ k \in b.acked <=> k \in queue[s].acked
    BY <1>1, AckPlaces
  <2> HIDE DEF b
  <2>3. QueueInv' /\ Contract!Move(s, m, "held", "done")
    <3>1. "done" = IF m \in b.acked THEN "done"
                   ELSE IF b.inFlight[m] # 0 THEN "held" ELSE "available"
      BY <2>2
    <3> HIDE DEF m, d, s
    <3> QED  BY <1>1, <1>2, <1>3, <1>4, <2>1, <2>2, <3>1, QueueChanges DEF known
  <2> QED  BY <1>1, <1>2, <2>3 DEF Contract!Next
<1>6. CASE Nack(i)
  <2> DEFINE b == NackIn(queue[s], d)
  <2>1. queue' = [queue EXCEPT ![s] = b]
    BY <1>6 DEF Nack
  <2>2. /\ Placed(known, b) /\ m \notin b.acked /\ b.inFlight[m] = 0
        /\ \A k \in known \ {m} : /\ b.inFlight[k] = queue[s].inFlight[k]
                                  /\ k \in b.acked <=> k \in queue[s].acked
    BY <1>1, <1>2, NackPlaces
  <2> HIDE DEF b
  <2>3. QueueInv' /\ Contract!Move(s, m, "held", "available")
    <3>1. "available" = IF m \in b.acked THEN "done"
                        ELSE IF b.inFlight[m] # 0 THEN "held" ELSE "available"
      BY <2>2
    <3> HIDE DEF m, d, s
    <3> QED  BY <1>1, <1>2, <1>3, <1>4, <2>1, <2>2, <3>1, QueueChanges DEF known
  <2> QED  BY <1>1, <1>2, <2>3 DEF Contract!Next
<1> QED  BY <1>5, <1>6

\* A step that leaves the queues as they are.
LEMMA QueueStays ==
  ASSUME QueueInv, UNCHANGED <<log, exists, issued>>, DOMAIN queue' = Subscriptions,
         \A t \in Subscriptions : queue'[t] = queue[t]
  PROVE  QueueInv' /\ UNCHANGED Place
<1>1. QueueInv'
  BY DEF QueueInv
<1>2. \A t \in Subscriptions, k \in Messages : PlaceOf(t, k)' = PlaceOf(t, k)
  BY <1>1, PlaceIs, PlaceWillBe
<1> QED  BY <1>1, <1>2, NoneMoves

\* The places of the messages for a subscription that is created as b.
Row(b) == [m \in Messages |-> IF m \notin Range(log) THEN "absent"
                              ELSE IF b.inFlight[m] # 0 THEN "held" ELSE "available"]

Begins(s, row) ==
  /\ \A m \in Messages : Place[s][m] = "absent"
  /\ Place' = [Place EXCEPT ![s] = row]

\* A step that creates subscription s as b.
LEMMA QueueBegins ==
  ASSUME QueueInv, NEW s \in Subscriptions, s \notin exists, NEW b, Placed(Range(log), b), b.acked = {},
         queue' = [queue EXCEPT ![s] = b], exists' = exists \cup {s}, UNCHANGED log,
         \A i \in issued' : i.sub \in exists' /\ i.delivery.count # 0
  PROVE  QueueInv' /\ Begins(s, Row(b))
<1>1. /\ queue'[s] = b /\ DOMAIN queue' = Subscriptions
      /\ \A t \in Subscriptions \ {s} : queue'[t] = queue[t]
  BY DEF QueueInv
<1>2. QueueInv'
  <2>1. \A t \in exists' : Placed(Range(log'), queue'[t])
    BY <1>1 DEF QueueInv
  <2> QED  BY <1>1, <2>1 DEF QueueInv
<1>3. ASSUME NEW t \in Subscriptions \ {s}, NEW k \in Messages
      PROVE  PlaceOf(t, k)' = PlaceOf(t, k)
  BY <1>1, <1>2, PlaceIs, PlaceWillBe
<1>4. \A k \in Messages : PlaceOf(s, k)' = Row(b)[k]
  BY <1>1, <1>2, PlaceWillBe DEF Row
<1>5. \A m \in Messages : Place[s][m] = "absent"
  BY PlaceIs
<1>6. Place' = [Place EXCEPT ![s] = Row(b)]
  <2>1. Place' = [t \in Subscriptions |-> [k \in Messages |-> PlaceOf(t, k)']]
        /\ Place = [t \in Subscriptions |-> [k \in Messages |-> PlaceOf(t, k)]]
    BY DEF Place
  <2>2. \A t \in Subscriptions \ {s} : [k \in Messages |-> PlaceOf(t, k)']
                                         = [k \in Messages |-> PlaceOf(t, k)]
    BY <1>3
  <2>3. [k \in Messages |-> PlaceOf(s, k)'] = Row(b)
    BY <1>4 DEF Row
  <2> QED  BY <2>1, <2>2, <2>3
<1> QED  BY <1>2, <1>5, <1>6 DEF Begins

\* Receive takes the first message of its subscription, which it may create.
LEMMA LookQueues ==
  ASSUME QueueInv, NEW r \in Receivers, Look(r)
  PROVE  QueueInv' /\ (Contract!Next \/ UNCHANGED Place)
<1> DEFINE sub == SubOf[r]
           before == Opened(sub)
           published == Range(log)
<1>0. sub \in Subscriptions /\ UNCHANGED log /\ DOMAIN queue = Subscriptions
      /\ log \in Seq(Messages) /\ Injective(log)
  BY BrokerAssumption DEF Look, QueueInv
<1>1. CASE UNCHANGED <<queue, exists, issued>>
  BY <1>0, <1>1, QueueStays
<1>2. CASE /\ before.queued # <<>> /\ exists' = exists \cup {sub}
           /\ queue' = [queue EXCEPT ![sub] = ReceiveFrom(before)]
           /\ issued' = issued \cup {[sub |-> sub, delivery |-> Delivery(before)]}
  <2>0. PICK b, after, first : b = before /\ after = ReceiveFrom(b) /\ first = Head(b.queued)
    OBVIOUS
  <2>1. Placed(published, b) /\ b.queued # <<>>
        /\ (sub \notin exists => b.acked = {} /\ \A k \in published : b.inFlight[k] = 0)
    BY <1>0, <1>2, <2>0, OpenPlaces DEF Opened, QueueInv
  <2>2. /\ Placed(published, after) /\ after.acked = b.acked /\ first \in published /\ first \in Messages
        /\ b.inFlight[first] = 0 /\ first \notin b.acked /\ after.inFlight[first] # 0
        /\ \A k \in published \ {first} : after.inFlight[k] = b.inFlight[k]
        /\ Delivery(b).count # 0
    <3>1. published \subseteq Messages
      BY <1>0 DEF Range
    <3>2. Taken(published, b, after, first)
      BY <2>0, <2>1, ReceivePlaces
    <3> QED  BY <3>1, <3>2 DEF Taken
  <2>3. \A i \in issued' : i.sub \in exists' /\ i.delivery.count # 0
    BY <1>2, <2>0, <2>2 DEF QueueInv
  <2>4. queue' = [queue EXCEPT ![sub] = after]
    BY <1>2, <2>0
  <2>5. CASE sub \in exists
    <3>1. b = queue[sub] /\ UNCHANGED exists
      BY <1>2, <2>0, <2>5 DEF Opened
    <3>2. PlaceOf(sub, first) = "available"
      BY <1>0, <2>2, <2>5, <3>1, PlaceIs
    <3>3. "held" = IF first \in after.acked THEN "done" ELSE IF after.inFlight[first] # 0 THEN "held" ELSE "available"
      BY <2>2
    <3>4. /\ \A k \in Range(log) \ {first} : /\ after.inFlight[k] = queue[sub].inFlight[k]
                                             /\ k \in after.acked <=> k \in queue[sub].acked
          /\ \A i \in issued' : i.sub \in exists /\ i.delivery.count # 0
          /\ Placed(Range(log), after) /\ first \in Range(log) /\ UNCHANGED <<log, exists>>
      BY <1>0, <2>2, <2>3, <3>1
    <3> HIDE DEF before, sub, published
    <3>5. QueueInv' /\ Contract!Move(sub, first, "available", "held")
      BY <2>4, <2>5, <3>2, <3>3, <3>4, QueueChanges
    <3> QED  BY <1>0, <2>2, <3>5 DEF Contract!Next
  <2>6. CASE sub \notin exists
    <3>1. after.acked = {}
      BY <2>1, <2>2, <2>6
    <3> HIDE DEF before, sub
    <3>2. Row(after) = [k \in Messages |-> IF k = first THEN "held"
                                          ELSE IF k \in published \cap Messages THEN "available" ELSE "absent"]
      BY <2>1, <2>2, <2>6 DEF Row
    <3>3. QueueInv' /\ Begins(sub, Row(after))
      BY <1>0, <1>2, <2>2, <2>3, <2>4, <2>6, <3>1, QueueBegins
    <3>4. Contract!SubscribeAndTake(sub)
      <4>1. published \cap Messages \in SUBSET Messages /\ first \in Messages
        BY <2>2
      <4> QED  BY <3>2, <3>3, <4>1 DEF Contract!SubscribeAndTake, Begins
    <3> QED  BY <1>0, <3>3, <3>4 DEF Contract!Next
  <2> QED  BY <2>5, <2>6
<1>3. CASE /\ before.queued = <<>> /\ exists' = exists \cup {sub}
           /\ queue' = [queue EXCEPT ![sub] = before] /\ UNCHANGED issued
  <2>1. CASE sub \in exists
    <3>1. before = queue[sub] /\ UNCHANGED exists /\ DOMAIN queue' = Subscriptions
          /\ \A t \in Subscriptions : queue'[t] = queue[t]
      BY <1>0, <1>3, <2>1 DEF Opened
    <3> QED  BY <1>0, <1>3, <3>1, QueueStays
  <2>2. CASE sub \notin exists
    <3>1. Placed(published, before) /\ before.acked = {} /\ \A k \in published : before.inFlight[k] = 0
      BY <1>0, <2>2, OpenPlaces DEF Opened
    <3>2. \A i \in issued' : i.sub \in exists' /\ i.delivery.count # 0
      BY <1>3 DEF QueueInv
    <3> HIDE DEF before, sub
    <3>3. Row(before) = [k \in Messages |-> IF k \in published \cap Messages THEN "available" ELSE "absent"]
      BY <3>1 DEF Row
    <3>4. QueueInv' /\ Begins(sub, Row(before))
      BY <1>0, <1>3, <2>2, <3>1, <3>2, QueueBegins
    <3>5. Contract!Subscribe(sub)
      <4>1. published \cap Messages \in SUBSET Messages
        OBVIOUS
      <4> QED  BY <3>3, <3>4, <4>1 DEF Contract!Subscribe, Begins
    <3> QED  BY <1>0, <3>4, <3>5 DEF Contract!Next
  <2> QED  BY <2>1, <2>2
<1> QED  BY <1>1, <1>2, <1>3 DEF Look

LEMMA QueueInit == Init => QueueInv /\ Contract!Init
<1> SUFFICES ASSUME Init PROVE QueueInv /\ Contract!Init
  OBVIOUS
<1>1. QueueInv
  BY DEF Init, QueueInv, Injective
<1>2. \A s \in Subscriptions, m \in Messages : PlaceOf(s, m) = "absent"
  BY DEF Init, PlaceOf
<1> QED  BY <1>1, <1>2 DEF Contract!Init, Place

\* Every step is a step of the contract, or one it does not see.
LEMMA QueueNext == QueueInv /\ [Next]_vars => QueueInv' /\ [Contract!Next]_Place
<1> SUFFICES ASSUME QueueInv, [Next]_vars PROVE QueueInv' /\ [Contract!Next]_Place
  OBVIOUS
<1>1. ASSUME NEW m \in Messages, Publish(m) PROVE QueueInv' /\ [Contract!Next]_Place
  BY <1>1, PublishQueues DEF Contract!Next
<1>2. ASSUME NEW r \in Receivers, Look(r) PROVE QueueInv' /\ [Contract!Next]_Place
  BY <1>2, LookQueues
<1>3. ASSUME NEW i \in issued, Ack(i) \/ Nack(i) PROVE QueueInv' /\ [Contract!Next]_Place
  BY <1>3, SettleQueues
<1>4. CASE UNCHANGED <<log, queue, exists, issued>>
  <2>1. UNCHANGED <<log, exists, issued>> /\ DOMAIN queue' = Subscriptions
        /\ \A t \in Subscriptions : queue'[t] = queue[t]
    BY <1>4 DEF QueueInv
  <2> QED  BY <2>1, QueueStays
<1>5. ASSUME NEW r \in Receivers, Call(r) \/ Select(r) \/ Cancel(r)
      PROVE  UNCHANGED <<log, queue, exists, issued>>
  BY <1>5 DEF Call, Select, Cancel
<1>6. Close \/ UNCHANGED vars => UNCHANGED <<log, queue, exists, issued>>
  BY DEF Close, vars
<1> QED  BY <1>1, <1>2, <1>3, <1>4, <1>5, <1>6 DEF Next

\* A message that is in one place is counted once.
LEMMA PlacedOnce ==
  ASSUME NEW known, NEW b, Placed(known, b), NEW m \in known
  PROVE  Cardinality({n \in 1..Len(b.queued) : b.queued[n] = m})
           + (IF m \in InFlight(b) THEN 1 ELSE 0) + (IF m \in b.acked THEN 1 ELSE 0) = 1
<1> DEFINE spots == {n \in 1..Len(b.queued) : b.queued[n] = m}
<1>1. m \in InFlight(b) <=> b.inFlight[m] # 0
  BY DEF Placed, Queue, InFlight, Known
<1>2. CASE IsQueued(b, m)
  <2>1. PICK n \in 1..Len(b.queued) : b.queued[n] = m
    BY <1>2 DEF IsQueued
  <2>2. spots = {n}
    BY <2>1 DEF Placed
  <2>3. Cardinality(spots) = 1
    BY <2>2, FS_Singleton
  <2>4. b.inFlight[m] = 0 /\ m \notin b.acked
    BY <1>2 DEF Placed
  <2> HIDE DEF spots
  <2>5. Cardinality(spots) + (IF m \in InFlight(b) THEN 1 ELSE 0) + (IF m \in b.acked THEN 1 ELSE 0) = 1
    BY <1>1, <2>3, <2>4
  <2> QED  BY <2>5 DEF spots
<1>3. CASE ~IsQueued(b, m)
  <2>1. spots = {}
    BY <1>3 DEF IsQueued
  <2>2. Cardinality(spots) = 0
    BY <2>1, FS_EmptySet
  <2>3. (b.inFlight[m] # 0 /\ m \notin b.acked) \/ (b.inFlight[m] = 0 /\ m \in b.acked)
    BY <1>3 DEF Placed
  <2> HIDE DEF spots
  <2>4. Cardinality(spots) + (IF m \in InFlight(b) THEN 1 ELSE 0) + (IF m \in b.acked THEN 1 ELSE 0) = 1
    BY <1>1, <2>2, <2>3
  <2> QED  BY <2>4 DEF spots
<1> QED  BY <1>2, <1>3

\* For any numbers of messages, subscriptions and receivers: a published
\* message is queued once, in flight or acknowledged, and only one of these.
THEOREM MessagesAreInOnePlace == Spec => []OnePlace
<1>1. QueueInv => OnePlace
  BY PlacedOnce DEF QueueInv, OnePlace
<1> QED  BY QueueInit, QueueNext, <1>1, PTL DEF Spec

\* InMemoryBroker implements at-least-once delivery with final acknowledgement:
\* every step of it is a step of BrokerContract or does not move a message.
THEOREM BrokerImplementsContract == Spec => ImplementsContract
BY QueueInit, QueueNext, PTL DEF Spec, ImplementsContract, Contract!Spec

\* Somebody will look at subscription s without being signalled again.
Looked(s) == token[s] \/ \E r \in Receivers : SubOf[r] = s /\ at[r] \in {"out", "look"}

\* What is queued is looked at; a token is never buffered beside a blocked
\* receiver.
WakeInv ==
  /\ at \in [Receivers -> {"out", "look", "select", "blocked"}]
  /\ token \in [Subscriptions -> BOOLEAN]
  /\ exists \in SUBSET Subscriptions
  /\ \A r \in Receivers : at[r] \in {"select", "blocked"} => SubOf[r] \in exists
  /\ \A s \in exists : \E r \in Receivers : SubOf[r] = s
  /\ \A s \in Subscriptions : token[s] => \A r \in Receivers : SubOf[r] = s => at[r] # "blocked"
  /\ \A s \in exists : queue[s].queued # <<>> => Looked(s)

\* A step that signals the subscriptions S.
LEMMA SignalWakes ==
  ASSUME WakeInv, NEW S, S \subseteq exists, Signal(S), UNCHANGED exists,
         \A s \in exists \ S : queue'[s] = queue[s]
  PROVE  WakeInv'
<1>1. PICK wake \in [S -> Receivers \cup {"nobody"}] :
        /\ \A s \in S : IF Blocked(s) = {} THEN wake[s] = "nobody" ELSE wake[s] \in Blocked(s)
        /\ token' = [s \in Subscriptions |-> token[s] \/ (s \in S /\ Blocked(s) = {})]
        /\ at' = [r \in Receivers |-> IF \E s \in S : wake[s] = r THEN "look" ELSE at[r]]
  BY DEF Signal
<1>2. \A r \in Receivers : at'[r] = at[r] \/ at'[r] = "look"
  BY <1>1
<1>3. at' \in [Receivers -> {"out", "look", "select", "blocked"}]
  BY <1>1, <1>2 DEF WakeInv
<1>4. token' \in [Subscriptions -> BOOLEAN]
  BY <1>1 DEF WakeInv
<1>5. \A s \in Subscriptions : token'[s] => \A r \in Receivers : SubOf[r] = s => at'[r] # "blocked"
  BY <1>1, <1>2 DEF WakeInv, Blocked
<1>6. ASSUME NEW s \in S PROVE Looked(s)'
  <2>1. CASE Blocked(s) = {}
    BY <1>1, <2>1 DEF Looked, WakeInv
  <2>2. CASE Blocked(s) # {}
    <3>1. wake[s] \in Blocked(s)
      BY <1>1, <2>2
    <3> QED  BY <1>1, <3>1 DEF Looked, Blocked
  <2> QED  BY <2>1, <2>2
<1>7. ASSUME NEW s \in Subscriptions, Looked(s) PROVE Looked(s)'
  BY <1>1, <1>2, <1>7 DEF Looked
<1>8. \A s \in exists' : queue'[s].queued # <<>> => Looked(s)'
  BY <1>6, <1>7 DEF WakeInv
<1> QED  BY <1>2, <1>3, <1>4, <1>5, <1>8 DEF WakeInv

\* A step of receiver r that goes to where.
LEMMA ReceiverGoes ==
  ASSUME WakeInv, NEW r \in Receivers, NEW where \in {"out", "look", "select", "blocked"}, Goes(r, where),
         token' \in [Subscriptions -> BOOLEAN],
         exists' \in SUBSET Subscriptions, exists \subseteq exists', exists' \subseteq exists \cup {SubOf[r]},
         where \in {"select", "blocked"} => SubOf[r] \in exists',
         where = "blocked" => ~token'[SubOf[r]],
         token'[SubOf[r]] => \A q \in Receivers \ {r} : SubOf[q] = SubOf[r] => at[q] # "blocked",
         \A s \in Subscriptions \ {SubOf[r]} : token'[s] = token[s] /\ queue'[s] = queue[s],
         SubOf[r] \in exists' /\ queue'[SubOf[r]].queued # <<>> =>
           where \in {"out", "look"} \/ Looked(SubOf[r])'
  PROVE  WakeInv'
<1>1. /\ at' \in [Receivers -> {"out", "look", "select", "blocked"}] /\ at'[r] = where
      /\ \A q \in Receivers \ {r} : at'[q] = at[q]
  BY DEF WakeInv, Goes
<1>2. \A q \in Receivers : at'[q] \in {"select", "blocked"} => SubOf[q] \in exists'
  BY <1>1 DEF WakeInv
<1>3. \A s \in exists' : \E q \in Receivers : SubOf[q] = s
  BY DEF WakeInv
<1>4. \A s \in Subscriptions : token'[s] => \A q \in Receivers : SubOf[q] = s => at'[q] # "blocked"
  BY <1>1 DEF WakeInv
<1>5. ASSUME NEW s \in exists', queue'[s].queued # <<>> PROVE Looked(s)'
  <2>1. CASE s = SubOf[r]
    BY <1>1, <1>5, <2>1 DEF Looked
  <2>2. CASE s # SubOf[r]
    <3>1. s \in exists /\ Looked(s)
      BY <1>5, <2>2 DEF WakeInv
    <3> QED  BY <1>1, <2>2, <3>1 DEF Looked
  <2> QED  BY <2>1, <2>2
<1> QED  BY <1>1, <1>2, <1>3, <1>4, <1>5 DEF WakeInv

LEMMA ReceiverWakes ==
  ASSUME WakeInv, QueueInv, NEW r \in Receivers, Call(r) \/ Look(r) \/ Select(r) \/ Cancel(r)
  PROVE  WakeInv'
<1> DEFINE s == SubOf[r]
<1>1. s \in Subscriptions /\ DOMAIN queue = Subscriptions /\ DOMAIN token = Subscriptions
  BY BrokerAssumption DEF QueueInv, WakeInv
<1>2. CASE Call(r) \/ Cancel(r)
  <2>1. PICK where \in {"out", "look"} : Goes(r, where)
    BY <1>2 DEF Call, Cancel
  <2>2. UNCHANGED <<queue, token, exists>>
    BY <1>2 DEF Call, Cancel
  <2> QED  BY <1>1, <2>1, <2>2, ReceiverGoes DEF WakeInv
<1>3. CASE Select(r)
  <2>1. at[r] = "select" /\ s \in exists /\ UNCHANGED <<queue, exists>>
    BY <1>3 DEF Select, WakeInv
  <2>2. CASE token[s]
    <3>1. Goes(r, "look") /\ token' = [token EXCEPT ![s] = FALSE]
      BY <1>3, <2>2 DEF Select
    <3>2. token' \in [Subscriptions -> BOOLEAN] /\ ~token'[s]
          /\ \A t \in Subscriptions \ {s} : token'[t] = token[t]
      BY <1>1, <3>1 DEF WakeInv
    <3> QED  BY <1>1, <2>1, <3>1, <3>2, ReceiverGoes DEF WakeInv
  <2>3. CASE ~token[s]
    <3>1. Goes(r, "blocked") /\ UNCHANGED token
      BY <1>3, <2>3 DEF Select
    <3>2. queue'[s].queued # <<>> => Looked(s)'
      <4>1. \A q \in Receivers \ {r} : at'[q] = at[q]
        BY <3>1 DEF Goes, WakeInv
      <4> QED  BY <2>1, <2>3, <3>1, <4>1 DEF WakeInv, Looked
    <3> QED  BY <1>1, <2>1, <2>3, <3>1, <3>2, ReceiverGoes DEF WakeInv
  <2> QED  BY <2>2, <2>3
<1>4. CASE Look(r)
  <2>1. CASE closed
    BY <1>1, <1>4, <2>1, ReceiverGoes DEF Look, WakeInv
  <2>2. CASE ~closed
    <3>1. /\ exists' = exists \cup {s}
          /\ token' = [token EXCEPT ![s] = @ \/ (s \notin exists /\ log # <<>>)]
      BY <1>4, <2>2 DEF Look
    <3>2. PICK where \in {"out", "select"} :
            /\ Goes(r, where)
            /\ \A t \in Subscriptions \ {s} : queue'[t] = queue[t]
            /\ where = "select" => queue'[s].queued = <<>>
      <4>1. CASE Opened(s).queued # <<>>
        BY <1>1, <1>4, <2>2, <4>1 DEF Look
      <4>2. CASE Opened(s).queued = <<>>
        BY <1>1, <1>4, <2>2, <4>2 DEF Look
      <4> QED  BY <4>1, <4>2
    <3>3. /\ token' \in [Subscriptions -> BOOLEAN]
          /\ \A t \in Subscriptions \ {s} : token'[t] = token[t]
          /\ token'[s] => token[s] \/ s \notin exists
      BY <1>1, <3>1 DEF WakeInv
    <3>4. token'[s] => \A q \in Receivers : SubOf[q] = s => at[q] # "blocked"
      BY <1>1, <3>3 DEF WakeInv
    <3>5. exists' \in SUBSET Subscriptions /\ exists \subseteq exists'
          /\ exists' \subseteq exists \cup {s} /\ s \in exists'
      BY <1>1, <3>1 DEF WakeInv
    <3> QED  BY <3>2, <3>3, <3>4, <3>5, ReceiverGoes
  <2> QED  BY <2>1, <2>2
<1> QED  BY <1>2, <1>3, <1>4

LEMMA OthersWake ==
  ASSUME WakeInv, QueueInv,
         (\E m \in Messages : Publish(m)) \/ (\E i \in issued : Ack(i) \/ Nack(i)) \/ Close \/ UNCHANGED vars
  PROVE  WakeInv'
<1>1. ASSUME NEW m \in Messages, Publish(m) PROVE WakeInv'
  BY <1>1, SignalWakes DEF Publish
<1>2. ASSUME NEW i \in issued, Nack(i) PROVE WakeInv'
  <2>1. i.sub \in exists /\ exists \subseteq Subscriptions /\ DOMAIN queue = Subscriptions
    BY DEF QueueInv
  <2>2. \A s \in exists \ {i.sub} : queue'[s] = queue[s]
    BY <1>2, <2>1 DEF Nack
  <2>3. Signal({i.sub}) /\ UNCHANGED exists /\ {i.sub} \subseteq exists
    BY <1>2, <2>1 DEF Nack
  <2> QED  BY <2>2, <2>3, SignalWakes
<1>3. ASSUME NEW i \in issued, Ack(i) PROVE WakeInv'
  <2>1. i.sub \in exists /\ i.sub \in Subscriptions /\ DOMAIN queue = Subscriptions
        /\ queue[i.sub] \in Queue(Range(log))
    BY DEF QueueInv, Placed
  <2>2. AckIn(queue[i.sub], i.delivery).queued = queue[i.sub].queued
    BY <2>1 DEF Queue, AckIn, Dequeue
  <2>3. \A s \in exists : queue'[s].queued = queue[s].queued
    BY <1>3, <2>1, <2>2 DEF Ack, QueueInv
  <2>4. UNCHANGED <<exists, token, at>>
    BY <1>3 DEF Ack
  <2> QED  BY <2>3, <2>4 DEF WakeInv, Looked
<1>4. CASE Close
  BY <1>4, SignalWakes DEF Close
<1>5. CASE UNCHANGED vars
  BY <1>5 DEF vars, WakeInv, Looked
<1> QED  BY <1>1, <1>2, <1>3, <1>4, <1>5

LEMMA WakeInit == Init => WakeInv
BY DEF Init, WakeInv, Looked

LEMMA WakeNext == WakeInv /\ QueueInv /\ [Next]_vars => WakeInv'
BY ReceiverWakes, OthersWake DEF Next

\* For any numbers of publishers, receivers and subscriptions, whatever is
\* canceled or given back: a message is never queued for a subscription all of
\* whose receivers are blocked.
THEOREM NoWorkIsOverlooked == Spec => []NoneOverlooked
<1>1. WakeInv => NoneOverlooked
  BY DEF WakeInv, Looked, NoneOverlooked
<1> QED  BY WakeInit, WakeNext, QueueInit, QueueNext, <1>1, PTL DEF Spec
=============================================================================
