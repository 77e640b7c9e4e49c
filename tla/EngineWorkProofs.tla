-------------------------- MODULE EngineWorkProofs --------------------------
(***************************************************************************)
(* Every step of the engine keeps the part of the invariant that is about  *)
(* workers and messages: the types of their state, MessageInv and WorkInv. *)
(* Every step writes the aggregate along the edges of its tasks (Wrote),   *)
(* and what a message or an attempt stands for is stable under that        *)
(* (Stable). What is left is what the broker does to its messages, and the *)
(* steps that begin and end an attempt.                                    *)
(***************************************************************************)
EXTENDS EngineInvariant

------------------------------------------------------------------------------
(* The broker.                                                             *)

\* An attempt is a task with a number; a message names one.
LEMMA AttemptTypes ==
  /\ \A a \in Attempts : a[1] \in Tasks /\ a[2] \in 1..MaxAttempts[a[1]] /\ a[2] \in Nat /\ a = <<a[1], a[2]>>
  /\ \A t \in Tasks, n \in Nat : n # 0 /\ n <= MaxAttempts[t] => <<t, n>> \in Attempts
  /\ \A m \in Copies : /\ AttemptOf(m) \in Attempts /\ AttemptOf(m) = <<m[1], m[2]>>
                       /\ m[1] \in Tasks /\ m[2] \in Nat
<1>1. MaxAttempts \in [Tasks -> Nat \ {0}]
  BY DefinitionAssumption
<1>2. \A a \in Attempts : \E t \in Tasks : \E n \in 1..MaxAttempts[t] : a = <<t, n>>
  BY DEF Attempts
<1>3. \A a \in Attempts : a[1] \in Tasks /\ a[2] \in 1..MaxAttempts[a[1]] /\ a[2] \in Nat /\ a = <<a[1], a[2]>>
  BY <1>1, <1>2
<1>4. \A t \in Tasks, n \in Nat : n # 0 /\ n <= MaxAttempts[t] => <<t, n>> \in Attempts
  BY <1>1 DEF Attempts
<1>5. ASSUME NEW m \in Copies
      PROVE  /\ AttemptOf(m) \in Attempts /\ AttemptOf(m) = <<m[1], m[2]>>
             /\ m[1] \in Tasks /\ m[2] \in Nat
  <2>1. PICK a \in Attempts, c \in 1..MaxExpiries + 1 : m = <<a[1], a[2], c>>
    BY DEF Copies, Copy
  <2>2. m[1] = a[1] /\ m[2] = a[2]
    BY <2>1
  <2> QED BY <1>3, <2>2 DEF AttemptOf
<1> QED BY <1>3, <1>4, <1>5

\* What a worker, or a result, says of the attempt it holds.
LEMMA ClaimedTypes ==
  ASSUME NEW d \in DeliveryType
  PROVE  /\ AttemptOf(d.message) \in Attempts /\ d.message \in Copies
         /\ AttemptOf(d.message)[1] = d.message[1] /\ AttemptOf(d.message)[2] = d.message[2]
         /\ d.message[1] \in Tasks /\ d.message[2] \in Nat
BY AttemptTypes DEF DeliveryType

\* What the scheduler owns in its loop is what is stored.
LEMMA LoopHolds ==
  ASSUME IInv, pc \in Looping
  PROVE  stored = run /\ run \in Run /\ run.status = "running" /\ run # NoRun
BY DEF IInv, TypeInv, FlowInv

\* c is b with a message in another place.
Moves(b, c) == IsSubscription(c) /\ Known(c) = Known(b) /\ c.acked = b.acked

Grows(b, c, m) == IsSubscription(c) /\ Known(c) = Known(b) \cup {m} /\ c.acked = b.acked

Acks(b, c, m) == IsSubscription(c) /\ Known(c) = Known(b) /\ c.acked = b.acked \cup {m}

\* A new subscription knows nothing.
LEMMA EmptyFacts ==
  ASSUME NEW b \in {EmptyQueue, EmptyStream}
  PROVE  IsSubscription(b) /\ Known(b) = {} /\ b.acked = {}
<1> DEFINE zero == [m \in Range(<<>>) |-> 0]
<1>1. PICK j \in BOOLEAN :
        b = [jetStream |-> j, queued |-> <<>>, inFlight |-> zero, count |-> zero,
             acked |-> {}, settled |-> {}]
  BY Zenon DEF EmptyQueue, EmptyStream, QueueOf
<1>2. Range(<<>>) = {}
  BY DEF Range
<1>3. zero \in [{} -> Nat] /\ DOMAIN zero = {}
  BY <1>2
<1> HIDE DEF zero
<1>4. Known(b) = {} /\ b.acked = {}
  BY <1>1, <1>3 DEF Known
<1>5. b \in SubscriptionType({})
  BY <1>1, <1>3 DEF SubscriptionType
<1> QED BY <1>4, <1>5 DEF IsSubscription

\* Publish adds a message, or nothing if it is known.
LEMMA PublishFacts ==
  ASSUME NEW b, IsSubscription(b), NEW m \in Copies
  PROVE  Grows(b, PublishTo(b, m), m)
<1> DEFINE c == PublishTo(b, m)
           K == Known(b)
           L == K \cup {m}
<1>1. CASE m \in K
  BY <1>1 DEF PublishTo, Grows
<1>2. CASE m \notin K
  <2>1. b \in SubscriptionType(K) /\ K \subseteq Copies
    BY DEF IsSubscription
  <2>2. c = [b EXCEPT !.queued = Append(@, m), !.inFlight = AddKey(@, m, 0), !.count = AddKey(@, m, 0)]
    BY <1>2 DEF PublishTo
  <2> HIDE DEF K
  <2>3. AddKey(b.inFlight, m, 0) \in [L -> Nat] /\ AddKey(b.count, m, 0) \in [L -> Nat]
    BY <2>1 DEF AddKey, SubscriptionType
  <2>4. Append(b.queued, m) \in Seq(L)
    BY <2>1 DEF SubscriptionType
  <2>5. c \in SubscriptionType(L) /\ c.acked = b.acked /\ c.count = AddKey(b.count, m, 0)
    BY <2>1, <2>2, <2>3, <2>4, Zenon DEF SubscriptionType
  <2>6. Known(c) = L
    BY <2>3, <2>5 DEF Known
  <2> QED BY <2>1, <2>5, <2>6 DEF IsSubscription, Grows, K
<1> QED BY <1>1, <1>2

Receipt(b, c, d) == Moves(b, c) /\ d \in DeliveryType /\ d.message \in Known(b)

\* Receive hands out a message it knows.
LEMMA ReceiveFacts ==
  ASSUME NEW b, IsSubscription(b), b.queued # <<>>
  PROVE  Receipt(b, ReceiveFrom(b), Delivery(b))
<1> DEFINE c == ReceiveFrom(b)
           K == Known(b)
           m == Head(b.queued)
           n == b.count[m] + 1
<1>1. b \in SubscriptionType(K) /\ K \subseteq Copies
  BY DEF IsSubscription
<1>2. b.queued \in Seq(K)
  BY <1>1 DEF SubscriptionType
<1>3. m \in K /\ Tail(b.queued) \in Seq(K)
  BY <1>2
<1>4. Delivery(b) = [message |-> m, count |-> n]
  BY DEF Delivery
<1>5. n \in Nat
  BY <1>1, <1>3 DEF SubscriptionType
<1>6. c = [b EXCEPT !.queued = Tail(@), !.count = [b.count EXCEPT ![m] = n],
                    !.inFlight = [b.inFlight EXCEPT ![m] = n]]
  BY <1>4 DEF ReceiveFrom
<1> HIDE DEF K, m, n
<1>7. [b.count EXCEPT ![m] = n] \in [K -> Nat] /\ [b.inFlight EXCEPT ![m] = n] \in [K -> Nat]
  BY <1>1, <1>3, <1>5 DEF SubscriptionType
<1>8. c \in SubscriptionType(K) /\ c.acked = b.acked /\ DOMAIN c.count = K
  BY <1>1, <1>3, <1>6, <1>7, Zenon DEF SubscriptionType
<1>9. Moves(b, c)
  BY <1>1, <1>8 DEF Moves, IsSubscription, Known, K
<1>10. Delivery(b) \in DeliveryType /\ Delivery(b).message \in K
  BY <1>1, <1>3, <1>4, <1>5 DEF DeliveryType
<1> QED BY <1>9, <1>10 DEF Receipt, K

\* The next publication is of a ready task, and its attempt is within the policy.
LEMMA NextPublication ==
  ASSUME IInv, pc = "publish", NEW t \in Unpublished(published)
  PROVE  /\ t \in Tasks /\ t \in ready /\ run.tasks[t].status = "ready"
         /\ run.tasks[t].attempts \in Nat /\ NextAttempt(t) \in Attempts
<1>1. stored = run /\ run \in Run /\ run # NoRun
  BY LoopHolds DEF Looping
<1>2. ready = ReadyTasks(run)
  BY DEF IInv, BooksInv, Looping
<1>3. t \in ready /\ t \in Tasks /\ run.tasks[t].status = "ready"
  BY <1>2 DEF Unpublished, ReadyTasks
<1>4. run.tasks[t].attempts \in Nat
  BY <1>1, <1>3 DEF Run, TaskRun
<1>5. run.tasks[t].attempts < MaxAttempts[t] /\ MaxAttempts[t] \in Nat
  BY <1>1, <1>3, DefinitionAssumption DEF IInv, PlanInv, Bounded
<1>6. run.tasks[t].attempts + 1 \in Nat /\ run.tasks[t].attempts + 1 # 0 /\ run.tasks[t].attempts + 1 <= MaxAttempts[t]
  BY <1>4, <1>5
<1> QED BY <1>3, <1>4, <1>6, AttemptTypes DEF NextAttempt

\* The copies of an attempt are messages.
LEMMA CopyFacts ==
  ASSUME NEW a \in Attempts, NEW c \in 1..MaxExpiries + 1
  PROVE  /\ Copy(a, c) \in Copies /\ AttemptOf(Copy(a, c)) = a
         /\ Copy(a, c)[1] = a[1] /\ Copy(a, c)[2] = a[2]
<1>1. Copy(a, c)[1] = a[1] /\ Copy(a, c)[2] = a[2]
  BY DEF Copy
<1>2. Copy(a, c) \in Copies
  BY DEF Copies
<1> QED BY <1>1, <1>2, AttemptTypes DEF AttemptOf

\* The broker has a message more, a copy of the attempt that is published.
Published ==
  /\ pc = "publish" /\ UNCHANGED stored
  /\ \E t \in Unpublished(published), m \in Copies :
       Grows(broker, broker', m) /\ AttemptOf(m) = NextAttempt(t)

Acked ==
  /\ pc = "ack" /\ acks # <<>>
  /\ Acks(broker, broker', Head(acks).delivery.message)

Forgot ==
  /\ Crash /\ IsSubscription(broker') /\ Known(broker') = {} /\ broker'.acked = {}

\* What a step does to the broker.
LEMMA BrokerKinds ==
  ASSUME IInv, [Next]_vars
  PROVE  Moves(broker, broker') \/ Published \/ Acked \/ Forgot
\* What is left of a queue when a message is taken out of it.
<1>DequeueFacts.
      ASSUME NEW K, NEW q \in Seq(K), NEW m
      PROVE  TakeOut(q, m) \in Seq(K)
  <2> USE <1>DequeueFacts
  <2>1. CASE m \notin Range(q)
    BY <2>1 DEF TakeOut
  <2>2. CASE m \in Range(q)
    <3>1. \E i \in DOMAIN q : q[i] = m
      BY <2>2 DEF Range
    <3>2. PICK i \in DOMAIN q : TakeOut(q, m) = CutAt(q, i)
      BY <2>2, <3>1, Zenon DEF TakeOut
    <3>3. i \in 1..Len(q)
      OBVIOUS
    <3>4. SubSeq(q, 1, i - 1) \in Seq(K) /\ SubSeq(q, i + 1, Len(q)) \in Seq(K)
      BY <3>3
    <3> QED BY <3>2, <3>4 DEF CutAt
  <2> QED BY <2>1, <2>2
\* Ack of an open delivery adds its message to the acknowledged ones.
<1>AckFacts.
      ASSUME NEW b, IsSubscription(b), NEW d \in DeliveryType, Unsettled(b, d)
      PROVE  Acks(b, AckIn(b, d), d.message)
  <2> USE <1>AckFacts
  <2> DEFINE c == AckIn(b, d)
             K == Known(b)
             m == d.message
             f == [b.inFlight EXCEPT ![m] = 0]
  <2>1. b \in SubscriptionType(K) /\ K \subseteq Copies
    BY DEF IsSubscription
  <2>2. m \in K
    BY DEF Unsettled, IsOpenHandle, IsCurrentDelivery
  <2>3. Dequeue(b, d) \in Seq(K)
    BY <2>1, <1>DequeueFacts DEF Dequeue, SubscriptionType
  <2>4. Settle(b, d) \in SUBSET (DeliveryType \cup {NoDelivery})
    BY <2>1 DEF Settle, SubscriptionType
  <2>5. f \in [K -> Nat]
    BY <2>1, Zenon DEF SubscriptionType
  <2>6. c = [b EXCEPT !.inFlight = f, !.acked = @ \cup {m}, !.queued = Dequeue(b, d), !.settled = Settle(b, d)]
    BY DEF AckIn
  <2>7. b.acked \cup {m} \in SUBSET K
    BY <2>1, <2>2 DEF SubscriptionType
  <2> DEFINE q == Dequeue(b, d)
             st == Settle(b, d)
             ak == b.acked \cup {m}
  <2>8. c = [b EXCEPT !.inFlight = f, !.acked = ak, !.queued = q, !.settled = st]
    BY <2>1, <2>6 DEF SubscriptionType
  <2>9. q \in Seq(K) /\ ak \in SUBSET K /\ st \in SUBSET (DeliveryType \cup {NoDelivery})
    BY <2>3, <2>4, <2>7
  <2> HIDE DEF c, K, m, f, q, st, ak
  <2>10. c \in SubscriptionType(K) /\ c.acked = ak /\ DOMAIN c.count = K
    BY <2>1, <2>5, <2>8, <2>9, Zenon DEF SubscriptionType
  <2> QED BY <2>1, <2>10 DEF Acks, IsSubscription, Known, K, m, ak, c
\* A message that is offered again stays known.
<1>RequeueFacts.
      ASSUME NEW b, IsSubscription(b), NEW m
      PROVE  Moves(b, Requeue(b, m)) /\ Requeue(b, m).jetStream = b.jetStream
  <2> USE <1>RequeueFacts
  <2> DEFINE c == Requeue(b, m)
             K == Known(b)
             f == [b.inFlight EXCEPT ![m] = 0]
  <2>1. b \in SubscriptionType(K) /\ K \subseteq Copies
    BY DEF IsSubscription
  <2>2. CASE m \notin InFlight(b)
    BY <2>2 DEF Requeue, Moves
  <2>3. CASE m \in InFlight(b)
    <3>1. m \in K
      BY <2>3 DEF InFlight
    <3>2. c = [b EXCEPT !.inFlight = f, !.queued = Append(@, m)]
      BY <2>3 DEF Requeue
    <3>3. f \in [K -> Nat] /\ Append(b.queued, m) \in Seq(K)
      BY <2>1, <3>1 DEF SubscriptionType
    <3> HIDE DEF K, f
    <3>4. c \in SubscriptionType(K) /\ c.acked = b.acked /\ DOMAIN c.count = K
          /\ c.jetStream = b.jetStream
      BY <2>1, <3>1, <3>2, <3>3, Zenon DEF SubscriptionType
    <3> QED BY <2>1, <3>4 DEF Moves, IsSubscription, Known, K
  <2> QED BY <2>2, <2>3
\* Nack of an open delivery offers its message again.
<1>NackFacts.
      ASSUME NEW b, IsSubscription(b), NEW d \in DeliveryType \cup {NoDelivery}
      PROVE  Moves(b, NackIn(b, d))
  <2> USE <1>NackFacts
  <2>1. CASE ~Unsettled(b, d)
    BY <2>1 DEF NackIn, Moves
  <2>2. CASE Unsettled(b, d)
    <3> DEFINE r == Requeue(b, d.message)
               c == NackIn(b, d)
               K == Known(b)
    <3>1. IsSubscription(r) /\ Known(r) = K /\ r.acked = b.acked
      BY <1>RequeueFacts DEF Moves
    <3>2. r \in SubscriptionType(K) /\ K \subseteq Copies
      BY <3>1 DEF IsSubscription
    <3>3. Settle(b, d) \in SUBSET (DeliveryType \cup {NoDelivery})
      BY DEF IsSubscription, Settle, SubscriptionType
    <3>4. c = [r EXCEPT !.settled = Settle(b, d)]
      BY <2>2 DEF NackIn
    <3> HIDE DEF r, K
    <3>5. c \in SubscriptionType(K) /\ c.acked = r.acked /\ DOMAIN c.count = K
      BY <3>2, <3>3, <3>4, Zenon DEF SubscriptionType
    <3> QED BY <3>1, <3>2, <3>5 DEF Moves, IsSubscription, Known, K
  <2> QED BY <2>1, <2>2
\* JetStream offers again what the dead process held.
<1>RedeliverFacts.
      ASSUME NEW b, IsSubscription(b), NEW c \in Redeliveries(b)
      PROVE  Moves(b, c)
  <2> USE <1>RedeliverFacts
  <2> DEFINE K == Known(b)
             zero == [m \in Known(b) |-> 0]
  <2>1. b \in SubscriptionType(K) /\ K \subseteq Copies
    BY DEF IsSubscription
  <2>2. PICK order \in Orders(InFlight(b)) :
          c = [b EXCEPT !.queued = @ \o order, !.inFlight = zero, !.settled = {}]
    BY Zenon DEF Redeliveries
  <2>3. InFlight(b) \subseteq K
    BY DEF InFlight
  <2>4. PICK n \in 0..Cardinality(InFlight(b)) : order \in Bijection(1..n, InFlight(b))
    BY DEF Orders
  <2>5. n \in Nat
    BY <2>4
  <2>6. order \in [1..n -> InFlight(b)]
    BY <2>4 DEF Bijection, Injection
  <2>7. order \in Seq(K)
    BY <2>3, <2>5, <2>6
  <2>8. zero \in [K -> Nat]
    OBVIOUS
  <2> DEFINE q == b.queued \o order
  <2>9. q \in Seq(K)
    BY <2>1, <2>7 DEF SubscriptionType
  <2>10. c = [b EXCEPT !.queued = q, !.inFlight = zero, !.settled = {}]
    BY <2>1, <2>2 DEF SubscriptionType
  <2> HIDE DEF K, zero, q
  <2>11. c \in SubscriptionType(K) /\ c.acked = b.acked /\ DOMAIN c.count = K
    BY <2>1, <2>8, <2>9, <2>10, Zenon DEF SubscriptionType
  <2> QED BY <2>1, <2>11 DEF Moves, IsSubscription, Known, K
<1>0. IsSubscription(broker) /\ Moves(broker, broker) /\ WorkersOK(worker) /\ acks \in Seq(ClaimType)
  BY DEF IInv, TypeInv, Moves
<1>1. CASE UNCHANGED broker
  BY <1>0, <1>1
<1>2. ASSUME NEW w \in Workers, Receive(w) PROVE Moves(broker, broker')
  BY <1>0, <1>2, ReceiveFacts DEF Receive, Receipt
<1>3. ASSUME NEW w \in Workers, StaleClaim(w) \/ HandlerPanics(w) \/ StopWorker(w)
      PROVE  Moves(broker, broker')
  <2>1. broker' = NackIn(broker, worker[w].delivery)
    BY <1>3 DEF StaleClaim, HandlerPanics, StopWorker
  <2>2. worker[w].delivery \in DeliveryType \cup {NoDelivery}
    BY <1>0 DEF WorkersOK, WorkerType
  <2> QED BY <1>0, <2>1, <2>2, <1>NackFacts
<1>4. ASSUME NEW m \in Known(broker), AckWaitExpires(m) PROVE Moves(broker, broker')
  BY <1>0, <1>4, <1>RequeueFacts DEF AckWaitExpires
<1>5. CASE Crash
  <2>1. broker' \in Redeliveries(broker) \/ broker' \in {EmptyQueue, EmptyStream}
    BY <1>5 DEF Crash
  <2> QED BY <1>0, <1>5, <2>1, <1>RedeliverFacts, EmptyFacts DEF Forgot
<1>6. CASE Acknowledge
  <2>1. pc = "ack" /\ acks # <<>>
    BY <1>6 DEF Acknowledge
  <2>2. Head(acks) \in ClaimType
    BY <1>0, <2>1
  <2>3. Head(acks).delivery \in DeliveryType
    BY <2>2 DEF ClaimType
  <2>4. \/ UNCHANGED broker
        \/ Unsettled(broker, Head(acks).delivery) /\ broker' = AckIn(broker, Head(acks).delivery)
        \/ broker' = NackIn(broker, Head(acks).delivery)
    BY <1>6 DEF Acknowledge
  <2> QED BY <1>0, <2>1, <2>3, <2>4, <1>AckFacts, <1>NackFacts DEF Acked
<1>7. CASE Publish
  <2>0. PICK t \in Unpublished(published) :
          /\ pc = "publish" /\ UNCHANGED stored
          /\ \/ UNCHANGED broker
             \/ broker' = PublishTo(broker, Copy(NextAttempt(t), 1))
             \/ PublishAttempt(NextAttempt(t))
    BY <1>7 DEF Publish
  <2> DEFINE a == NextAttempt(t)
  <2>1. pc = "publish" /\ UNCHANGED stored
    BY <2>0
  <2>2. a \in Attempts
    BY <2>1, NextPublication
  <2>3. \/ UNCHANGED broker
        \/ broker' = PublishTo(broker, Copy(a, 1))
        \/ \E c \in 2..MaxExpiries + 1 : broker' = PublishTo(broker, Copy(a, c))
    BY <2>0 DEF PublishAttempt
  <2>4. 1 \in 1..MaxExpiries + 1 /\ 2..MaxExpiries + 1 \subseteq 1..MaxExpiries + 1
    BY EngineAssumption
  <2> HIDE DEF a
  <2>5. ASSUME NEW c \in 1..MaxExpiries + 1, broker' = PublishTo(broker, Copy(a, c)) PROVE Published
    <3>1. Copy(a, c) \in Copies /\ AttemptOf(Copy(a, c)) = a
      BY <2>2, CopyFacts
    <3>2. Grows(broker, broker', Copy(a, c))
      BY <1>0, <2>5, <3>1, PublishFacts, Zenon
    <3> QED BY <2>1, <3>1, <3>2 DEF Published, a
  <2> QED BY <1>1, <2>3, <2>4, <2>5
<1>8. Execute \/ Start \/ Recover \/ Load \/ Resume \/ CheckContext \/ Prepare \/ Drained \/ Cancel => UNCHANGED broker
  BY DEF Execute, Start, Recover, Load, Resume, CheckContext, Prepare, Drained, Cancel, loop, Return, FinishWith
<1>9. TopCanceled \/ RecoverDue \/ Acknowledged \/ Decide \/ Timer \/ ContextDone \/ Result => UNCHANGED broker
  BY Zenon DEF TopCanceled, RecoverDue, Acknowledged, Decide, Timer, ContextDone, Result
<1>10. ASSUME NEW w \in Workers,
             \/ LeaseClaim(w) \/ ParkClaim(w) \/ DropClaim(w) \/ WorkerLost(w)
             \/ BrokerError(w) \/ Heartbeat(w)
      PROVE  UNCHANGED broker
  BY <1>10 DEF LeaseClaim, ParkClaim, DropClaim, WorkerLost, BrokerError, Heartbeat
<1>11. ASSUME NEW w \in Workers,
              \/ StartWorker(w) \/ ReceiveFails(w) \/ InvokeHandler(w) \/ SendResult(w)
              \/ \E res \in Results : HandlerReturns(w, res)
       PROVE  UNCHANGED broker
  BY <1>11, Zenon DEF StartWorker, ReceiveFails, InvokeHandler, SendResult, HandlerReturns
<1>12. \A t \in Tasks : PassDeadline(t) => UNCHANGED broker
  BY DEF PassDeadline, loop
<1>13. UNCHANGED vars => UNCHANGED broker
  BY DEF vars
<1> QED BY <1>1, <1>2, <1>3, <1>4, <1>5, <1>6, <1>7, <1>8, <1>9, <1>10, <1>11, <1>12, <1>13
        DEF Next, Proceed, Event, WorkerStep

------------------------------------------------------------------------------
(* Every step writes along the edges.                                      *)

\* A success that was earned stays earned.
LEMMA EarnedStays ==
  ASSUME NEW b, NEW a, NoSuccess(b, a), Earned(b)
  PROVE  Earned(a)
BY DEF NoSuccess, Earned, Completed, SameTask

\* Every step writes along the edges, or not at all.
LEMMA EveryStepWrites == IInv /\ [Next]_vars => Wrote(stored, stored')
\* A save, successful or not, writes the aggregate or nothing.
<1>SaveWrites.
      ASSUME NEW r, ValidSnapshot(r) => Wrote(stored, r), Saved(r) \/ SaveError(r)
      PROVE  Wrote(stored, stored')
  BY <1>SaveWrites DEF Saved, SaveError, Wrote
\* The steps of the scheduler outside its loop write along the edges.
<1>OpeningWrites.
      ASSUME IInv, Execute \/ Start \/ Resume \/ CheckContext \/ Prepare
      PROVE  Wrote(stored, stored')
  <2> USE <1>OpeningWrites
  <2>0. stored \in Run \cup {NoRun} /\ run \in Run \cup {NoRun}
    BY DEF IInv, TypeInv
  <2>1. CASE Execute
    BY <2>1 DEF Execute, Wrote
  <2>2. CASE Start
    <3>1. stored = run /\ run \in Run /\ run.status = "pending"
      BY <2>0, <2>2 DEF Start, IInv, FlowInv, Outside, Opening
    <3>2. ValidSnapshot(CanceledRun(run)) => Wrote(stored, CanceledRun(run))
      BY <3>1, BehindItself, EndWrites DEF CanceledRun, LegalWorkflowTransition
    <3>3. Wrote(stored, TransitionWorkflow(run, "running"))
      BY <3>1, StartIsProgress, Zenon DEF Wrote
    <3> QED BY <2>2, <3>2, <3>3, <1>SaveWrites DEF Start, FinishWith
  <2>3. CASE Resume
    <3>1. /\ stored = run /\ run \in Run /\ run.status \in {"pending", "running"}
          /\ run.status = "pending" => \A t \in Tasks : run.tasks[t].status = "pending"
      BY <2>0, <2>3 DEF Resume, IInv, FlowInv, Outside, Opening
    <3>2. RecoveredStatus(run) # "none" => run.status = "running"
      BY <3>1, Zenon DEF RecoveredStatus, HasTask
    <3>3. RecoveredStatus(run) # "none" /\ ValidSnapshot(CanceledRun(run)) => Wrote(stored, CanceledRun(run))
      BY <3>1, <3>2, BehindItself, EndWrites DEF CanceledRun, LegalWorkflowTransition
    <3>4. RecoveredStatus(run) # "none" /\ ValidSnapshot(FailedRun(run)) => Wrote(stored, FailedRun(run))
      BY <3>1, <3>2, BehindItself, EndWrites DEF FailedRun, LegalWorkflowTransition
    <3>5. run.status = "pending" => Wrote(stored, TransitionWorkflow(run, "running"))
      BY <3>1, StartIsProgress DEF Wrote
    <3>6. CASE RecoveredStatus(run) = "failed" /\ FinishWith(FailedRun(run))
      BY <3>4, <3>6, <1>SaveWrites DEF FinishWith
    <3>7. CASE RecoveredStatus(run) = "canceled" /\ FinishWith(CanceledRun(run))
      BY <3>3, <3>7, <1>SaveWrites DEF FinishWith
    <3>8. CASE run.status = "pending" /\ (Saved(TransitionWorkflow(run, "running"))
                                          \/ SaveError(TransitionWorkflow(run, "running")))
      BY <3>5, <3>8, <1>SaveWrites
    <3>9. CASE UNCHANGED stored
      BY <3>9 DEF Wrote
    <3> QED BY <2>3, <3>1, <3>6, <3>7, <3>8, <3>9, Zenon DEF Resume
  <2>4. CASE CheckContext
    <3>1. stored = run /\ run \in Run /\ run.status = "running"
      BY <2>0, <2>4 DEF CheckContext, IInv, FlowInv, Outside, Opening, Looping
    <3>2. ValidSnapshot(CanceledRun(run)) => Wrote(stored, CanceledRun(run))
      BY <3>1, BehindItself, EndWrites, Zenon DEF CanceledRun, LegalWorkflowTransition
    <3>3. CASE UNCHANGED stored
      BY <3>3 DEF Wrote
    <3> QED BY <2>4, <3>2, <3>3, <1>SaveWrites DEF CheckContext, FinishWith
  <2>5. CASE Prepare
    <3> DEFINE r == MarkNewReady(run)
    <3>1. stored = run /\ run \in Run /\ run.status = "running"
      BY <2>0, <2>5 DEF Prepare, IInv, FlowInv, Outside, Opening, Looping
    <3>2. Wrote(stored, r)
      BY <3>1, MarkNewReadyIsProgress DEF Wrote
    <3>3. NewReady(run) # {} => Wrote(stored, FailedRun(r))
      <4> SUFFICES ASSUME NEW t \in NewReady(run) PROVE Wrote(stored, FailedRun(r))
        OBVIOUS
      <4>1. /\ r \in Run /\ r.status = run.status
            /\ \A u \in Tasks : r.tasks[u] = run.tasks[u] \/ UnlockEdge(run, r, u)
        BY <3>1, MarkNewReadyEdges
      <4>2. t \in Tasks /\ run.tasks[t].status = "pending"
        BY DEF NewReady
      <4>3. r.tasks[t].status \in Unfinished
        BY <4>1, <4>2 DEF UnlockEdge, Unfinished
      <4> HIDE DEF r
      <4>4. Behind(run, r)
        BY <4>1 DEF Behind, SameTask
      <4>5. ValidAggregate(FailedRun(r))
        BY <4>1, <4>2, <4>3, FailedRunValid
      <4>6. FinishWrite(run, FailedRun(r))
        BY <3>1, <4>1, <4>4, <4>5, EndRunIsFinish DEF FailedRun, LegalWorkflowTransition
      <4> QED BY <3>1, <4>6 DEF Wrote
    <3>4. CASE UNCHANGED stored
      BY <3>4 DEF Wrote
    <3>5. CASE Saved(r)
      BY <3>2, <3>5, <1>SaveWrites
    <3>6. CASE NewReady(run) # {} /\ stored' \in {stored, r, FailedRun(r)}
      BY <3>2, <3>3, <3>6 DEF Wrote
    <3> HIDE DEF r
    <3> QED BY <2>5, <3>4, <3>5, <3>6, Zenon DEF Prepare, r
  <2> QED BY <2>1, <2>2, <2>3, <2>4, <2>5
\* The steps of the loop write along the edges.
<1>LoopWrites.
      ASSUME IInv, RecoverDue \/ Result \/ \E w \in Workers : LeaseClaim(w) \/ Heartbeat(w)
      PROVE  Wrote(stored, stored')
  <2> USE <1>LoopWrites
  <2>0. stored = run /\ run \in Run /\ run.status = "running"
    BY LoopHolds, Zenon DEF RecoverDue, Result, LeaseClaim, CanClaim, Heartbeat, Looping
  <2>1. CASE RecoverDue
    BY <2>0, <2>1, RecoverDueIsProgress, <1>SaveWrites, Zenon DEF RecoverDue, Wrote
  <2>2. CASE Result
    <3> DEFINE res == Head(results)
               m == AttemptOf(res.delivery.message)
               o == CompletionOutcome(run, m[1], res.to, m[2], res.result)
               r == AfterCompletion(run, m[1], res.to, m[2], res.result)
    <3>0. results \in Seq(ResultType) /\ results # <<>>
      BY <2>2, Zenon DEF Result, IInv, TypeInv
    <3>1. res \in ResultType
      BY <3>0
    <3>2. m[1] \in Tasks /\ res.result \in Results
      BY <3>1 DEF ResultType, DeliveryType, AttemptOf, Copies, Copy, Attempts
    <3>3. o # "ignored" => ProgressWrite(run, r)
      BY <2>0, <3>2, CompletionIsProgress
    <3>4. \/ UNCHANGED stored
          \/ o # "ignored" /\ (Saved(r) \/ SaveError(r))
      BY <2>2, Zenon DEF Result
    <3> HIDE DEF o, r
    <3> QED BY <2>0, <3>3, <3>4, <1>SaveWrites DEF Wrote
  <2>3. ASSUME NEW w \in Workers, LeaseClaim(w) PROVE Wrote(stored, stored')
    <3> DEFINE t == Claimed(w)[1]
    <3>1. worker[w].delivery \in DeliveryType
      BY <2>3, Zenon DEF LeaseClaim, CanClaim, IInv, TypeInv, WorkersOK, Holding
    <3>2. t \in Tasks
      BY <3>1 DEF Claimed, DeliveryType, AttemptOf, Copies, Copy, Attempts
    <3>3. run.tasks[t].status = "ready"
      BY <2>3 DEF LeaseClaim
    <3>4. Saved(StartTaskAttempt(run, t, w)) \/ SaveError(StartTaskAttempt(run, t, w))
      BY <2>3 DEF LeaseClaim
    <3> HIDE DEF t
    <3>5. ProgressWrite(run, StartTaskAttempt(run, t, w))
      BY <2>0, <3>2, <3>3, LeaseIsProgress
    <3> QED BY <2>0, <3>4, <3>5, <1>SaveWrites DEF Wrote
  <2>4. ASSUME NEW w \in Workers, Heartbeat(w) PROVE Wrote(stored, stored')
    <3>1. Saved(RecordWorkerHeartbeat(run, w)) \/ SaveError(RecordWorkerHeartbeat(run, w))
      BY <2>4 DEF Heartbeat
    <3> QED BY <2>0, <3>1, HeartbeatIsProgress, <1>SaveWrites, Zenon DEF Wrote
  <2> QED BY <2>1, <2>2, <2>3, <2>4
\* What ends a call after shutdownWorkers finishes the stored run.
<1>DrainWrites.
      ASSUME IInv, Drained
      PROVE  Wrote(stored, stored')
  <2> USE <1>DrainWrites
  <2>1. CASE UNCHANGED stored
    BY <2>1 DEF Wrote
  <2>2. CASE after # "return" /\ FinishWith(FinalRun)
    <3>1. /\ stored \in Run /\ run \in Run /\ run.status = "running" /\ stored.status = "running"
          /\ after \in {"cancel", "succeed", "fail"}
          /\ after \in {"cancel", "succeed"} => stored = run
          /\ after = "fail" => Behind(stored, run)
      BY <2>2 DEF Drained, IInv, TypeInv, FlowInv, Outside, Opening, Looping
    <3>2. Behind(stored, run)
      BY <3>1, BehindItself
    <3>3. ValidSnapshot(CanceledRun(run)) => Wrote(stored, CanceledRun(run))
      BY <3>1, <3>2, EndWrites DEF CanceledRun, LegalWorkflowTransition
    <3>4. ValidSnapshot(FailedRun(run)) => Wrote(stored, FailedRun(run))
      BY <3>1, <3>2, EndWrites DEF FailedRun, LegalWorkflowTransition
    <3>5. after = "succeed" /\ ValidSnapshot(TransitionWorkflow(run, "succeeded")) =>
            Wrote(stored, TransitionWorkflow(run, "succeeded"))
      BY <3>1, SucceedIsFinish DEF Wrote, ValidSnapshot
    <3>6. \/ FinalRun = CanceledRun(run) \/ FinalRun = FailedRun(run)
          \/ after = "succeed" /\ FinalRun = TransitionWorkflow(run, "succeeded")
      BY <3>1 DEF FinalRun
    <3>7. ValidSnapshot(FinalRun) => Wrote(stored, FinalRun)
      BY <3>3, <3>4, <3>5, <3>6
    <3> QED BY <2>2, <3>7, <1>SaveWrites, Zenon DEF FinishWith
  <2> QED BY <2>1, <2>2 DEF Drained
<1> SUFFICES ASSUME IInv, [Next]_vars PROVE Wrote(stored, stored')
  OBVIOUS
<1>1. CASE UNCHANGED stored
  BY <1>1 DEF Wrote
<1>2. CASE Execute \/ Start \/ Resume \/ CheckContext \/ Prepare
  BY <1>2, <1>OpeningWrites
<1>3. CASE RecoverDue \/ Result \/ \E w \in Workers : LeaseClaim(w) \/ Heartbeat(w)
  BY <1>3, <1>LoopWrites
<1>4. CASE Drained
  BY <1>4, <1>DrainWrites
<1>5. ASSUME NEW t \in Tasks, PassDeadline(t) PROVE Wrote(stored, stored')
  BY <1>5 DEF PassDeadline, Wrote
<1>6. Recover \/ Load \/ Cancel \/ Crash => UNCHANGED stored
  BY DEF Recover, Load, Return, Cancel, Crash
<1>7. TopCanceled \/ Acknowledge \/ Acknowledged \/ Decide \/ Publish \/ Timer \/ ContextDone => UNCHANGED stored
  BY Zenon DEF TopCanceled, Acknowledge, Acknowledged, Decide, Publish, Timer, ContextDone
<1>8. ASSUME NEW w \in Workers,
             StaleClaim(w) \/ ParkClaim(w) \/ DropClaim(w) \/ WorkerLost(w) \/ BrokerError(w)
      PROVE  UNCHANGED stored
  BY <1>8 DEF StaleClaim, ParkClaim, DropClaim, WorkerLost, BrokerError
<1>9. ASSUME NEW w \in Workers, WorkerStep(w) PROVE UNCHANGED stored
  BY <1>9 DEF WorkerStep, StartWorker, Receive, ReceiveFails, InvokeHandler, HandlerReturns,
              HandlerPanics, SendResult, StopWorker, scheduler
<1>10. ASSUME NEW m \in Known(broker), AckWaitExpires(m) PROVE UNCHANGED stored
  BY <1>10 DEF AckWaitExpires, scheduler
<1> QED BY <1>1, <1>2, <1>3, <1>4, <1>5, <1>6, <1>7, <1>8, <1>9, <1>10
        DEF Next, Proceed, Event, vars

------------------------------------------------------------------------------
(* What a step may do to the workers.                                      *)

\* Between f and g nobody is given a delivery or an attempt.
Calm(f, g) ==
  /\ WorkersOK(g)
  /\ \A w \in Workers :
       /\ g[w].pc \in Holding => f[w].pc \in Holding /\ g[w].delivery = f[w].delivery
       /\ g[w].pc \in Executing => g[w].pc = f[w].pc /\ g[w].result = f[w].result

\* Off and Spawned are states of a worker that holds nothing.
LEMMA IdleTypes ==
  /\ Off \in WorkerType /\ Off.pc = "off" /\ Off.done = FALSE
  /\ Spawned \in WorkerType /\ Spawned.pc = "start"
  /\ [Off EXCEPT !.pc = "recv"] \in WorkerType /\ [Off EXCEPT !.pc = "recv"].pc = "recv"
BY Zenon DEF Off, Spawned, WorkerType, NoDelivery, Holding

WorkerWith(k, state) == [k EXCEPT !.pc = state]

\* A worker that only changes its program state.
LEMMA WorkerWithFacts ==
  ASSUME NEW k \in WorkerType, NEW state \in {"off", "start", "recv", "broken", "lost"} \cup Holding
  PROVE  /\ WorkerWith(k, state) \in WorkerType /\ WorkerWith(k, state).pc = state
         /\ WorkerWith(k, state).delivery = k.delivery /\ WorkerWith(k, state).result = k.result
BY DEF WorkerWith, WorkerType

\* Every step is calm, or gives one worker a delivery, a lease, a handler or a result.
LEMMA StepKinds ==
  ASSUME IInv, [Next]_vars
  PROVE  \/ Calm(worker, worker')
         \/ \E w \in Workers : \/ Receive(w) \/ (LeaseClaim(w) /\ pc' # "drain") \/ InvokeHandler(w)
                               \/ \E res \in Results : HandlerReturns(w, res)
\* Doing nothing is calm.
<1>CalmStays.
      ASSUME NEW f, WorkersOK(f)
      PROVE  Calm(f, f)
  BY <1>CalmStays DEF Calm
\* Calm composes.
<1>CalmTwice.
      ASSUME NEW f, NEW g, NEW h, Calm(f, g), Calm(g, h)
      PROVE  Calm(f, h)
  BY <1>CalmTwice DEF Calm, Holding, Executing
\* It is calm when nobody holds anything.
<1>CalmEmpty.
      ASSUME NEW f, NEW g \in [Workers -> WorkerType], \A w \in Workers : g[w].pc \notin Holding
      PROVE  Calm(f, g)
  BY <1>CalmEmpty DEF Calm, WorkersOK, Holding, Executing
\* It is calm when one worker lets go.
<1>CalmOne.
      ASSUME NEW f, WorkersOK(f), NEW w \in Workers, NEW k \in WorkerType, k.pc \notin Holding
      PROVE  Calm(f, [f EXCEPT ![w] = k])
  BY <1>CalmOne DEF Calm, WorkersOK, Holding, Executing
\* A worker whose context is canceled is otherwise as it was.
<1>CanceledWorker.
      ASSUME NEW k \in WorkerType, NEW d \in BOOLEAN
      PROVE  /\ [k EXCEPT !.done = d] \in WorkerType
             /\ [k EXCEPT !.done = d].pc = k.pc
             /\ [k EXCEPT !.done = d].delivery = k.delivery
             /\ [k EXCEPT !.done = d].result = k.result
  BY <1>CanceledWorker DEF WorkerType
\* shutdownWorkers is calm.
<1>CalmShutdown.
      ASSUME NEW f, WorkersOK(f), NEW then, Shutdown(then, f)
      PROVE  Calm(f, worker')
  <2> USE <1>CalmShutdown
  <2>1. worker' = [w \in Workers |-> [f[w] EXCEPT !.done = f[w].pc # "off"]]
    BY DEF Shutdown
  <2>2. \A w \in Workers : /\ worker'[w] \in WorkerType /\ worker'[w].pc = f[w].pc
                           /\ worker'[w].delivery = f[w].delivery /\ worker'[w].result = f[w].result
    BY <2>1, <1>CanceledWorker, Zenon DEF WorkersOK
  <2>3. worker' \in [Workers -> WorkerType]
    BY <2>1, <2>2
  <2> QED BY <2>2, <2>3 DEF Calm, WorkersOK
\* replaceWorker is calm.
<1>CalmReplaced.
      ASSUME NEW f, WorkersOK(f), NEW ws
      PROVE  Calm(f, Replaced(ws, f))
  <2> USE <1>CalmReplaced
  <2> DEFINE g == Replaced(ws, f)
             old == {w \in ws : IsCurrent(w)}
             new == {[w EXCEPT !.gen = @ + 1] : w \in old}
  <2>1. g = [w \in Workers |-> IF w \in old THEN [f[w] EXCEPT !.done = f[w].pc # "off"]
                               ELSE IF w \in new THEN Spawned ELSE f[w]]
    BY DEF Replaced
  <2> HIDE DEF old, new, g
  <2>2. ASSUME NEW w \in Workers
        PROVE  /\ g[w] \in WorkerType
               /\ \/ g[w].pc = "start"
                  \/ /\ g[w].pc = f[w].pc /\ g[w].delivery = f[w].delivery /\ g[w].result = f[w].result
    <3>1. f[w] \in WorkerType
      BY DEF WorkersOK
    <3>2. CASE w \in old
      BY <2>1, <3>1, <3>2, <1>CanceledWorker, Zenon
    <3>3. CASE w \notin old /\ w \in new
      BY <2>1, <3>3, IdleTypes
    <3>4. CASE w \notin old /\ w \notin new
      BY <2>1, <3>1, <3>4
    <3> QED BY <3>2, <3>3, <3>4
  <2>3. g \in [Workers -> WorkerType]
    BY <2>1, <2>2
  <2>4. Calm(f, g)
    BY <2>2, <2>3 DEF Calm, WorkersOK, Holding, Executing
  <2> QED BY <2>4 DEF g
\* A worker that gets an empty response, or is about to receive, lets go.
<1>ReceivingType.
      ASSUME NEW k
      PROVE  Receiving(k) \in WorkerType /\ Receiving(k).pc \notin Holding
  BY IdleTypes DEF Receiving, Holding
\* An empty response is calm.
<1>CalmAnswered.
      ASSUME NEW f, WorkersOK(f), NEW w
      PROVE  Calm(f, Answered(f, w))
  BY <1>CalmAnswered, <1>CalmStays, <1>CalmOne, <1>ReceivingType DEF Answered
\* Everybody is off after a call.
<1>CalmReset.
      ASSUME NEW f, LocalReset
      PROVE  Calm(f, worker')
  BY <1>CalmReset, <1>CalmEmpty, IdleTypes DEF LocalReset, Holding
\* The scheduler's steps are calm, but for the one that grants a lease.
<1>SchedulerCalm.
      ASSUME IInv,
             \/ Execute \/ Recover \/ Start \/ Load \/ Resume \/ CheckContext \/ Prepare \/ Drained
             \/ TopCanceled \/ RecoverDue \/ Acknowledge \/ Acknowledged \/ Decide \/ Publish
             \/ Cancel \/ Crash \/ Result \/ Timer \/ ContextDone
      PROVE  Calm(worker, worker')
  <2> USE <1>SchedulerCalm
  <2>0. WorkersOK(worker) /\ Calm(worker, worker)
    BY <1>CalmStays DEF IInv, TypeInv
  <2>1. CASE LocalReset
    BY <2>1, <1>CalmReset
  <2>2. CASE UNCHANGED worker
    BY <2>0, <2>2
  <2>3. ASSUME NEW then, Shutdown(then, worker) PROVE Calm(worker, worker')
    BY <2>0, <2>3, <1>CalmShutdown
  <2>4. Execute \/ Recover \/ Start \/ Load \/ Resume \/ CheckContext \/ Drained \/ Cancel \/ Crash =>
          UNCHANGED worker \/ LocalReset
    BY Zenon DEF Execute, Recover, Start, Load, Resume, CheckContext, Drained, Cancel, Crash, FinishWith,
           Return, loop
  <2>5. CASE Prepare
    <3>1. CASE worker' = [w \in Workers |-> IF IsCurrent(w) THEN Spawned ELSE Off]
      BY <3>1, <1>CalmEmpty, IdleTypes DEF Holding
    <3> QED BY <2>1, <2>5, <3>1, Zenon DEF Prepare, Return
  <2>6. CASE TopCanceled \/ Acknowledged \/ Decide \/ Publish \/ Timer \/ ContextDone
    BY <2>2, <2>3, <2>6, Zenon DEF TopCanceled, Acknowledged, Decide, Publish, Timer, ContextDone
  <2>7. CASE Acknowledge
    <3>1. CASE worker' = Answered(worker, Head(acks).to)
      BY <2>0, <3>1, <1>CalmAnswered
    <3> QED BY <2>3, <2>7, <3>1, Zenon DEF Acknowledge
  <2>8. CASE Result
    BY <2>2, <2>3, <2>8, Zenon DEF Result
  <2>9. CASE RecoverDue
    <3> DEFINE ws == {run.tasks[t].lease : t \in ExpiredLeases(run)} \cap Workers
               g == Replaced(ws, worker)
    <3>1. Calm(worker, g) /\ WorkersOK(g)
      BY <2>0, <1>CalmReplaced DEF Calm
    <3>2. worker' = g \/ \E then : Shutdown(then, g)
      BY <2>9, Zenon DEF RecoverDue
    <3> HIDE DEF g
    <3>3. ASSUME NEW then, Shutdown(then, g) PROVE Calm(worker, worker')
      BY <3>1, <3>3, <1>CalmShutdown, <1>CalmTwice
    <3> QED BY <3>1, <3>2, <3>3, Zenon
  <2> QED BY <2>1, <2>2, <2>4, <2>5, <2>6, <2>7, <2>8, <2>9
\* The scheduler's answers to one worker are calm, but for a granted lease.
<1>EventCalm.
      ASSUME IInv, NEW w \in Workers,
             \/ StaleClaim(w) \/ ParkClaim(w) \/ DropClaim(w) \/ WorkerLost(w) \/ BrokerError(w)
             \/ Heartbeat(w) \/ (LeaseClaim(w) /\ pc' = "drain")
      PROVE  Calm(worker, worker')
  <2> USE <1>EventCalm
  <2>0. WorkersOK(worker) /\ Calm(worker, worker) /\ worker \in [Workers -> WorkerType]
    BY <1>CalmStays DEF IInv, TypeInv, WorkersOK
  <2>1. ASSUME NEW then, Shutdown(then, worker) PROVE Calm(worker, worker')
    BY <2>0, <2>1, <1>CalmShutdown
  <2>2. CASE StaleClaim(w)
    BY <2>0, <2>2, <1>CalmAnswered, Zenon DEF StaleClaim
  <2>3. CASE ParkClaim(w)
    <3>1. worker' = [worker EXCEPT ![w] = WorkerWith(worker[w], "parked")] /\ worker[w].pc = "claim"
      BY <2>3, Zenon DEF ParkClaim, CanClaim, WorkerWith
    <3> QED BY <2>0, <3>1, WorkerWithFacts DEF Calm, WorkersOK, Holding, Executing
  <2>4. CASE DropClaim(w)
    BY <2>0, <2>4 DEF DropClaim
  <2>5. Calm(worker, [worker EXCEPT ![w] = Off]) /\ WorkersOK([worker EXCEPT ![w] = Off])
    <3>1. Calm(worker, [worker EXCEPT ![w] = Off])
      BY <2>0, <1>CalmOne, IdleTypes, Zenon DEF Holding
    <3> QED BY <3>1 DEF Calm
  <2>6. CASE WorkerLost(w)
    <3>1. worker' = Replaced({w}, [worker EXCEPT ![w] = Off])
      BY <2>6 DEF WorkerLost
    <3> QED BY <2>5, <3>1, <1>CalmReplaced, <1>CalmTwice
  <2>7. CASE BrokerError(w)
    <3>1. Shutdown("return", [worker EXCEPT ![w] = Off])
      BY <2>7 DEF BrokerError
    <3> QED BY <2>5, <3>1, <1>CalmShutdown, <1>CalmTwice
  <2>8. CASE Heartbeat(w)
    BY <2>0, <2>1, <2>8 DEF Heartbeat
  <2>9. CASE LeaseClaim(w) /\ pc' = "drain"
    BY <2>1, <2>9 DEF LeaseClaim
  <2> QED BY <2>2, <2>3, <2>4, <2>6, <2>7, <2>8, <2>9
\* A worker that starts, fails to receive, panics, reports or stops lets go.
<1>WorkerCalm.
      ASSUME IInv, NEW w \in Workers,
             \/ StartWorker(w) \/ ReceiveFails(w) \/ HandlerPanics(w) \/ SendResult(w) \/ StopWorker(w)
      PROVE  Calm(worker, worker')
  <2> USE <1>WorkerCalm
  <2>0. WorkersOK(worker) /\ worker \in [Workers -> WorkerType]
    BY DEF IInv, TypeInv, WorkersOK
  <2>1. CASE StartWorker(w)
    BY <2>0, <2>1, <1>CalmOne, <1>ReceivingType, Zenon DEF StartWorker
  <2>2. CASE ReceiveFails(w)
    <3>1. worker' = [worker EXCEPT ![w] = WorkerWith(worker[w], "broken")]
      BY <2>2 DEF ReceiveFails, Becomes, WorkerWith
    <3>2. WorkerWith(worker[w], "broken") \in WorkerType /\ WorkerWith(worker[w], "broken").pc \notin Holding
      BY <2>0, WorkerWithFacts DEF Holding
    <3> QED BY <2>0, <3>1, <3>2, <1>CalmOne, Zenon
  <2>3. CASE HandlerPanics(w)
    <3> DEFINE k == [worker[w] EXCEPT !.pc = "lost", !.delivery = NoDelivery]
    <3>1. worker' = [worker EXCEPT ![w] = k]
      BY <2>0, <2>3, Zenon DEF HandlerPanics
    <3>2. k \in WorkerType /\ k.pc = "lost"
      BY <2>0, Zenon DEF WorkerType, Holding
    <3> QED BY <2>0, <3>1, <3>2, <1>CalmOne, Zenon DEF Holding
  <2>4. CASE SendResult(w)
    BY <2>0, <2>4, <1>CalmOne, <1>ReceivingType, Zenon DEF SendResult
  <2>5. CASE StopWorker(w)
    BY <2>0, <2>5, <1>CalmOne, IdleTypes, Zenon DEF StopWorker, Holding
  <2> QED BY <2>1, <2>2, <2>3, <2>4, <2>5
<1>1. CASE UNCHANGED worker
  BY <1>1, <1>CalmStays DEF IInv, TypeInv
<1>2. \A t \in Tasks : PassDeadline(t) => UNCHANGED worker
  BY Zenon DEF PassDeadline, loop
<1>3. \A m \in Known(broker) : AckWaitExpires(m) => UNCHANGED worker
  BY DEF AckWaitExpires
<1>4. CASE \/ Execute \/ Recover \/ Proceed \/ Result \/ Timer \/ ContextDone \/ Cancel \/ Crash
  BY <1>4, <1>SchedulerCalm DEF Proceed
<1>5. ASSUME NEW w \in Workers,
             \/ StaleClaim(w) \/ ParkClaim(w) \/ DropClaim(w) \/ WorkerLost(w) \/ BrokerError(w)
             \/ Heartbeat(w) \/ (LeaseClaim(w) /\ pc' = "drain")
      PROVE  Calm(worker, worker')
  BY <1>5, <1>EventCalm
<1>6. ASSUME NEW w \in Workers,
             \/ StartWorker(w) \/ ReceiveFails(w) \/ HandlerPanics(w) \/ SendResult(w) \/ StopWorker(w)
      PROVE  Calm(worker, worker')
  BY <1>6, <1>WorkerCalm
<1> QED BY <1>1, <1>2, <1>3, <1>4, <1>5, <1>6 DEF Next, Event, WorkerStep, vars

------------------------------------------------------------------------------
(* Who executes what.                                                      *)

\* One worker changes: its state is p, its delivery d and its result r.
Turns(w, p, d, r) ==
  /\ WorkersOK(worker') /\ \A v \in Workers \ {w} : worker'[v] = worker[v]
  /\ worker'[w].pc = p /\ worker'[w].delivery = d /\ worker'[w].result = r

\* The steps that give a worker a delivery, a job, a handler or its result.
LEMMA WorkerTurns ==
  ASSUME IInv, NEW w \in Workers
  PROVE  /\ Receive(w) => Turns(w, "claim", Delivery(broker), worker[w].result)
         /\ LeaseClaim(w) /\ pc' # "drain" => Turns(w, "granted", worker[w].delivery, worker[w].result)
         /\ InvokeHandler(w) => Turns(w, "exec", worker[w].delivery, worker[w].result)
         /\ \A res \in Results :
              HandlerReturns(w, res) => Turns(w, "report", worker[w].delivery, res)
<1>0. WorkersOK(worker) /\ worker \in [Workers -> WorkerType]
  BY DEF IInv, TypeInv, WorkersOK
<1>1. ASSUME NEW k \in WorkerType, worker' = [worker EXCEPT ![w] = k],
             k.pc \in Holding => k.delivery \in DeliveryType,
             k.pc = "report" => k.result \in Results
      PROVE  Turns(w, k.pc, k.delivery, k.result)
  <2>1. /\ worker' \in [Workers -> WorkerType]
        /\ worker'[w] = k /\ \A v \in Workers \ {w} : worker'[v] = worker[v]
    BY <1>0, <1>1
  <2> QED BY <1>0, <1>1, <2>1 DEF Turns, WorkersOK
<1>2. ASSUME Receive(w) PROVE Turns(w, "claim", Delivery(broker), worker[w].result)
  <2> DEFINE d == Delivery(broker)
             k == [worker[w] EXCEPT !.pc = "claim", !.delivery = d]
  <2>1. d \in DeliveryType
    BY <1>2, ReceiveFacts DEF Receive, Receipt, IInv, TypeInv
  <2>2. worker' = [worker EXCEPT ![w] = k]
    BY <1>0, <1>2, Zenon DEF Receive
  <2> HIDE DEF d
  <2>3. k \in WorkerType /\ k.pc = "claim" /\ k.delivery = d /\ k.result = worker[w].result
    BY <1>0, <2>1, Zenon DEF WorkerType, Holding
  <2> HIDE DEF k
  <2>4. Turns(w, k.pc, k.delivery, k.result)
    BY <1>1, <2>1, <2>2, <2>3, Zenon
  <2> QED BY <2>3, <2>4 DEF d
<1>3. ASSUME NEW p \in {"granted", "exec"}, worker[w].pc \in Holding,
             worker' = [worker EXCEPT ![w] = WorkerWith(worker[w], p)]
      PROVE  Turns(w, p, worker[w].delivery, worker[w].result)
  <2> DEFINE k == WorkerWith(worker[w], p)
  <2>1. /\ k \in WorkerType /\ k.pc = p
        /\ k.delivery = worker[w].delivery /\ k.result = worker[w].result
    BY <1>0, WorkerWithFacts DEF Holding
  <2>2. worker[w].delivery \in DeliveryType
    BY <1>0, <1>3 DEF WorkersOK
  <2> HIDE DEF k
  <2>3. Turns(w, k.pc, k.delivery, k.result)
    BY <1>1, <1>3, <2>1, <2>2, Zenon DEF k
  <2> QED BY <2>1, <2>3
<1>4. LeaseClaim(w) /\ pc' # "drain" =>
        worker[w].pc = "claim" /\ worker' = [worker EXCEPT ![w] = WorkerWith(worker[w], "granted")]
  BY DEF LeaseClaim, CanClaim, Shutdown, WorkerWith
<1>5. InvokeHandler(w) =>
        worker[w].pc = "granted" /\ worker' = [worker EXCEPT ![w] = WorkerWith(worker[w], "exec")]
  BY DEF InvokeHandler, Becomes, WorkerWith
<1>6. ASSUME NEW res \in Results, HandlerReturns(w, res)
      PROVE  Turns(w, "report", worker[w].delivery, res)
  <2> DEFINE k == [worker[w] EXCEPT !.pc = "report", !.result = res]
  <2>1. worker' = [worker EXCEPT ![w] = k] /\ worker[w].pc = "exec"
    BY <1>0, <1>6, Zenon DEF HandlerReturns
  <2>2. k \in WorkerType /\ k.pc = "report" /\ k.delivery = worker[w].delivery /\ k.result = res
    BY <1>0, Zenon DEF WorkerType, Holding
  <2>3. k.delivery \in DeliveryType
    BY <1>0, <2>1, <2>2 DEF WorkersOK, Holding
  <2> HIDE DEF k
  <2>4. Turns(w, k.pc, k.delivery, k.result)
    BY <1>1, <2>1, <2>2, <2>3, Zenon
  <2> QED BY <2>2, <2>4
<1> QED BY <1>2, <1>3, <1>4, <1>5, <1>6 DEF Holding

ResultsStay ==
  /\ results' \in Seq(ResultType)
  /\ \A i \in 1..Len(results') : \E j \in 1..Len(results) : results'[i] = results[j]

\* Whoever executes an attempt after the step does what it did before.
Steady ==
  \A w \in Workers : worker'[w].pc \in Executing =>
    /\ worker'[w].pc = worker[w].pc /\ worker'[w].result = worker[w].result
    /\ worker'[w].delivery = worker[w].delivery

\* Only a worker changes the history and adds a result.
LEMMA Frame ==
  ASSUME [Next]_vars
  PROVE  /\ \/ UNCHANGED <<invoked, proved>>
            \/ \E w \in Workers : InvokeHandler(w) \/ \E res \in Results : HandlerReturns(w, res)
         /\ results' = results \/ results' = <<>> \/ Result \/ \E w \in Workers : SendResult(w)
<1> USE DEF history, books, loop, scheduler, Return, LocalReset, FinishWith
<1> DEFINE Quiet == UNCHANGED <<invoked, proved>> /\ (results' = results \/ results' = <<>>)
<1>1. Execute \/ Start \/ Recover \/ Load \/ Resume \/ CheckContext \/ Cancel \/ Crash => Quiet
  BY DEF Execute, Start, Recover, Load, Resume, CheckContext, Cancel, Crash
<1>2. Prepare \/ Drained => Quiet
  BY Zenon DEF Prepare, Drained
<1>3. TopCanceled \/ RecoverDue \/ Acknowledge \/ Acknowledged \/ Decide \/ Publish \/ Timer \/ ContextDone => Quiet
  BY Zenon DEF TopCanceled, RecoverDue, Acknowledge, Acknowledged, Decide, Publish, Timer, ContextDone
<1>4. ASSUME NEW w \in Workers,
             \/ StaleClaim(w) \/ LeaseClaim(w) \/ ParkClaim(w) \/ DropClaim(w) \/ WorkerLost(w)
             \/ BrokerError(w) \/ Heartbeat(w)
      PROVE  Quiet
  BY <1>4 DEF StaleClaim, LeaseClaim, ParkClaim, DropClaim, WorkerLost, BrokerError, Heartbeat
<1>5. ASSUME NEW w \in Workers,
             StartWorker(w) \/ Receive(w) \/ ReceiveFails(w) \/ HandlerPanics(w) \/ StopWorker(w)
      PROVE  Quiet
  BY <1>5 DEF StartWorker, Receive, ReceiveFails, HandlerPanics, StopWorker
<1>6. ASSUME NEW w \in Workers,
             InvokeHandler(w) \/ \E res \in Results : HandlerReturns(w, res)
      PROVE  results' = results
  BY <1>6 DEF InvokeHandler, HandlerReturns
<1>7. ASSUME Result \/ \E w \in Workers : SendResult(w)
      PROVE  UNCHANGED <<invoked, proved>>
  BY <1>7, Zenon DEF Result, SendResult
<1>8. \A t \in Tasks : PassDeadline(t) => Quiet
  BY Zenon DEF PassDeadline
<1>9. \A m \in Known(broker) : AckWaitExpires(m) => Quiet
  BY DEF AckWaitExpires
<1>10. UNCHANGED vars => Quiet
  BY DEF vars
<1> QED BY <1>1, <1>2, <1>3, <1>4, <1>5, <1>6, <1>7, <1>8, <1>9, <1>10
        DEF Next, Proceed, Event, WorkerStep

\* The work invariant is preserved, and with it the types it needs.
LEMMA NextWork ==
  ASSUME IInv, [Next]_vars, Wrote(stored, stored')
  PROVE  WorkInv' /\ results' \in Seq(ResultType) /\ invoked' \in [Attempts -> Nat]
\* What is known of the results that are kept stays true.
<1>ResultsTenable.
      ASSUME IInv, Wrote(stored, stored'), ResultsStay, proved \subseteq proved'
      PROVE  ResultsTrue'
  <2> USE <1>ResultsTenable
  <2> SUFFICES ASSUME NEW i \in 1..Len(results')
               PROVE  LET m == results'[i].delivery.message
                      IN  /\ stored' # NoRun /\ Tenable(stored', results'[i].to, m[1], m[2])
                          /\ results'[i].result = "ok" => AttemptOf(m) \in proved'
    BY DEF ResultsTrue
  <2>1. PICK j \in 1..Len(results) : results'[i] = results[j]
    BY DEF ResultsStay
  <2> DEFINE m == results[j].delivery.message
  <2>2. /\ stored # NoRun /\ Tenable(stored, results[j].to, m[1], m[2])
        /\ results[j].result = "ok" => AttemptOf(m) \in proved
    BY Zenon DEF IInv, WorkInv, ResultsTrue
  <2>3. stored \in Run
    BY <2>2, Zenon DEF IInv, TypeInv
  <2>4. results[j] \in ResultType
    BY DEF IInv, TypeInv
  <2>5. m[1] \in Tasks /\ m[2] \in Nat
    BY <2>4, ClaimedTypes, Zenon DEF ResultType
  <2>6. stored' # NoRun /\ Tenable(stored', results[j].to, m[1], m[2])
    BY <2>2, <2>3, <2>5, Stable, Zenon
  <2> QED BY <2>1, <2>2, <2>6, Zenon
\* What is known of an executing worker stays true.
<1>WorkerTenable.
      ASSUME IInv, Wrote(stored, stored'), NEW w \in Workers, worker[w].pc \in Executing
      PROVE  /\ stored' # NoRun /\ Tenable(stored', w, Claimed(w)[1], Claimed(w)[2])
             /\ Claimed(w) \in Attempts
  <2> USE <1>WorkerTenable
  <2>1. stored # NoRun /\ Tenable(stored, w, Claimed(w)[1], Claimed(w)[2])
    BY DEF IInv, WorkInv
  <2>2. stored \in Run
    BY <2>1 DEF IInv, TypeInv
  <2>3. worker[w].delivery \in DeliveryType
    BY Zenon DEF IInv, TypeInv, WorkersOK, Holding, Executing
  <2>4. Claimed(w) \in Attempts /\ Claimed(w)[1] \in Tasks /\ Claimed(w)[2] \in Nat
    BY <2>3, ClaimedTypes DEF Claimed
  <2> QED BY <2>1, <2>2, <2>4, Stable, Zenon
\* An attempt that was started stays counted.
<1>InvokedCounted.
      ASSUME IInv, Wrote(stored, stored'), NEW a \in Attempts, invoked[a] # 0
      PROVE  stored' # NoRun /\ a[2] <= stored'.tasks[a[1]].attempts
  <2> USE <1>InvokedCounted
  <2>1. stored # NoRun /\ a[2] <= stored.tasks[a[1]].attempts
    BY DEF IInv, WorkInv
  <2>2. stored \in Run
    BY <2>1, Zenon DEF IInv, TypeInv
  <2> QED BY <2>1, <2>2, Stable, AttemptTypes, Zenon
\* A step in which nobody is given an attempt, and whose results are true.
<1>WorkStays.
      ASSUME IInv, Wrote(stored, stored'), Steady, ResultsTrue', UNCHANGED <<invoked, proved>>
      PROVE  WorkInv'
  <2> USE <1>WorkStays
  <2>1. ASSUME NEW w \in Workers, worker'[w].pc \in Executing
        PROVE  /\ worker[w].pc = worker'[w].pc /\ worker'[w].result = worker[w].result
               /\ Claimed(w)' = Claimed(w) /\ worker[w].pc \in Executing
    BY <2>1 DEF Steady, Claimed
  <2>2. \A w \in Workers : worker'[w].pc \in Executing =>
          stored' # NoRun /\ Tenable(stored', w, Claimed(w)'[1], Claimed(w)'[2])
    BY <2>1, <1>WorkerTenable, Zenon
  <2>3. \A w \in Workers : worker'[w].pc = "report" /\ worker'[w].result = "ok" => Claimed(w)' \in proved'
    BY <2>1, Zenon DEF IInv, WorkInv, Executing
  <2>4. \A a \in Attempts : invoked'[a] # 0 => stored' # NoRun /\ a[2] <= stored'.tasks[a[1]].attempts
    BY <1>InvokedCounted
  <2>5. \A w \in Workers : worker'[w].pc = "granted" => invoked'[Claimed(w)'] = 0
    BY <2>1, Zenon DEF IInv, WorkInv, Executing
  <2>6. \A w, v \in Workers : worker'[w].pc \in Executing /\ worker'[v].pc \in Executing /\ Claimed(w)' = Claimed(v)' => w = v
    BY <2>1, Zenon DEF IInv, WorkInv
  <2>7. AttemptRunsOnce'
    BY Zenon DEF IInv, WorkInv, AttemptRunsOnce
  <2> QED BY <2>2, <2>3, <2>4, <2>5, <2>6, <2>7, Zenon DEF WorkInv
\* What is known of the workers that do not turn.
<1>OthersStay.
      ASSUME IInv, NEW w \in Workers, NEW p, NEW d, NEW r, Turns(w, p, d, r),
             NEW v \in Workers \ {w}, Wrote(stored, stored')
      PROVE  /\ worker'[v] = worker[v] /\ Claimed(v)' = Claimed(v)
             /\ worker[v].pc \in Executing =>
                  /\ stored' # NoRun /\ Tenable(stored', v, Claimed(v)[1], Claimed(v)[2])
                  /\ Claimed(v) \in Attempts
  BY <1>OthersStay, <1>WorkerTenable DEF Turns, Claimed
\* An attempt is granted to nobody before its lease, which is saved here.
<1>WorkGranted.
      ASSUME IInv, NEW w \in Workers, LeaseClaim(w), pc' # "drain", Wrote(stored, stored')
      PROVE  WorkInv'
  <2> USE <1>WorkGranted
  <2> DEFINE t == Claimed(w)[1]
             n == Claimed(w)[2]
  <2>1. Turns(w, "granted", worker[w].delivery, worker[w].result)
    BY WorkerTurns
  <2>2. worker[w].delivery \in DeliveryType /\ pc = "select"
    BY Zenon DEF LeaseClaim, CanClaim, IInv, TypeInv, WorkersOK, Holding
  <2>3. Claimed(w) \in Attempts /\ t \in Tasks /\ n \in Nat /\ Claimed(w) = <<t, n>>
    BY <2>2, ClaimedTypes, AttemptTypes DEF Claimed
  <2>4. stored = run /\ run \in Run /\ run # NoRun
    BY <2>2, LoopHolds DEF Looping
  <2>5. stored.tasks[t].attempts \in Nat /\ n = stored.tasks[t].attempts + 1
    BY <2>3, <2>4 DEF LeaseClaim, NextAttempt, Run, TaskRun
  <2>6. stored' = StartTaskAttempt(run, t, w)
    BY DEF LeaseClaim, Shutdown, Saved
  <2>7. stored'.tasks[t].attempts = n /\ stored'.tasks[t].lease = w /\ stored' # NoRun
    <3>1. /\ StartTaskAttempt(run, t, w).tasks = [run.tasks EXCEPT ![t] = Leased(run.tasks[t], w)]
          /\ run.tasks \in [Tasks -> TaskRun]
      BY <2>4, Zenon DEF StartTaskAttempt, Run
    <3>2. Leased(run.tasks[t], w).attempts = n /\ Leased(run.tasks[t], w).lease = w
      BY <2>4, <2>5 DEF Leased
    <3>3. stored' # NoRun
      BY <2>3, <2>4, Stable, Zenon
    <3> QED BY <2>3, <2>6, <3>1, <3>2, <3>3
  <2> HIDE DEF t, n
  <2>8. /\ worker'[w].pc = "granted" /\ Claimed(w)' = Claimed(w)
        /\ worker'[w].pc # "report"
    BY <2>1 DEF Turns, Claimed
  <2>9. UNCHANGED <<invoked, proved, results>>
    BY Zenon DEF LeaseClaim, history
  <2>10. \A v \in Workers \ {w} :
           /\ worker'[v] = worker[v] /\ Claimed(v)' = Claimed(v)
           /\ worker[v].pc \in Executing =>
                /\ stored' # NoRun /\ Tenable(stored', v, Claimed(v)[1], Claimed(v)[2])
                /\ Claimed(v) \in Attempts
    BY <2>1, <1>OthersStay, Zenon
  <2>11. \A v \in Workers \ {w} : worker[v].pc \in Executing => Claimed(v) # Claimed(w)
    <3> SUFFICES ASSUME NEW v \in Workers \ {w}, worker[v].pc \in Executing, Claimed(v) = Claimed(w) PROVE FALSE
      OBVIOUS
    <3>1. Tenable(stored, v, Claimed(v)[1], Claimed(v)[2])
      BY Zenon DEF IInv, WorkInv
    <3>2. n <= stored.tasks[t].attempts
      BY <3>1, Zenon DEF Tenable, t, n
    <3> QED BY <2>3, <2>5, <3>2
  <2>12. invoked[Claimed(w)] = 0
    <3> SUFFICES ASSUME invoked[Claimed(w)] # 0 PROVE FALSE
      BY Zenon
    <3>1. Claimed(w)[2] <= stored.tasks[Claimed(w)[1]].attempts
      BY <2>3, Zenon DEF IInv, WorkInv
    <3>2. n <= stored.tasks[t].attempts
      BY <3>1, Zenon DEF t, n
    <3> QED BY <2>3, <2>5, <3>2
  <2>13. Tenable(stored', w, Claimed(w)'[1], Claimed(w)'[2])
    BY <2>3, <2>7, <2>8 DEF Tenable, t, n
  <2>14. \A v \in Workers : worker'[v].pc \in Executing =>
          stored' # NoRun /\ Tenable(stored', v, Claimed(v)'[1], Claimed(v)'[2])
    BY <2>7, <2>10, <2>13
  <2>15. ResultsTrue'
    <3>1. ResultsStay
      BY <2>9 DEF ResultsStay, IInv, TypeInv
    <3> QED BY <2>9, <3>1, <1>ResultsTenable
  <2>16. \A v \in Workers : worker'[v].pc = "report" /\ worker'[v].result = "ok" => Claimed(v)' \in proved'
    BY <2>8, <2>9, <2>10, Zenon DEF IInv, WorkInv
  <2>17. \A a \in Attempts : invoked'[a] # 0 => stored' # NoRun /\ a[2] <= stored'.tasks[a[1]].attempts
    BY <2>9, <1>InvokedCounted, Zenon
  <2>18. \A v \in Workers : worker'[v].pc = "granted" => invoked'[Claimed(v)'] = 0
    BY <2>8, <2>9, <2>10, <2>12, Zenon DEF IInv, WorkInv
  <2>19. \A u, v \in Workers : worker'[u].pc \in Executing /\ worker'[v].pc \in Executing /\ Claimed(u)' = Claimed(v)' => u = v
    <3>1. \A u, v \in Workers : worker[u].pc \in Executing /\ worker[v].pc \in Executing /\ Claimed(u) = Claimed(v) => u = v
      BY Zenon DEF IInv, WorkInv
    <3> QED BY <2>8, <2>10, <2>11, <3>1
  <2>20. AttemptRunsOnce'
    <3>1. AttemptRunsOnce
      BY Zenon DEF IInv, WorkInv
    <3> QED BY <2>9, <3>1 DEF AttemptRunsOnce
  <2> QED BY <2>14, <2>15, <2>16, <2>17, <2>18, <2>19, <2>20, Zenon DEF WorkInv
\* The handler of an attempt is called once, by the worker it was granted to.
<1>WorkInvoked.
      ASSUME IInv, NEW w \in Workers, InvokeHandler(w), Wrote(stored, stored')
      PROVE  WorkInv'
  <2> USE <1>WorkInvoked
  <2>1. Turns(w, "exec", worker[w].delivery, worker[w].result)
    BY WorkerTurns, Zenon
  <2>2. worker[w].pc = "granted" /\ worker[w].pc \in Executing
    BY Zenon DEF InvokeHandler, Executing
  <2>3. /\ stored' # NoRun /\ Tenable(stored', w, Claimed(w)[1], Claimed(w)[2])
        /\ Claimed(w) \in Attempts
    BY <2>2, <1>WorkerTenable, Zenon
  <2>4. worker'[w].pc = "exec" /\ Claimed(w)' = Claimed(w)
    BY <2>1 DEF Turns, Claimed
  <2>5. UNCHANGED <<proved, results>> /\ invoked' = [invoked EXCEPT ![Claimed(w)] = @ + 1]
    BY DEF InvokeHandler
  <2>6. invoked \in [Attempts -> Nat] /\ invoked[Claimed(w)] = 0
    BY <2>2, Zenon DEF IInv, TypeInv, WorkInv
  <2>7. invoked'[Claimed(w)] = 1 /\ \A a \in Attempts \ {Claimed(w)} : invoked'[a] = invoked[a]
    BY <2>3, <2>5, <2>6
  <2>8. \A v \in Workers \ {w} :
          /\ worker'[v] = worker[v] /\ Claimed(v)' = Claimed(v)
          /\ worker[v].pc \in Executing =>
               /\ stored' # NoRun /\ Tenable(stored', v, Claimed(v)[1], Claimed(v)[2])
               /\ Claimed(v) \in Attempts
    BY <2>1, <1>OthersStay, Zenon
  <2>9. \A v \in Workers \ {w} : worker[v].pc \in Executing => Claimed(v) # Claimed(w)
    BY <2>2, Zenon DEF IInv, WorkInv
  <2>10. \A v \in Workers : worker'[v].pc \in Executing =>
          stored' # NoRun /\ Tenable(stored', v, Claimed(v)'[1], Claimed(v)'[2])
    BY <2>3, <2>4, <2>8, Zenon
  <2>11. ResultsTrue'
    <3>1. ResultsStay
      BY <2>5 DEF ResultsStay, IInv, TypeInv
    <3> QED BY <2>5, <3>1, <1>ResultsTenable
  <2>12. \A v \in Workers : worker'[v].pc = "report" /\ worker'[v].result = "ok" => Claimed(v)' \in proved'
    BY <2>4, <2>5, <2>8, Zenon DEF IInv, WorkInv
  <2>13. \A a \in Attempts : invoked'[a] # 0 => stored' # NoRun /\ a[2] <= stored'.tasks[a[1]].attempts
    BY <2>3, <2>7, <1>InvokedCounted, Zenon DEF Tenable
  <2>14. \A v \in Workers : worker'[v].pc = "granted" => invoked'[Claimed(v)'] = 0
    <3> SUFFICES ASSUME NEW v \in Workers, worker'[v].pc = "granted" PROVE invoked'[Claimed(v)'] = 0
      BY Zenon
    <3>1. v # w
      BY <2>4, Zenon
    <3>2. worker[v].pc = "granted" /\ Claimed(v)' = Claimed(v)
      BY <2>8, <3>1, Zenon
    <3>3. Claimed(v) # Claimed(w) /\ Claimed(v) \in Attempts
      BY <2>8, <2>9, <3>1, <3>2 DEF Executing
    <3> QED BY <2>7, <3>2, <3>3, Zenon DEF IInv, WorkInv
  <2>15. \A u, v \in Workers : worker'[u].pc \in Executing /\ worker'[v].pc \in Executing /\ Claimed(u)' = Claimed(v)' => u = v
    BY <2>4, <2>8, <2>9, Zenon DEF IInv, WorkInv
  <2>16. AttemptRunsOnce'
    <3>1. AttemptRunsOnce
      BY Zenon DEF IInv, WorkInv
    <3> QED BY <2>7, <3>1 DEF AttemptRunsOnce
  <2> QED BY <2>10, <2>11, <2>12, <2>13, <2>14, <2>15, <2>16, Zenon DEF WorkInv
\* A handler's success is remembered with its attempt.
<1>WorkReturned.
      ASSUME IInv, NEW w \in Workers, NEW res \in Results, HandlerReturns(w, res), Wrote(stored, stored')
      PROVE  WorkInv'
  <2> USE <1>WorkReturned
  <2>1. Turns(w, "report", worker[w].delivery, res)
    BY WorkerTurns
  <2>2. worker[w].pc \in Executing
    BY DEF HandlerReturns, Executing
  <2>3. /\ stored' # NoRun /\ Tenable(stored', w, Claimed(w)[1], Claimed(w)[2])
        /\ Claimed(w) \in Attempts
    BY <2>2, <1>WorkerTenable, Zenon
  <2>4. worker'[w].pc = "report" /\ worker'[w].result = res /\ Claimed(w)' = Claimed(w)
    BY <2>1 DEF Turns, Claimed
  <2>5. /\ UNCHANGED <<invoked, results>> /\ proved \subseteq proved'
        /\ res = "ok" => Claimed(w) \in proved'
    BY DEF HandlerReturns
  <2>8. \A v \in Workers \ {w} :
          /\ worker'[v] = worker[v] /\ Claimed(v)' = Claimed(v)
          /\ worker[v].pc \in Executing =>
               /\ stored' # NoRun /\ Tenable(stored', v, Claimed(v)[1], Claimed(v)[2])
               /\ Claimed(v) \in Attempts
    BY <2>1, <1>OthersStay, Zenon
  <2>9. \A v \in Workers \ {w} : worker[v].pc \in Executing => Claimed(v) # Claimed(w)
    BY <2>2, Zenon DEF IInv, WorkInv
  <2>10. \A v \in Workers : worker'[v].pc \in Executing =>
          stored' # NoRun /\ Tenable(stored', v, Claimed(v)'[1], Claimed(v)'[2])
    BY <2>3, <2>4, <2>8, Zenon
  <2>11. ResultsTrue'
    <3>1. ResultsStay
      BY <2>5 DEF ResultsStay, IInv, TypeInv
    <3> QED BY <2>5, <3>1, <1>ResultsTenable
  <2>12. \A v \in Workers : worker'[v].pc = "report" /\ worker'[v].result = "ok" => Claimed(v)' \in proved'
    BY <2>4, <2>5, <2>8, Zenon DEF IInv, WorkInv
  <2>13. \A a \in Attempts : invoked'[a] # 0 => stored' # NoRun /\ a[2] <= stored'.tasks[a[1]].attempts
    BY <2>5, <1>InvokedCounted, Zenon
  <2>14. \A v \in Workers : worker'[v].pc = "granted" => invoked'[Claimed(v)'] = 0
    BY <2>4, <2>5, <2>8, Zenon DEF IInv, WorkInv
  <2>15. \A u, v \in Workers : worker'[u].pc \in Executing /\ worker'[v].pc \in Executing /\ Claimed(u)' = Claimed(v)' => u = v
    BY <2>4, <2>8, <2>9, Zenon DEF IInv, WorkInv
  <2>16. AttemptRunsOnce'
    BY <2>5, Zenon DEF IInv, WorkInv, AttemptRunsOnce
  <2> QED BY <2>10, <2>11, <2>12, <2>13, <2>14, <2>15, <2>16, Zenon DEF WorkInv
\* The results are kept, taken from the front or sent by the worker they are of.
<1>ResultsKept.
      ASSUME IInv, [Next]_vars, Wrote(stored, stored')
      PROVE  results' \in Seq(ResultType) /\ (UNCHANGED <<invoked, proved>> => ResultsTrue')
  <2> USE <1>ResultsKept
  <2>1. results \in Seq(ResultType) /\ WorkersOK(worker)
    BY DEF IInv, TypeInv
  <2>2. CASE results' = results \/ results' = <<>>
    <3>1. CASE results' = results
      BY <2>1, <3>1, <1>ResultsTenable, Zenon DEF ResultsStay
    <3>2. CASE results' = <<>>
      <4>1. results' \in Seq(ResultType) /\ Len(results') = 0
        BY <3>2
      <4>2. 1..Len(results') = {}
        BY <4>1
      <4> QED BY <4>1, <4>2 DEF ResultsTrue
    <3> QED BY <2>2, <3>1, <3>2
  <2>3. CASE Result
    <3>1. results # <<>> /\ results' = Tail(results)
      BY <2>3, Zenon DEF Result
    <3>2. ResultsStay
      BY <2>1, <3>1 DEF ResultsStay
    <3> QED BY <3>2, <1>ResultsTenable DEF ResultsStay
  <2>4. ASSUME NEW w \in Workers, SendResult(w)
        PROVE  results' \in Seq(ResultType) /\ (UNCHANGED <<invoked, proved>> => ResultsTrue')
    <3> DEFINE k == [to |-> w, delivery |-> worker[w].delivery, result |-> worker[w].result]
    <3>1. results' = Append(results, k) /\ worker[w].pc = "report" /\ worker[w].pc \in Executing
      BY <2>4 DEF SendResult, Executing
    <3>2. k \in ResultType
      BY <2>1, <3>1 DEF WorkersOK, Holding, ResultType
    <3>3. k.to = w /\ k.result = worker[w].result /\ k.delivery.message = worker[w].delivery.message
      BY Zenon
    <3>4. k.delivery \in DeliveryType
      BY <3>2, Zenon DEF ResultType
    <3> HIDE DEF k
    <3>5. results' \in Seq(ResultType)
      BY <2>1, <3>1, <3>2
    <3>6. ASSUME UNCHANGED <<invoked, proved>>, NEW i \in 1..Len(results')
          PROVE  LET m == results'[i].delivery.message
                 IN  /\ stored' # NoRun /\ Tenable(stored', results'[i].to, m[1], m[2])
                     /\ results'[i].result = "ok" => AttemptOf(m) \in proved'
      <4>1. CASE i \in 1..Len(results)
        <5> DEFINE m == results[i].delivery.message
        <5>1. results'[i] = results[i] /\ results[i] \in ResultType
          BY <2>1, <3>1, <4>1
        <5>2. /\ stored # NoRun /\ Tenable(stored, results[i].to, m[1], m[2])
              /\ results[i].result = "ok" => AttemptOf(m) \in proved
          BY <4>1, Zenon DEF IInv, WorkInv, ResultsTrue
        <5>3. stored \in Run
          BY <5>2, Zenon DEF IInv, TypeInv
        <5>4. m[1] \in Tasks /\ m[2] \in Nat
          BY <5>1, ClaimedTypes, Zenon DEF ResultType
        <5>5. stored' # NoRun /\ Tenable(stored', results[i].to, m[1], m[2])
          BY <5>2, <5>3, <5>4, Stable, Zenon
        <5> QED BY <3>6, <5>1, <5>2, <5>5
      <4>2. CASE i \notin 1..Len(results)
        <5>1. results'[i] = k
          BY <2>1, <3>1, <3>6, <4>2
        <5>2. stored' # NoRun /\ Tenable(stored', w, Claimed(w)[1], Claimed(w)[2])
          BY <3>1, <1>WorkerTenable
        <5>3. k.result = "ok" => Claimed(w) \in proved
          BY <3>1, <3>3, Zenon DEF IInv, WorkInv
        <5>4. /\ Claimed(w) = AttemptOf(k.delivery.message)
              /\ Claimed(w)[1] = k.delivery.message[1] /\ Claimed(w)[2] = k.delivery.message[2]
          BY <3>3, <3>4, ClaimedTypes, Zenon DEF Claimed
        <5> QED BY <3>3, <3>6, <5>1, <5>2, <5>3, <5>4
      <4> QED BY <4>1, <4>2, Zenon
    <3> QED BY <3>5, <3>6 DEF ResultsTrue
  <2> QED BY <2>2, <2>3, <2>4, Frame
<1>1. ASSUME \E w \in Workers : \/ LeaseClaim(w) /\ pc' # "drain"
                              \/ InvokeHandler(w) \/ \E res \in Results : HandlerReturns(w, res)
      PROVE  WorkInv'
  BY <1>1, <1>WorkGranted, <1>WorkInvoked, <1>WorkReturned
<1>2. ASSUME /\ Calm(worker, worker') \/ \E w \in Workers : Receive(w)
           /\ ~ \E w \in Workers : \/ LeaseClaim(w) /\ pc' # "drain"
                                   \/ InvokeHandler(w) \/ \E res \in Results : HandlerReturns(w, res)
      PROVE  WorkInv'
  <2>1. UNCHANGED <<invoked, proved>>
    BY <1>2, Frame
  <2>2. ResultsTrue'
    BY <2>1, <1>ResultsKept, Zenon
  <2>3. Calm(worker, worker') => Steady
    BY Zenon DEF Calm, Steady, Executing, Holding
  <2>4. ASSUME NEW w \in Workers, Receive(w) PROVE Steady
    <3>1. Turns(w, "claim", Delivery(broker), worker[w].result)
      BY <2>4, WorkerTurns
    <3> QED BY <3>1 DEF Turns, Steady, Executing
  <2>5. Steady
    BY <1>2, <2>3, <2>4
  <2> QED BY <2>1, <2>2, <2>5, <1>WorkStays
<1>3. WorkInv'
  BY <1>1, <1>2, StepKinds
<1>4. invoked' \in [Attempts -> Nat]
  <2>0. invoked \in [Attempts -> Nat]
    BY DEF IInv, TypeInv
  <2>1. ASSUME NEW w \in Workers, InvokeHandler(w) PROVE invoked' \in [Attempts -> Nat]
    <3>1. worker[w].pc \in Holding /\ invoked' = [invoked EXCEPT ![Claimed(w)] = @ + 1]
      BY <2>1 DEF InvokeHandler, Holding
    <3>2. worker[w].delivery \in DeliveryType
      BY <3>1, Zenon DEF IInv, TypeInv, WorkersOK
    <3>3. Claimed(w) \in Attempts
      BY <3>2, ClaimedTypes DEF Claimed
    <3> QED BY <2>0, <3>1, <3>3
  <2>2. ASSUME NEW w \in Workers, NEW res \in Results, HandlerReturns(w, res) PROVE invoked' = invoked
    BY <2>2 DEF HandlerReturns
  <2> QED BY <2>0, <2>1, <2>2, Frame
<1> QED BY <1>3, <1>4, <1>ResultsKept, Zenon

------------------------------------------------------------------------------
(* Where a call is.                                                        *)

TypeCore ==
  /\ stored \in Run \cup {NoRun} /\ run \in Run \cup {NoRun}
  /\ pc \in Outside \cup Opening \cup Looping \cup {"drain"}
  /\ after \in {"none", "decide", "top", "fail", "cancel", "succeed", "stall", "return"}

Core == TypeCore /\ FlowInv /\ PlanInv /\ BooksInv

StoredOK ==
  /\ stored \in Run \cup {NoRun}
  /\ stored # NoRun => /\ Bounded(stored) /\ Earned(stored)
                       /\ stored.status = "pending" => \A t \in Tasks : stored.tasks[t].status = "pending"

PublishedKnown == \A a \in published : a \in Attempts /\ Copy(a, 1) \in Known(broker)

\* The first write is that of a new run.
LEMMA FirstWrite ==
  ASSUME IInv, [Next]_vars, stored = NoRun
  PROVE  stored' \in {NoRun, NewWorkflowRun}
<1>1. pc \in Outside /\ run = NoRun
  BY Zenon DEF IInv, FlowInv
<1>2. \A t \in Tasks : ~PassDeadline(t)
  BY <1>1 DEF PassDeadline
<1>3. Execute => stored' = NewWorkflowRun
  BY DEF Execute
<1>4. ~Recover /\ (Cancel \/ Crash => UNCHANGED stored)
  BY DEF Recover, Cancel, Crash
<1>5. ~Proceed
  BY <1>1, Zenon DEF Outside, Proceed, Start, Load, Resume, CheckContext, Prepare, Drained, TopCanceled,
              RecoverDue, Acknowledge, Acknowledged, Decide, Publish
<1>6. ~Event /\ \A w \in Workers : ~Heartbeat(w)
  BY <1>1, Zenon DEF Outside, Event, Result, Timer, ContextDone, StaleClaim, LeaseClaim, ParkClaim, DropClaim,
              CanClaim, WorkerLost, BrokerError, Heartbeat
<1>7. ASSUME NEW w \in Workers, WorkerStep(w) PROVE UNCHANGED stored
  BY <1>7 DEF WorkerStep, StartWorker, Receive, ReceiveFails, InvokeHandler, HandlerReturns,
              HandlerPanics, SendResult, StopWorker, scheduler
<1>8. \A m \in Known(broker) : AckWaitExpires(m) => UNCHANGED stored
  BY DEF AckWaitExpires, scheduler
<1> QED BY <1>2, <1>3, <1>4, <1>5, <1>6, <1>7, <1>8, Zenon DEF Next, vars

\* What is stored stays well-formed if its successes are earned.
LEMMA StoredStays ==
  ASSUME IInv, [Next]_vars, stored' # NoRun => Earned(stored)'
  PROVE  StoredOK'
<1>1. Wrote(stored, stored') /\ stored \in Run \cup {NoRun}
  BY EveryStepWrites, Zenon DEF IInv, TypeInv
<1>2. CASE stored = NoRun
  <2>1. stored' \in {NoRun, NewWorkflowRun}
    BY <1>2, FirstWrite
  <2> QED BY <2>1, NewRunType, NewRunBounded DEF StoredOK, NewTaskRun
<1>3. CASE stored \in Run /\ stored # NoRun
  <2>1. stored' \in Run /\ Bounded(stored')
    BY <1>1, <1>3, WroteFacts, BoundedStays, Zenon DEF IInv, PlanInv
  <2>2. ASSUME stored'.status = "pending" PROVE \A t \in Tasks : stored'.tasks[t].status = "pending"
    <3>1. stored.status = "pending"
      BY <1>1, <1>3, <2>2, WroteStatus DEF TerminalRun
    <3>2. ~ProgressWrite(stored, stored') /\ ~FinishWrite(stored, stored')
      BY <2>2, Zenon DEF ProgressWrite, FinishWrite, TerminalRun
    <3>3. \A t \in Tasks : SameTask(stored, stored', t)
      BY <1>1, <1>3, <3>2, LateFacts DEF Wrote, SameTask
    <3> QED BY <1>3, <3>1, <3>3 DEF IInv, FlowInv, SameTask
  <2> QED BY <1>3, <2>1, <2>2 DEF StoredOK
<1> QED BY <1>1, <1>2, <1>3

\* Whatever was published in this call is with the broker.
LEMMA PublishedStays ==
  ASSUME IInv, [Next]_vars
  PROVE  PublishedKnown'
<1>0. PublishedKnown
  BY Zenon DEF IInv, BooksInv, PublishedKnown
<1>1. Known(broker) \subseteq Known(broker') \/ Crash
  BY BrokerKinds DEF Moves, Published, Grows, Acked, Acks, Forgot
<1>2. CASE published' = {}
  BY <1>2 DEF PublishedKnown
<1>3. CASE UNCHANGED published /\ ~Crash
  BY <1>0, <1>1, <1>3 DEF PublishedKnown
<1>4. CASE Publish /\ ~UNCHANGED published
  <2>0. PICK t \in Unpublished(published) :
          /\ pc = "publish" /\ published' = published \cup {NextAttempt(t)}
          /\ PublishAttempt(NextAttempt(t)) /\ ~Crash
    BY <1>4 DEF Publish, Crash
  <2> DEFINE a == NextAttempt(t)
  <2>1. pc = "publish" /\ published' = published \cup {a} /\ PublishAttempt(a) /\ ~Crash
    BY <2>0
  <2>2. a \in Attempts
    BY <2>1, NextPublication
  <2>3. broker' = PublishTo(broker, Copy(a, 1)) \/ Copy(a, 1) \in Known(broker)
    BY <2>1 DEF PublishAttempt
  <2>4. 1 \in 1..MaxExpiries + 1
    BY EngineAssumption
  <2> HIDE DEF a
  <2>5. Copy(a, 1) \in Known(broker')
    <3>1. Copy(a, 1) \in Copies
      BY <2>2, <2>4, CopyFacts
    <3>2. Grows(broker, PublishTo(broker, Copy(a, 1)), Copy(a, 1))
      BY <3>1, PublishFacts DEF IInv, TypeInv
    <3>3. CASE broker' = PublishTo(broker, Copy(a, 1))
      BY <3>2, <3>3 DEF Grows
    <3>4. CASE Copy(a, 1) \in Known(broker)
      BY <1>1, <2>1, <3>4
    <3> QED BY <2>3, <3>3, <3>4
  <2> QED BY <1>0, <1>1, <2>1, <2>2, <2>5, Zenon DEF PublishedKnown
<1> DEFINE Kept == UNCHANGED published \/ published' = {}
<1>5. Execute \/ Start \/ Recover \/ Load \/ Resume \/ CheckContext \/ Prepare \/ Drained \/ Cancel => Kept
  BY Zenon DEF Execute, Start, Recover, Load, Resume, CheckContext, Prepare, Drained, Cancel, loop, books,
         Return, LocalReset, FinishWith
<1>6. Crash => published' = {}
  BY DEF Crash, LocalReset
<1>7. TopCanceled \/ RecoverDue \/ Acknowledge \/ Acknowledged \/ Decide \/ Timer \/ ContextDone \/ Result => Kept
  BY Zenon DEF TopCanceled, RecoverDue, Acknowledge, Acknowledged, Decide, Timer, ContextDone, Result, books
<1>8. ASSUME NEW w \in Workers,
             \/ StaleClaim(w) \/ LeaseClaim(w) \/ ParkClaim(w) \/ DropClaim(w) \/ WorkerLost(w)
             \/ BrokerError(w) \/ Heartbeat(w)
      PROVE  Kept
  BY <1>8 DEF StaleClaim, LeaseClaim, ParkClaim, DropClaim, WorkerLost, BrokerError, Heartbeat, books
<1>9. ASSUME NEW w \in Workers, WorkerStep(w) PROVE Kept
  BY <1>9, Zenon DEF WorkerStep, StartWorker, Receive, ReceiveFails, InvokeHandler, HandlerReturns,
              HandlerPanics, SendResult, StopWorker, scheduler, books
<1>10. \A t \in Tasks : PassDeadline(t) => Kept
  BY DEF PassDeadline, loop, books
<1>11. \A m \in Known(broker) : AckWaitExpires(m) => Kept
  BY DEF AckWaitExpires, scheduler, books
<1>12. UNCHANGED vars => Kept
  BY DEF vars, books
<1>13. Kept \/ Publish
  BY <1>5, <1>6, <1>7, <1>8, <1>9, <1>10, <1>11, <1>12 DEF Next, Proceed, Event
<1> QED BY <1>2, <1>3, <1>4, <1>6, <1>13

\* A call that returns, and a process that dies, hold nothing.
LEMMA ReturnCore ==
  ASSUME StoredOK', LocalReset, pc' \in Outside
  PROVE  Core'
<1>1. /\ run' = NoRun /\ after' = "none" /\ published' = {} /\ pending' = <<>> /\ acks' = <<>>
      /\ results' = <<>> /\ \A w \in Workers : worker'[w] = Off
  BY DEF LocalReset
<1>2. /\ pc' \in {"idle", "returned"}
      /\ pc' \notin Opening /\ pc' \notin Looping /\ pc' # "drain"
      /\ pc' \notin {"check", "prepare", "drain"} /\ pc' \notin {"check", "prepare"}
  BY Zenon DEF Outside, Opening, Looping
<1>3. TypeCore'
  BY <1>1, <1>2, Zenon DEF TypeCore, StoredOK, Outside
<1>4. FlowInv'
  BY <1>1, <1>2, Zenon DEF FlowInv, StoredOK, Outside, Looping
<1>5. PlanInv'
  BY <1>1, <1>2 DEF PlanInv, StoredOK, Looping
<1>6. BooksInv'
  BY <1>1, <1>2 DEF BooksInv, Looping
<1> QED BY <1>3, <1>4, <1>5, <1>6 DEF Core

\* A call that has not reached its loop has started nobody.
LEMMA OpeningCore ==
  ASSUME IInv, StoredOK', pc \in Outside \cup Opening, UNCHANGED loop, pc' \in Opening,
         stored' # NoRun, pc' = "load" => run' = NoRun /\ stored'.status \in {"pending", "running"},
         pc' # "load" => run' = stored' /\ run'.status \in {"pending", "running"},
         pc' = "start" => stored'.status = "pending",
         pc' \in {"check", "prepare"} =>
           run'.status = "running" /\ ~HasTask(run', "failed") /\ ~HasTask(run', "canceled")
  PROVE  Core'
<1>1. /\ after' = "none" /\ published' = {} /\ pending' = <<>> /\ acks' = <<>>
      /\ results' = <<>> /\ \A w \in Workers : worker'[w] = Off
  BY DEF IInv, FlowInv, loop, books
<1>2. /\ pc' \in {"start", "load", "resume", "check", "prepare"}
      /\ pc' \notin Outside /\ pc' \notin Looping /\ pc' # "drain"
  BY Zenon DEF Outside, Opening, Looping
<1>3. stored' \in Run /\ run' \in Run \cup {NoRun} /\ (pc' # "load" => run' \in Run /\ run' # NoRun)
  BY <1>2 DEF StoredOK
<1>4. TypeCore'
  BY <1>1, <1>2, <1>3, Zenon DEF TypeCore, Opening
<1>5. FlowInv'
  BY <1>1, <1>2, <1>3, Zenon DEF FlowInv, StoredOK, Outside, Looping
<1>6. PlanInv'
  BY <1>1, <1>2, <1>3 DEF PlanInv, StoredOK, Looping, Earned
<1>7. BooksInv'
  BY <1>1, <1>2 DEF BooksInv, Looping
<1> QED BY <1>4, <1>5, <1>6, <1>7, Zenon DEF Core

\* A call that waits for its workers.
LEMMA DrainCore ==
  ASSUME StoredOK', PublishedKnown', pc' = "drain",
         stored' # NoRun, stored'.status = "running",
         run' \in Run, run'.status = "running", Bounded(run)', Earned(run)',
         after' \in {"cancel", "succeed", "fail", "return"},
         after' \in {"cancel", "succeed"} => stored' = run',
         after' = "fail" => Behind(stored', run')
  PROVE  Core'
<1>1. pc' \notin Outside /\ pc' \notin Opening /\ pc' \notin Looping
  BY DEF Outside, Opening, Looping
<1>2. run' # NoRun
  BY DefinitionAssumption, Zenon
<1>3. TypeCore'
  BY Zenon DEF TypeCore, StoredOK
<1>4. FlowInv'
  BY <1>1, <1>2 DEF FlowInv, StoredOK
<1>5. PlanInv'
  BY <1>1, Zenon DEF PlanInv, StoredOK
<1>6. BooksInv'
  BY <1>1 DEF BooksInv, PublishedKnown
<1> QED BY <1>3, <1>4, <1>5, <1>6 DEF Core

\* A call in its loop.
LEMMA LoopCore ==
  ASSUME StoredOK', PublishedKnown', pc' \in Looping,
         run' \in Run, stored' = run', run'.status = "running",
         pc' # "ack" => after' = "none",
         pc' = "ack" => after' \in {"decide", "top", "fail"},
         after' # "fail" => ~HasTask(run', "failed") /\ ~HasTask(run', "canceled"),
         NewReady(run') = {}, ready' = ReadyTasks(run'), inFlight' = RunningAttempts(run'),
         pc' = "publish" => Unpublished(published)' # {},
         pc' = "select" => Unpublished(published)' = {}
  PROVE  Core'
<1>1. /\ pc' \notin Outside /\ pc' \notin Opening /\ pc' # "drain"
      /\ pc' \notin {"check", "prepare"} /\ pc' # "load" /\ pc' # "start"
  BY DEF Outside, Opening, Looping
<1>2. run' # NoRun
  BY DefinitionAssumption
<1>3. TypeCore'
  BY Zenon DEF TypeCore, StoredOK
<1>4. FlowInv'
  BY <1>1, <1>2, Zenon DEF FlowInv, StoredOK
<1>5. PlanInv'
  BY <1>1, <1>2, Zenon DEF PlanInv, StoredOK, Earned
<1>6. BooksInv'
  BY DEF BooksInv, PublishedKnown
<1> QED BY <1>3, <1>4, <1>5, <1>6 DEF Core

\* None of these lets a task succeed.
LEMMA SuccessesStay ==
  ASSUME NEW r \in Run, Earned(r)
  PROVE  /\ \A st \in RunStatuses : /\ Earned(TransitionWorkflow(CancelUnfinished(r), st))
                                    /\ Earned(TransitionWorkflow(r, st))
         /\ Earned(MarkNewReady(r))
         /\ Earned(PromoteDueRetries(RecoverExpiredLeases(r)))
         /\ \A w \in Workers : Earned(RecordWorkerHeartbeat(r, w))
         /\ \A t \in Tasks, w \in Workers : Earned(StartTaskAttempt(r, t, w))
         /\ \A t \in Tasks : Earned(Late(r, t))
<1>1. ASSUME NEW st \in RunStatuses
      PROVE  /\ Earned(TransitionWorkflow(CancelUnfinished(r), st))
             /\ Earned(TransitionWorkflow(r, st))
  <2>1. CancelUnfinished(r) \in Run /\ NoSuccess(r, CancelUnfinished(r))
    BY CancelUnfinishedEdges DEF NoSuccess, SameTask, CancelEdge
  <2>2. Earned(CancelUnfinished(r))
    BY <2>1, EarnedStays, Zenon
  <2>3. ASSUME NEW x \in Run, Earned(x) PROVE Earned(TransitionWorkflow(x, st))
    BY <2>3, WithStatus DEF Earned, Completed
  <2> QED BY <2>1, <2>2, <2>3, Zenon
<1>2. Earned(MarkNewReady(r))
  <2>1. NoSuccess(r, MarkNewReady(r))
    BY MarkNewReadyEdges DEF NoSuccess, SameTask, UnlockEdge
  <2> QED BY <2>1, EarnedStays, Zenon
<1>3. Earned(PromoteDueRetries(RecoverExpiredLeases(r)))
  <2>1. NoSuccess(r, PromoteDueRetries(RecoverExpiredLeases(r)))
    BY DueFacts, Zenon DEF DueMoves, NoSuccess, PromoteEdge
  <2> QED BY <2>1, EarnedStays
<1>4. ASSUME NEW w \in Workers PROVE Earned(RecordWorkerHeartbeat(r, w))
  BY DEF RecordWorkerHeartbeat, Earned, Completed, Run
<1>5. ASSUME NEW t \in Tasks, NEW w \in Workers PROVE Earned(StartTaskAttempt(r, t, w))
  <2> DEFINE a == StartTaskAttempt(r, t, w)
  <2>1. a.tasks = [r.tasks EXCEPT ![t] = Leased(r.tasks[t], w)] /\ r.tasks \in [Tasks -> TaskRun]
    BY Zenon DEF StartTaskAttempt, Run
  <2>2. Leased(r.tasks[t], w).status = "running"
    BY DEF Leased
  <2> HIDE DEF a
  <2>3. NoSuccess(r, a)
    BY <2>1, <2>2, Zenon DEF NoSuccess, SameTask
  <2> QED BY <2>3, EarnedStays DEF a
<1>6. ASSUME NEW t \in Tasks PROVE Earned(Late(r, t))
  <2>1. NoSuccess(r, Late(r, t))
    BY LateFacts DEF NoSuccess
  <2> QED BY <2>1, EarnedStays, Zenon
<1> QED BY <1>1, <1>2, <1>3, <1>4, <1>5, <1>6

\* What is written or held with earned successes has them earned after the step.
LEMMA EarnedNext ==
  ASSUME [Next]_vars
  PROVE  /\ \A r : Earned(r) /\ stored' = r => Earned(stored)'
         /\ \A r : Earned(r) /\ run' = r => Earned(run)'
\* A handler's success is never forgotten.
<1>ProvedGrows.
      ASSUME [Next]_vars
      PROVE  proved \subseteq proved' /\ \A r : Earned(r) => \A t \in Completed(r) : <<t, r.tasks[t].attempts>> \in proved'
  <2> USE <1>ProvedGrows
  <2>1. proved \subseteq proved'
    BY Frame, Zenon DEF InvokeHandler, HandlerReturns
  <2> QED BY <2>1 DEF Earned
<1> QED BY <1>ProvedGrows DEF Earned

\* What a call holds before and in its loop.
LEMMA OpenHolds ==
  ASSUME IInv, pc \in (Opening \ {"load"}) \cup Looping
  PROVE  stored = run /\ run \in Run /\ run # NoRun /\ Bounded(run) /\ Earned(run)
<1>1. pc \notin Outside
  BY DEF Opening, Looping, Outside
<1>2. stored = run /\ run # NoRun
  BY <1>1 DEF IInv, FlowInv
<1> QED BY <1>2 DEF IInv, TypeInv, PlanInv

\* A call that returns with its last save, or without.
LEMMA FinishCore ==
  ASSUME IInv, [Next]_vars, Return,
         stored' = stored \/ \E x : Earned(x) /\ stored' = x
  PROVE  Core'
<1>1. stored # NoRun => Earned(stored)
  BY DEF IInv, PlanInv
<1>2. stored' # NoRun => Earned(stored)'
  BY <1>1, EarnedNext
<1>3. StoredOK'
  BY <1>2, StoredStays
<1> QED BY <1>3, ReturnCore DEF Return, Outside

\* A save or its error leaves what was stored or the aggregate.
LEMMA SaveStores ==
  ASSUME NEW r, Saved(r) \/ SaveError(r)
  PROVE  stored' \in {stored, r}
BY DEF Saved, SaveError

\* The beginning of a call, and of a recovery.
LEMMA BeginCore ==
  ASSUME IInv, [Next]_vars, Execute \/ Recover \/ Load \/ Start
  PROVE  Core'
<1>1. CASE Execute
  <2>1. /\ stored' = NewWorkflowRun /\ run' = NewWorkflowRun /\ pc' = "start" /\ UNCHANGED loop /\ pc \in Outside
    BY <1>1, Zenon DEF Execute, Outside
  <2>2. stored' \in Run /\ stored'.status = "pending" /\ stored' # NoRun
    BY <2>1, NewRunType, DefinitionAssumption
  <2>3. Earned(NewWorkflowRun)
    BY NewRunBounded DEF Earned
  <2>4. StoredOK'
    BY <2>1, <2>3, EarnedNext, StoredStays
  <2> QED BY <2>1, <2>2, <2>4, OpeningCore DEF Opening
<1>2. CASE Recover
  <2>1. /\ stored' = stored /\ run' = run /\ pc' = "load" /\ UNCHANGED loop /\ pc \in Outside
        /\ stored # NoRun /\ stored.status \notin TerminalRun
    BY <1>2 DEF Recover, Outside
  <2>2. run = NoRun /\ stored \in Run /\ Earned(stored)
    BY <2>1, Zenon DEF IInv, FlowInv, TypeInv, PlanInv
  <2>3. stored.status \in {"pending", "running"}
    BY <2>1, <2>2, Zenon DEF Run, RunStatuses, TerminalRun
  <2>4. StoredOK'
    BY <2>1, <2>2, EarnedNext, StoredStays
  <2> QED BY <2>1, <2>2, <2>3, <2>4, OpeningCore DEF Opening
<1>3. CASE Load
  <2>1. pc = "load" /\ stored' = stored /\ pc \in Opening
    BY <1>3 DEF Load, Opening
  <2>2. CASE Return
    BY <2>1, <2>2, FinishCore
  <2>3. CASE run' = stored /\ pc' = "resume" /\ UNCHANGED loop
    <3>1. stored # NoRun /\ stored \in Run /\ Earned(stored) /\ stored.status \in {"pending", "running"}
      BY <2>1 DEF IInv, FlowInv, TypeInv, PlanInv, Outside
    <3>2. StoredOK'
      BY <2>1, <3>1, EarnedNext, StoredStays
    <3> QED BY <2>1, <2>3, <3>1, <3>2, OpeningCore, Zenon DEF Opening
  <2> QED BY <1>3, <2>2, <2>3 DEF Load
<1>4. CASE Start
  <2>1. pc = "start" /\ pc \in Opening
    BY <1>4, Zenon DEF Start, Opening
  <2>2. stored = run /\ run \in Run /\ run # NoRun /\ Bounded(run) /\ Earned(run) /\ run.status = "pending"
    BY <2>1, OpenHolds, Zenon DEF IInv, FlowInv, Opening
  <2>3. \A t \in Tasks : run.tasks[t].status = "pending"
    BY <2>2, Zenon DEF IInv, FlowInv
  <2> DEFINE r == TransitionWorkflow(run, "running")
  <2>4. r \in Run /\ r.status = "running" /\ r.tasks = run.tasks /\ Earned(r) /\ Earned(CanceledRun(run))
    BY <2>2, WithStatus, SuccessesStay, Zenon DEF RunStatuses, CanceledRun
  <2>5. CASE Return
    <3>1. stored' \in {stored, r, CanceledRun(run)}
      BY <1>4, <2>5, SaveStores DEF Start, FinishWith, Return
    <3> QED BY <2>4, <2>5, <3>1, FinishCore, Zenon
  <2>6. CASE Saved(r) /\ run' = r /\ pc' = "prepare" /\ UNCHANGED loop
    <3>1. stored' = r
      BY <2>6, Zenon DEF Saved
    <3>2. StoredOK'
      BY <2>4, <3>1, EarnedNext, StoredStays, Zenon
    <3> HIDE DEF r
    <3>3. ~HasTask(r, "failed") /\ ~HasTask(r, "canceled")
      BY <2>3, <2>4, Zenon DEF HasTask
    <3>4. stored' # NoRun
      BY <2>4, <3>1, DefinitionAssumption
    <3> QED BY <2>1, <2>4, <2>6, <3>1, <3>2, <3>3, <3>4, OpeningCore, Zenon DEF Opening
  <2> QED BY <1>4, <2>5, <2>6 DEF Start, FinishWith
<1> QED BY <1>1, <1>2, <1>3, <1>4

==============================================================================
