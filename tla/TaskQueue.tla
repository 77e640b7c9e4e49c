----------------------------- MODULE TaskQueue -----------------------------
(***************************************************************************)
(* The state of one durable subscription as a value, and the operations of  *)
(* the broker.Broker and broker.Delivery contracts on it.  DOMAIN count is  *)
(* the set of messages the broker has stored.  A delivery is a message with *)
(* the delivery count it was received under.                                *)
(*                                                                         *)
(* The two brokers differ in who decides whether a delivery can still be    *)
(* settled.  broker.InMemoryBroker compares it with the message's current   *)
(* delivery.  A natsDelivery of NATSBroker only knows whether it was        *)
(* settled itself, and the JetStream server goes by the message: so a       *)
(* delivery that was superseded can still acknowledge the message, or have  *)
(* it delivered once more.                                                  *)
(***************************************************************************)
EXTENDS Naturals, Sequences, FiniteSets, Functions

\* A subscription that starts with the messages of a log.
QueueOf(log) ==
  LET zero == [m \in Range(log) |-> 0]
  IN  [jetStream |-> FALSE, queued |-> log, inFlight |-> zero, count |-> zero,
       acked |-> {}, settled |-> {}]

EmptyQueue == QueueOf(<<>>)

EmptyStream == [EmptyQueue EXCEPT !.jetStream = TRUE]

Known(b) == DOMAIN b.count

InFlight(b) == {m \in Known(b) : b.inFlight[m] # 0}

\* A message that has been published and not acknowledged.
Available(b, m) == m \in Known(b) /\ m \notin b.acked

AddKey(f, m, v) == [k \in DOMAIN f \cup {m} |-> IF k = m THEN v ELSE f[k]]

\* Publish: re-publishing a known ID changes nothing.
PublishTo(b, m) ==
  IF m \in Known(b) THEN b
  ELSE [b EXCEPT !.queued = Append(@, m),
                 !.inFlight = AddKey(@, m, 0), !.count = AddKey(@, m, 0)]

Delivery(b) ==
  LET m == Head(b.queued) IN [message |-> m, count |-> b.count[m] + 1]

\* Receive takes the head of the queue; the count identifies the delivery.
ReceiveFrom(b) ==
  LET d == Delivery(b)
  IN  [b EXCEPT !.queued = Tail(@), !.count[d.message] = d.count,
                !.inFlight[d.message] = d.count]

\* Mutant: any delivery of a message that is known can be settled.
KnownMessage(b, d) == d.message \in Known(b)

\* memoryDelivery: it is the one the message is in flight with.
IsCurrentDelivery(b, d) == d.message \in Known(b) /\ b.inFlight[d.message] = d.count

\* natsDelivery: it has not been settled itself.
IsOpenHandle(b, d) == d.message \in Known(b) /\ d \notin b.settled

\* Ack, Nack and Progress fail with ErrDeliverySettled otherwise.
Unsettled(b, d) == IF b.jetStream THEN IsOpenHandle(b, d) ELSE IsCurrentDelivery(b, d)

\* The settled flag of a natsDelivery.
Settle(b, d) == IF b.jetStream THEN b.settled \cup {d} ELSE b.settled

CutAt(q, i) == SubSeq(q, 1, i - 1) \o SubSeq(q, i + 1, Len(q))

\* A message is in a queue at most once.
TakeOut(q, m) == IF m \in Range(q) THEN CutAt(q, CHOOSE i \in DOMAIN q : q[i] = m) ELSE q

\* JetStream does not deliver a message again that a superseded delivery has
\* acknowledged.
Dequeue(b, d) == IF b.jetStream THEN TakeOut(b.queued, d.message) ELSE b.queued

\* Mutant: an acknowledged message stays in flight.
AckInFlight(b, d) ==
  [b EXCEPT !.acked = @ \cup {d.message},
            !.queued = Dequeue(b, d), !.settled = Settle(b, d)]

AckIn(b, d) ==
  [b EXCEPT !.inFlight[d.message] = 0, !.acked = @ \cup {d.message},
            !.queued = Dequeue(b, d), !.settled = Settle(b, d)]

\* The message is offered again, unless it already is or is gone.
Requeue(b, m) ==
  IF m \in InFlight(b)
  THEN [b EXCEPT !.inFlight[m] = 0, !.queued = Append(@, m)] ELSE b

\* Nack of a settled delivery changes nothing and its callers ignore the error.
NackIn(b, d) ==
  IF Unsettled(b, d) THEN [Requeue(b, d.message) EXCEPT !.settled = Settle(b, d)] ELSE b

\* The sequences in which each message of M is once.
Orders(M) == UNION {Bijection(1..n, M) : n \in 0..Cardinality(M)}

\* What JetStream may hold for the consumer after the process that held its
\* deliveries is gone: it offers them again, in some order.
Redeliveries(b) ==
  {[b EXCEPT !.queued = @ \o order, !.inFlight = [m \in Known(b) |-> 0], !.settled = {}] :
     order \in Orders(InFlight(b))}
=============================================================================
