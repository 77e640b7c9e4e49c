---------------------------- MODULE MemoryBroker ----------------------------
(***************************************************************************)
(* broker.InMemoryBroker for one topic: the critical sections under its     *)
(* mutex, and the wake-up of receivers through the notify channel of a      *)
(* subscription, which holds one token.  Go hands a token to a receiver     *)
(* that is blocked in the select, and buffers it only if there is none.     *)
(***************************************************************************)
EXTENDS TaskQueue, FiniteSets

CONSTANTS Messages,       \* message IDs
          Subscriptions,  \* consumer IDs
          Receivers,      \* goroutines that call Receive
          SubOf,          \* SubOf[r]: the subscription receiver r uses
          MaxNacks,       \* bound: deliveries given back
          MaxCancels      \* bound: receives that are canceled

ASSUME BrokerAssumption == SubOf \in [Receivers -> Subscriptions] /\ "nobody" \notin Receivers

VARIABLES closed,
          log,       \* messages and topics: what was published, in order
          queue,     \* queue[s]: the subscription, a value of TaskQueue
          exists,    \* the subscriptions that have been created
          token,     \* token[s]: notify holds a token
          at,        \* at[r]: where receiver r is in Receive
          issued,    \* every delivery handed out; its holder may settle it
          nacks, cancels

vars == <<closed, log, queue, exists, token, at, issued, nacks, cancels>>

Init ==
  /\ closed = FALSE /\ log = <<>>
  /\ queue = [s \in Subscriptions |-> EmptyQueue] /\ exists = {}
  /\ token = [s \in Subscriptions |-> FALSE]
  /\ at = [r \in Receivers |-> "out"]
  /\ issued = {} /\ nacks = 0 /\ cancels = 0

Blocked(s) == {r \in Receivers : at[r] = "blocked" /\ SubOf[r] = s}

\* signalMemorySubscription for each subscription of S: a blocked receiver gets
\* the token, else the channel keeps it, else it is dropped.
Signal(S) ==
  \E wake \in [S -> Receivers \cup {"nobody"}] :
    /\ \A s \in S : IF Blocked(s) = {} THEN wake[s] = "nobody" ELSE wake[s] \in Blocked(s)
    /\ token' = [s \in Subscriptions |-> token[s] \/ (s \in S /\ Blocked(s) = {})]
    /\ at' = [r \in Receivers |-> IF \E s \in S : wake[s] = r THEN "look" ELSE at[r]]

\* Mutant: receivers are not told of a publication.
PublishSilently(m) ==
  /\ ~closed /\ m \notin Range(log)
  /\ log' = Append(log, m)
  /\ queue' = [s \in Subscriptions |-> IF s \in exists THEN PublishTo(queue[s], m) ELSE queue[s]]
  /\ UNCHANGED <<closed, exists, token, at, issued, nacks, cancels>>

\* Publish; a message ID that is known is accepted again and changes nothing.
Publish(m) ==
  /\ ~closed /\ m \notin Range(log)
  /\ log' = Append(log, m)
  /\ queue' = [s \in Subscriptions |-> IF s \in exists THEN PublishTo(queue[s], m) ELSE queue[s]]
  /\ Signal(exists)
  /\ UNCHANGED <<closed, exists, issued, nacks, cancels>>

Goes(r, where) == at' = [at EXCEPT ![r] = where]

\* Receive is called; its context is checked once.
Call(r) ==
  /\ at[r] = "out"
  /\ Goes(r, "look")
  /\ UNCHANGED <<closed, log, queue, exists, token, issued, nacks, cancels>>

\* subscriptionLocked creates the subscription from the topic's log.
Opened(s) == IF s \in exists THEN queue[s] ELSE QueueOf(log)

\* The critical section of Receive.  Creating a subscription with messages
\* leaves a token in its channel.
Look(r) ==
  LET s == SubOf[r]
      q == Opened(s)
  IN  /\ at[r] = "look"
      /\ IF closed
         THEN Goes(r, "out") /\ UNCHANGED <<queue, exists, token, issued>>
         ELSE /\ exists' = exists \cup {s}
              /\ token' = [token EXCEPT ![s] = @ \/ (s \notin exists /\ log # <<>>)]
              /\ \/ /\ q.queued # <<>>
                    /\ queue' = [queue EXCEPT ![s] = ReceiveFrom(q)]
                    /\ issued' = issued \cup {[sub |-> s, delivery |-> Delivery(q)]}
                    /\ Goes(r, "out")
                 \/ /\ q.queued = <<>>
                    /\ queue' = [queue EXCEPT ![s] = q]
                    /\ Goes(r, "select")
                    /\ UNCHANGED issued
      /\ UNCHANGED <<closed, log, nacks, cancels>>

\* The select takes a buffered token or blocks.
Select(r) ==
  /\ at[r] = "select"
  /\ IF token[SubOf[r]]
     THEN Goes(r, "look") /\ token' = [token EXCEPT ![SubOf[r]] = FALSE]
     ELSE Goes(r, "blocked") /\ UNCHANGED token
  /\ UNCHANGED <<closed, log, queue, exists, issued, nacks, cancels>>

Cancel(r) ==
  /\ at[r] \in {"select", "blocked"} /\ cancels < MaxCancels
  /\ cancels' = cancels + 1
  /\ Goes(r, "out")
  /\ UNCHANGED <<closed, log, queue, exists, token, issued, nacks>>

\* Ack and Nack by whoever has the delivery, at any time and repeatedly; a
\* settled delivery is refused.
Ack(i) ==
  /\ ~closed /\ Unsettled(queue[i.sub], i.delivery)
  /\ queue' = [queue EXCEPT ![i.sub] = AckIn(@, i.delivery)]
  /\ UNCHANGED <<closed, log, exists, token, at, issued, nacks, cancels>>

\* Mutant: receivers are not told of a message that was given back.
NackSilently(i) ==
  /\ ~closed /\ Unsettled(queue[i.sub], i.delivery)
  /\ nacks < MaxNacks /\ nacks' = nacks + 1
  /\ queue' = [queue EXCEPT ![i.sub] = NackIn(@, i.delivery)]
  /\ UNCHANGED <<closed, log, exists, token, at, issued, cancels>>

Nack(i) ==
  /\ ~closed /\ Unsettled(queue[i.sub], i.delivery)
  /\ nacks < MaxNacks /\ nacks' = nacks + 1
  /\ queue' = [queue EXCEPT ![i.sub] = NackIn(@, i.delivery)]
  /\ Signal({i.sub})
  /\ UNCHANGED <<closed, log, exists, issued, cancels>>

\* Mutant: receivers are not told that the broker is closed.
CloseSilently ==
  /\ ~closed /\ closed' = TRUE
  /\ UNCHANGED <<log, queue, exists, token, at, issued, nacks, cancels>>

Close ==
  /\ ~closed /\ closed' = TRUE
  /\ Signal(exists)
  /\ UNCHANGED <<log, queue, exists, issued, nacks, cancels>>

Next ==
  \/ \E m \in Messages : Publish(m)
  \/ \E r \in Receivers : Call(r) \/ Look(r) \/ Select(r) \/ Cancel(r)
  \/ \E i \in issued : Ack(i) \/ Nack(i)
  \/ Close

Spec == Init /\ [][Next]_vars

\* Goroutines run, and a worker that has handled a message calls Receive again.
FairSpec ==
  /\ Spec
  /\ \A r \in Receivers : WF_vars(Call(r) \/ Look(r) \/ Select(r))
-----------------------------------------------------------------------------
\* A message that was published is, for each subscription, queued once, or in
\* flight, or acknowledged, and never two of these: whatever the order of
\* publications, receives, nacks and late or repeated settlements.
OnePlace ==
  \A s \in exists, m \in Range(log) :
    Cardinality({n \in 1..Len(queue[s].queued) : queue[s].queued[n] = m})
      + (IF m \in InFlight(queue[s]) THEN 1 ELSE 0)
      + (IF m \in queue[s].acked THEN 1 ELSE 0) = 1

\* An idle receiver does not overlook work: if every receiver of a subscription
\* is blocked, nothing is queued for it.
NoneOverlooked ==
  \A s \in exists : (\A r \in Receivers : SubOf[r] = s => at[r] = "blocked") =>
                      queue[s].queued = <<>>

PlaceOf(s, m) ==
  IF s \notin exists \/ m \notin Range(log) THEN "absent"
  ELSE IF m \in queue[s].acked THEN "done"
  ELSE IF m \in InFlight(queue[s]) THEN "held"
  ELSE "available"

Place == [s \in Subscriptions |-> [m \in Messages |-> PlaceOf(s, m)]]

Contract == INSTANCE BrokerContract WITH place <- Place

\* The broker implements at-least-once delivery with final acknowledgement.
ImplementsContract == Contract!Spec

\* A queued message is delivered, although tokens are dropped when one is
\* already there: some receiver comes back to look.
QueuedIsDelivered ==
  \A s \in Subscriptions, m \in Messages :
    (s \in exists /\ m \in Range(queue[s].queued)) ~> (closed \/ m \notin Range(queue[s].queued))

\* "Close releases blocked receivers": one of each subscription at least.  It
\* leaves a single token, which the receiver that takes it does not pass on, so
\* a second one may stay blocked until its context ends.
CloseReleases ==
  closed ~> (\A s \in exists : \E r \in Receivers : SubOf[r] = s /\ at[r] # "blocked")
=============================================================================
