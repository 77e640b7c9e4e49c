--------------------------- MODULE BrokerContract ---------------------------
(***************************************************************************)
(* What broker.Broker promises to a durable subscription: at-least-once     *)
(* delivery until acknowledgement.  A published message is available, then  *)
(* with one holder at a time, and goes back when the holder gives it back;  *)
(* acknowledging it is final.                                               *)
(***************************************************************************)
CONSTANTS Messages, Subscriptions

VARIABLE place   \* place[s][m]: where message m is for subscription s

Places == {"absent", "available", "held", "done"}

Init == place = [s \in Subscriptions |-> [m \in Messages |-> "absent"]]

\* One publication reaches every subscription that exists.
Publish(m) ==
  /\ \E S \in SUBSET Subscriptions :
       place' = [s \in Subscriptions |->
                   IF s \in S /\ place[s][m] = "absent"
                   THEN [place[s] EXCEPT ![m] = "available"] ELSE place[s]]

\* A new subscription starts with what was published before.
Subscribe(s) ==
  /\ \A m \in Messages : place[s][m] = "absent"
  /\ \E M \in SUBSET Messages :
       place' = [place EXCEPT ![s] = [m \in Messages |-> IF m \in M THEN "available" ELSE "absent"]]

Move(s, m, from, to) ==
  /\ place[s][m] = from
  /\ place' = [place EXCEPT ![s][m] = to]

\* The first Receive of a subscription creates it and takes a message.
SubscribeAndTake(s) ==
  /\ \A m \in Messages : place[s][m] = "absent"
  /\ \E M \in SUBSET Messages, h \in Messages :
       place' = [place EXCEPT ![s] = [m \in Messages |-> IF m = h THEN "held"
                                                         ELSE IF m \in M THEN "available"
                                                         ELSE "absent"]]

Next ==
  \/ \E m \in Messages : Publish(m)
  \/ \E s \in Subscriptions : Subscribe(s) \/ SubscribeAndTake(s)
  \/ \E s \in Subscriptions, m \in Messages :
       \/ Move(s, m, "available", "held")    \* Receive
       \/ Move(s, m, "held", "done")         \* Ack
       \/ Move(s, m, "held", "available")    \* Nack, or the holder is gone

Spec == Init /\ [][Next]_place
=============================================================================
