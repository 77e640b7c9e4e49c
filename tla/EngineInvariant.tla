-------------------------- MODULE EngineInvariant ---------------------------
(***************************************************************************)
(* The inductive invariant of the engine. The properties of Engine speak   *)
(* of what a worker executes, what the broker has and what is stored; each *)
(* is kept only because of the others, and because of where the call is.   *)
(* So the invariant says for every place of the call which aggregate it    *)
(* holds and which goroutines there are (FlowInv), what the aggregate can  *)
(* be (PlanInv) and that ready, inFlight and published agree with it       *)
(* (BooksInv), and then, of the durable aggregate, what a message          *)
(* (MessageInv) and a worker's attempt (WorkInv) stand for.                *)
(***************************************************************************)
EXTENDS Engine, WorkflowRunProofs

Outside == {"idle", "returned"}
Opening == {"start", "load", "resume", "check", "prepare"}
Looping == {"top", "ack", "decide", "publish", "select"}

Holding == {"claim", "parked", "granted", "exec", "report"}
Executing == {"granted", "exec", "report"}

DeliveryType == [message : Copies, count : Nat]

WorkerType ==
  [pc : {"off", "start", "recv", "broken", "lost"} \cup Holding, done : BOOLEAN,
   delivery : DeliveryType \cup {NoDelivery}, result : Results \cup {"none"}]

ClaimType == [to : Workers \cup {NoWorker}, delivery : DeliveryType]

ResultType == [to : Workers, delivery : DeliveryType, result : Results]

\* A subscription that knows the messages of the set known.
SubscriptionType(known) ==
  [jetStream : BOOLEAN, queued : Seq(known), inFlight : [known -> Nat], count : [known -> Nat],
   acked : SUBSET known, settled : SUBSET (DeliveryType \cup {NoDelivery})]

IsSubscription(b) ==
  /\ Known(b) \subseteq Copies
  /\ b \in SubscriptionType(Known(b))

WorkersOK(f) ==
  /\ f \in [Workers -> WorkerType]
  /\ \A w \in Workers : f[w].pc \in Holding => f[w].delivery \in DeliveryType
  /\ \A w \in Workers : f[w].pc = "report" => f[w].result \in Results

TypeInv ==
  /\ stored \in Run \cup {NoRun} /\ run \in Run \cup {NoRun}
  /\ pc \in Outside \cup Opening \cup Looping \cup {"drain"}
  /\ after \in {"none", "decide", "top", "fail", "cancel", "succeed", "stall", "return"}
  /\ pending \in Seq(ClaimType) /\ acks \in Seq(ClaimType)
  /\ WorkersOK(worker)
  /\ results \in Seq(ResultType)
  /\ IsSubscription(broker)
  /\ invoked \in [Attempts -> Nat]

\* Where the call is determines which aggregate it holds and who is running.
FlowInv ==
  /\ pc \in Outside \cup Opening =>
       /\ \A w \in Workers : worker[w] = Off
       /\ results = <<>> /\ pending = <<>> /\ acks = <<>>
       /\ published = {} /\ after = "none"
  /\ pc \in Outside \cup {"load"} => run = NoRun
  /\ pc \notin Outside => stored # NoRun /\ stored.status \in {"pending", "running"}
  /\ pc \in (Opening \ {"load"}) \cup Looping => stored = run
  /\ stored # NoRun /\ stored.status = "pending" => \A t \in Tasks : stored.tasks[t].status = "pending"
  /\ pc = "start" => stored.status = "pending"
  /\ pc \in {"check", "prepare", "drain"} \cup Looping => run # NoRun /\ run.status = "running"
  /\ pc \in Looping \ {"ack"} => after = "none"
  /\ pc = "ack" => after \in {"decide", "top", "fail"}
  /\ pc = "drain" => /\ stored.status = "running"
                     /\ after \in {"cancel", "succeed", "fail", "return"}
                     /\ after \in {"cancel", "succeed"} => stored = run
                     /\ after = "fail" => Behind(stored, run)

Earned(r) == \A t \in Completed(r) : <<t, r.tasks[t].attempts>> \in proved

\* No task has failed while the loop goes on, and what could be unlocked is.
PlanInv ==
  /\ stored # NoRun => Bounded(stored) /\ Earned(stored)
  /\ run # NoRun => Bounded(run) /\ Earned(run)
  /\ pc \in {"check", "prepare"} \cup Looping /\ after # "fail" =>
       ~HasTask(run, "failed") /\ ~HasTask(run, "canceled")
  /\ pc \in Looping => NewReady(run) = {}

BooksInv ==
  /\ pc \in Looping => ready = ReadyTasks(run) /\ inFlight = RunningAttempts(run)
  /\ pc = "publish" => Unpublished(published) # {}
  /\ pc = "select" => Unpublished(published) = {}
  /\ \A a \in published : a \in Attempts /\ Copy(a, 1) \in Known(broker)

AcksOver ==
  \A i \in 1..Len(acks) :
    LET m == acks[i].delivery.message IN stored # NoRun /\ Over(stored, m[1], m[2])

\* A message stands for an attempt that was durably made ready, and what is
\* acknowledged, or about to be, for one that is durably over.
MessageInv ==
  /\ \A m \in Known(broker) : stored # NoRun /\ Issued(stored, m[1], m[2])
  /\ \A m \in broker.acked : Over(stored, m[1], m[2])
  /\ AcksOver
  /\ \A w \in Workers : worker[w].pc \in Holding => worker[w].delivery.message \in Known(broker)

\* A result comes from the worker that executed the attempt.
ResultsTrue ==
  \A i \in 1..Len(results) :
    LET m == results[i].delivery.message
    IN  /\ stored # NoRun /\ Tenable(stored, results[i].to, m[1], m[2])
        /\ results[i].result = "ok" => AttemptOf(m) \in proved

\* Who executes an attempt holds its lease or has lost it; the history of an
\* attempt begins with its lease.
WorkInv ==
  /\ \A w \in Workers : worker[w].pc \in Executing =>
       stored # NoRun /\ Tenable(stored, w, Claimed(w)[1], Claimed(w)[2])
  /\ ResultsTrue
  /\ \A w \in Workers : worker[w].pc = "report" /\ worker[w].result = "ok" => Claimed(w) \in proved
  /\ \A a \in Attempts : invoked[a] # 0 => stored # NoRun /\ a[2] <= stored.tasks[a[1]].attempts
  /\ \A w \in Workers : worker[w].pc = "granted" => invoked[Claimed(w)] = 0
  /\ \A w, v \in Workers :
       worker[w].pc \in Executing /\ worker[v].pc \in Executing /\ Claimed(w) = Claimed(v) => w = v
  /\ AttemptRunsOnce

IInv == TypeInv /\ FlowInv /\ PlanInv /\ BooksInv /\ MessageInv /\ WorkInv
=============================================================================
