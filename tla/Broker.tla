------------------------------- MODULE Broker -------------------------------
(***************************************************************************)
(* The JetStream work queue of simulation requests and its one durable     *)
(* consumer, as the code uses them: the API publishes one message per      *)
(* simulation, the consumer hands it to a worker of the queue group, and   *)
(* any later acknowledgement of any of its deliveries settles it.  The     *)
(* broker is not under src/; what is modelled is what worker/dispatcher.py *)
(* and core/queue/helper.py configure and rely on.                         *)
(***************************************************************************)
EXTENDS Integers, FiniteSets

CONSTANTS Sims,            \* simulations
          MaxDeliver,      \* the consumer's max_deliver
          MaxAckPending    \* the consumer's max_ack_pending

ASSUME BrokerAssumption ==
  /\ MaxDeliver \in Nat \ {0}
  /\ MaxAckPending \in Nat \ {0}

VARIABLES msg,          \* msg[s]: where the message of simulation s is
          delivered     \* delivered[s]: how often it was delivered

brokerVars == <<msg, delivered>>

\* A delivery is named by its simulation and its delivery count.
Delivery == Sims \X (1..MaxDeliver)
Sim(d) == d[1]
Count(d) == d[2]

BrokerTypeOK ==
  /\ msg \in [Sims -> {"none", "ready", "unacked", "acked"}]
  /\ delivered \in [Sims -> 0..MaxDeliver]

BrokerInit ==
  /\ msg = [s \in Sims |-> "none"]
  /\ delivered = [s \in Sims |-> 0]

\* What counts against max_ack_pending: messages delivered and not settled,
\* except those the broker has given up on.
AckPending ==
  {s \in Sims : \/ msg[s] = "unacked"
                \/ msg[s] = "ready" /\ 0 < delivered[s] /\ delivered[s] < MaxDeliver}

\* A mistaken consumer, created without max_ack_pending.
DeliverableUncapped(s) ==
  /\ msg[s] = "ready"
  /\ delivered[s] < MaxDeliver

\* A message the broker may still deliver: max_deliver bounds its deliveries,
\* max_ack_pending its first one.
Deliverable(s) ==
  /\ msg[s] = "ready"
  /\ delivered[s] < MaxDeliver
  /\ delivered[s] = 0 => Cardinality(AckPending) < MaxAckPending

Enqueue(s) ==
  /\ msg' = [msg EXCEPT ![s] = "ready"]
  /\ UNCHANGED delivered

HandOut(s) ==
  /\ Deliverable(s)
  /\ msg' = [msg EXCEPT ![s] = "unacked"]
  /\ delivered' = [delivered EXCEPT ![s] = @ + 1]

\* An ack settles the message, whichever delivery it answers.
Settle(s) ==
  /\ msg' = [msg EXCEPT ![s] = "acked"]
  /\ UNCHANGED delivered

\* A nak, or an ack_wait that ran out, makes an unsettled message deliverable.
Return(s) ==
  /\ msg' = [msg EXCEPT ![s] = IF @ = "unacked" THEN "ready" ELSE @]
  /\ UNCHANGED delivered
=============================================================================
