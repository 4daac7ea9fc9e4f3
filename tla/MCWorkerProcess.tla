-------------------------- MODULE MCWorkerProcess --------------------------
(***************************************************************************)
(* WorkerProcess for TLC: a rolling update, in which an old worker with    *)
(* one solver process and a new one with more of them start over the       *)
(* consumer an even earlier build left.                                    *)
(***************************************************************************)
EXTENDS WorkerProcess, TLC

CONSTANTS new, old

Build == (new :> [ack_wait |-> 30, max_deliver |-> 11, max_ack_pending |-> 1]) @@
         (old :> [ack_wait |-> 60, max_deliver |-> 5, max_ack_pending |-> 3])
Before == [ack_wait |-> 30, max_deliver |-> 5, max_ack_pending |-> 2]
=============================================================================
