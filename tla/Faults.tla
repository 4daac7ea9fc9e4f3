------------------------------- MODULE Faults -------------------------------
(***************************************************************************)
(* The faults a run lets the environment inject, and how many of them.     *)
(* A step that can fail has one disjunct per way of failing, guarded by    *)
(* Fails(kind); its normal disjuncts take NoFault.                         *)
(*                                                                         *)
(*   local_db       a statement on the local database raises               *)
(*   commit_lost    a commit is applied, but its reply is lost             *)
(*   db_drop        the connection holding a row lock is dropped           *)
(*   stall          the local or the CRM database answers after ack_wait     *)
(*   crm            a statement on the CRM database raises                 *)
(*   storage        object storage answers with a transient error          *)
(*   storage_fatal  object storage answers with any other error            *)
(*   delete_lost    a best-effort object delete does not happen            *)
(*   pool           a solver process dies                                  *)
(*   crash          a worker process dies                                  *)
(*   link           a worker loses its connection to NATS                  *)
(*   shutdown       a worker receives SIGTERM                              *)
(*   connect        an attempt to set the NATS connection up fails         *)
(*   config         a request about the consumer's settings raises         *)
(*   publish        the publish raises and the broker stored nothing       *)
(*   publish_lost   the publish raises although the broker stored it       *)
(*   api_crash      the process serving a request dies                     *)
(***************************************************************************)
EXTENDS Naturals

CONSTANTS FaultKinds,   \* the kinds of fault that may happen
          MaxFaults     \* how many may happen in one behaviour

ASSUME FaultsAssumption == MaxFaults \in Nat

VARIABLE faults         \* how many have happened

FaultsInit == faults = 0

Fails(kind) ==
  /\ kind \in FaultKinds
  /\ faults < MaxFaults
  /\ faults' = faults + 1

NoFault == UNCHANGED faults
=============================================================================
