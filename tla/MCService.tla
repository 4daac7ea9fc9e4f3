----------------------------- MODULE MCService -----------------------------
(***************************************************************************)
(* SimulationService for TLC: the symmetry of the workers, for runs without *)
(* liveness, and initial states in which all requests but one were refused, *)
(* to check a file run and a CRM run alone under more faults.               *)
(***************************************************************************)
EXTENDS SimulationService, TLC

WorkerSymmetry == Permutations(Workers)

OneRequestInit ==
  /\ BrokerInit /\ StoreInit /\ FaultsInit /\ DispatcherInit
  /\ staged = {}
  /\ del = [s \in Sims |-> "none"]
  /\ seen = [s \in Sims |-> 0]
  /\ \E s \in Sims : req = [r \in Sims |-> IF r = s THEN "none" ELSE "refused"]

OneRequestSpec == OneRequestInit /\ [][Next]_vars
FairOneRequestSpec == OneRequestSpec /\ Fairness
=============================================================================
