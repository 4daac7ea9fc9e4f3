---------------------------- MODULE RunLifecycle ----------------------------
(***************************************************************************)
(* What the service promises a user about a simulation, whatever workers,  *)
(* broker, databases and object storage do underneath.                     *)
(*                                                                         *)
(* A run that was accepted waits, with its input available, until it       *)
(* succeeds or fails.  It does so once: from then on what is shown of it   *)
(* stays the same until the user removes it.                               *)
(***************************************************************************)

CONSTANTS Sims,
          Results,   \* the results a run may end with
          NoResult   \* what is shown of a run that has none

VARIABLES state,     \* state[s]: where the run is in its life
          input,     \* input[s]: its input is available
          shown      \* shown[s]: the result the user can read

lifecycleVars == <<state, input, shown>>

LifecycleInit ==
  /\ state = [s \in Sims |-> "none"]
  /\ input \in [Sims -> BOOLEAN]
  /\ shown = [s \in Sims |-> NoResult]

Become(s, to) == state' = [state EXCEPT ![s] = to]

\* Queued, with its input in place.
Accept(s) ==
  /\ state[s] = "none" /\ input[s]
  /\ Become(s, "waiting")
  /\ UNCHANGED <<input, shown>>

Succeed(s) ==
  /\ state[s] = "waiting"
  /\ Become(s, "succeeded")
  /\ \E r \in Results : shown' = [shown EXCEPT ![s] = r]
  /\ UNCHANGED input

\* A run fails after it waited, or because it could not be queued.
GiveUp(s) ==
  /\ state[s] \in {"none", "waiting"}
  /\ Become(s, "failed")
  /\ UNCHANGED <<input, shown>>

Remove(s) ==
  /\ state[s] # "removed"
  /\ Become(s, "removed")
  /\ shown' = [shown EXCEPT ![s] = NoResult]
  /\ UNCHANGED input

\* The input comes and goes, but not under a run that waits for it.
ChangeInput(s) ==
  /\ state[s] # "waiting"
  /\ input' = [input EXCEPT ![s] = ~@]
  /\ UNCHANGED <<state, shown>>

LifecycleNext ==
  \E s \in Sims : Accept(s) \/ Succeed(s) \/ GiveUp(s) \/ Remove(s) \/ ChangeInput(s)

LifecycleSpec == LifecycleInit /\ [][LifecycleNext]_lifecycleVars
=============================================================================
