----------------------------- MODULE SolverPool -----------------------------
(***************************************************************************)
(* The solver processes of a worker: _SolverPool of worker/main.py over    *)
(* ProcessPoolExecutor, what runs in a solver process                      *)
(* (_run_simulation_subprocess of worker/dispatcher.py), and the temporary *)
(* files of worker/timeseries.py.                                          *)
(*                                                                         *)
(* A solver process that dies is noticed later, by a thread of the         *)
(* executor.  That breaks the whole pool: every call it holds fails, and   *)
(* the next submit replaces the pool.                                      *)
(***************************************************************************)
EXTENDS Naturals, FiniteSets

CONSTANTS Jobs,       \* deliveries of simulations to this worker, by number
          MaxPools    \* how many pools a worker's process may create

ASSUME SolverPoolAssumption == Jobs \subseteq Nat /\ MaxPools \in Nat \ {0}

VARIABLES
  pool,      \* the number, in its process, of the pool that submit uses
  dying,     \* pools with a dead process that was not noticed yet
  broken,    \* pools declared broken
  shut,      \* pools shut down
  callPool,  \* callPool[j]: the pool the call of job j was submitted to
  call,      \* call[j]: what its future holds
  solver,    \* solver[j]: what the solver process does with it
  files      \* jobs whose time-series file exists

poolVars == <<pool, dying, broken, shut, callPool, call, solver, files>>

Pools == 1..MaxPools

PoolTypeOK ==
  /\ pool \in 0..MaxPools
  /\ dying \subseteq Pools /\ broken \subseteq Pools /\ shut \subseteq Pools
  /\ callPool \in [Jobs -> 0..MaxPools]
  /\ call \in [Jobs -> {"none", "pending", "result", "error", "crashed", "cancelled"}]
  /\ solver \in [Jobs -> {"none", "queued", "running", "writing", "wrote", "over"}]
  /\ files \subseteq Jobs

PoolInit ==
  /\ pool = 0 /\ dying = {} /\ broken = {} /\ shut = {}
  /\ callPool = [j \in Jobs |-> 0]
  /\ call = [j \in Jobs |-> "none"]
  /\ solver = [j \in Jobs |-> "none"]
  /\ files = {}

Running(g) == {j \in Jobs : callPool[j] = g /\ solver[j] \in {"running", "writing", "wrote"}}
Held(g) == {j \in Jobs : callPool[j] = g /\ solver[j] = "queued"} \union Running(g)

\* A worker starts with a new pool.
NewPool ==
  /\ pool < MaxPools /\ pool' = pool + 1
  /\ UNCHANGED <<dying, broken, shut, callPool, call, solver, files>>

Accepted(j, g) ==
  /\ callPool' = [callPool EXCEPT ![j] = g]
  /\ call' = [call EXCEPT ![j] = "pending"]
  /\ solver' = [solver EXCEPT ![j] = "queued"]
  /\ UNCHANGED <<dying, broken, shut, files>>

Refused(j, outcome) ==
  /\ call' = [call EXCEPT ![j] = outcome]
  /\ UNCHANGED <<pool, dying, broken, shut, callPool, solver, files>>

\* A mistaken one: the pool is never replaced.
SubmitWithoutRebuild(j) ==
  \/ /\ pool \in broken
     /\ Refused(j, "crashed")
  \/ /\ pool \notin broken /\ pool \in shut
     /\ Refused(j, "error")
  \/ /\ pool \notin broken \union shut
     /\ Accepted(j, pool) /\ UNCHANGED pool

\* _SolverPool.submit: a broken pool is replaced, and one shut down raises.  A
\* pool whose dead process was not noticed yet accepts the call.
Submit(j) ==
  \/ /\ pool \in broken /\ pool < MaxPools
     /\ pool' = pool + 1 /\ Accepted(j, pool + 1)
  \/ /\ pool \notin broken /\ pool \in shut
     /\ Refused(j, "error")
  \/ /\ pool \notin broken \union shut
     /\ Accepted(j, pool) /\ UNCHANGED pool

\* A free solver process takes a call; a pool has size of them.
TakeCall(j, size) ==
  /\ solver[j] = "queued" /\ callPool[j] \notin broken
  /\ Cardinality(Running(callPool[j])) < size
  /\ solver' = [solver EXCEPT ![j] = "running"]
  /\ UNCHANGED <<pool, dying, broken, shut, callPool, call, files>>

\* The solve is done, and the file of its series created (mkstemp).
CreateFile(j) ==
  /\ solver[j] = "running"
  /\ solver' = [solver EXCEPT ![j] = "writing"]
  /\ files' = files \union {j}
  /\ UNCHANGED <<pool, dying, broken, shut, callPool, call>>

\* The file is written to its end.
WriteFile(j) ==
  /\ solver[j] = "writing"
  /\ solver' = [solver EXCEPT ![j] = "wrote"]
  /\ UNCHANGED <<pool, dying, broken, shut, callPool, call, files>>

\* The future of a call that was cancelled stays cancelled.
SetFuture(j, outcome) ==
  call' = [call EXCEPT ![j] = IF @ = "pending" THEN outcome ELSE @]

\* A mistaken one, which deletes the file it hands over.
ReturnRemoving(j) ==
  /\ solver[j] = "wrote"
  /\ solver' = [solver EXCEPT ![j] = "over"]
  /\ SetFuture(j, "result")
  /\ files' = files \ {j}
  /\ UNCHANGED <<pool, dying, broken, shut, callPool>>

\* The totals and the file's path reach the main process.
Return(j) ==
  /\ solver[j] = "wrote"
  /\ solver' = [solver EXCEPT ![j] = "over"]
  /\ SetFuture(j, "result")
  /\ UNCHANGED <<pool, dying, broken, shut, callPool, files>>

\* A mistaken one, which leaves what was written of the file.
RaiseKeepingFile(j) ==
  /\ solver[j] \in {"running", "writing"}
  /\ solver' = [solver EXCEPT ![j] = "over"]
  /\ SetFuture(j, "error")
  /\ UNCHANGED <<pool, dying, broken, shut, callPool, files>>

\* The solve, or the writing of the file, raises: what was written is removed.
Raise(j) ==
  /\ solver[j] \in {"running", "writing"}
  /\ solver' = [solver EXCEPT ![j] = "over"]
  /\ SetFuture(j, "error")
  /\ files' = files \ {j}
  /\ UNCHANGED <<pool, dying, broken, shut, callPool>>

\* The kernel kills a solver process, idle or with the call it runs.
SolverDies(victim) ==
  /\ pool \in Pools \ broken
  /\ victim \subseteq Running(pool) /\ Cardinality(victim) <= 1
  /\ dying' = dying \union {pool}
  /\ solver' = [j \in Jobs |-> IF j \in victim THEN "over" ELSE solver[j]]
  /\ UNCHANGED <<pool, broken, shut, callPool, call, files>>

\* The executor notices: every call of the pool fails, and its other processes
\* are terminated.  Files they had written, whole or in part, stay.
NoticeBreak(g) ==
  /\ g \in dying \ broken
  /\ broken' = broken \union {g}
  /\ call' = [j \in Jobs |-> IF callPool[j] = g /\ call[j] = "pending" THEN "crashed" ELSE call[j]]
  /\ solver' = [j \in Jobs |-> IF callPool[j] = g /\ solver[j] # "none" THEN "over" ELSE solver[j]]
  /\ UNCHANGED <<pool, dying, shut, callPool, files>>

\* shutdown(wait=False, cancel_futures=True): calls no process has fetched yet
\* are cancelled; the executor may have handed some of them over already.
ShutPool ==
  /\ shut' = shut \union {pool}
  /\ \E C \in SUBSET {j \in Held(pool) : solver[j] = "queued"} :
       /\ call' = [j \in Jobs |-> IF j \in C THEN "cancelled" ELSE call[j]]
       /\ solver' = [j \in Jobs |-> IF j \in C THEN "over" ELSE solver[j]]
  /\ UNCHANGED <<pool, dying, broken, callPool, files>>

\* Tasks that are cancelled give up their calls, which go on where a process has
\* them already; those that were saving remove their files.
Abandon(J, savers) ==
  /\ \E C \in SUBSET {j \in J : solver[j] = "queued"} :
       solver' = [j \in Jobs |-> IF j \in C THEN "over" ELSE solver[j]]
  /\ call' = [j \in Jobs |-> IF j \in J /\ call[j] = "pending" THEN "cancelled" ELSE call[j]]
  /\ files' = files \ savers
  /\ UNCHANGED <<pool, dying, broken, shut, callPool>>

\* The task that awaited a call has its outcome.
Consumed(j) ==
  /\ callPool' = [callPool EXCEPT ![j] = 0]
  /\ call' = [call EXCEPT ![j] = "none"]
  /\ solver' = [solver EXCEPT ![j] = "none"]
  /\ UNCHANGED <<pool, dying, broken, shut, files>>

\* timeseries.remove: deletes a job's file.
RemoveFile(j) ==
  /\ files' = files \ {j}
  /\ UNCHANGED <<pool, dying, broken, shut, callPool, call, solver>>

\* timeseries.remove_leftovers: deletes every file.
RemoveLeftovers ==
  /\ files' = {}
  /\ UNCHANGED <<pool, dying, broken, shut, callPool, call, solver>>

\* The worker's process ends, and its solver processes with it.
AllProcessesEnd ==
  /\ callPool' = [j \in Jobs |-> 0]
  /\ call' = [j \in Jobs |-> "none"]
  /\ solver' = [j \in Jobs |-> "none"]
  /\ pool' = 0 /\ dying' = {} /\ broken' = {} /\ shut' = {}
  /\ UNCHANGED files
=============================================================================
