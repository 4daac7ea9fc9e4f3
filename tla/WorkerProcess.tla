---------------------------- MODULE WorkerProcess ----------------------------
(***************************************************************************)
(* One worker process, Self, from its start to its end: main of            *)
(* worker/main.py, and the part of a task of worker/dispatcher.py that has *)
(* to do with the solver pool and the temporary file.  The other workers   *)
(* only subscribe, and contend for the consumer's settings.                *)
(*                                                                         *)
(* What a task does to the run it handles is Dispatcher's subject; here a  *)
(* job is one delivery, and matters by the slot, the call and the file it  *)
(* takes.                                                                  *)
(***************************************************************************)
EXTENDS ConsumerConfig, SolverPool

CONSTANTS Self,          \* the worker followed
          MaxAttempts,   \* _NATS_CONNECT_MAX_ATTEMPTS
          HostCpus,      \* os.sched_getaffinity, or os.cpu_count where there is none
          Quotas         \* the CPU quotas a container may have, in CPUs and
                         \* hundredths, 0 for none

ASSUME WorkerProcessAssumption ==
  /\ Self \in Workers
  /\ MaxAttempts \in Nat \ {0}
  /\ HostCpus \in Nat \ {0}
  /\ Quotas \subseteq Nat

VARIABLES
  quota,      \* the container's CPU quota
  main,       \* where main() is
  attempt,    \* failed attempts to connect
  task,       \* task[j]: where the task of job j is
  slots,      \* the semaphore's value
  drained     \* the tasks the shutdown waits for

processVars == <<quota, main, attempt, task, slots, drained>>
vars == <<configVars, poolVars, processVars, faults>>

-----------------------------------------------------------------------------
(***************************************************************************)
(* The size of the pool.                                                   *)
(***************************************************************************)

AtLeastOne(n) == IF n < 1 THEN 1 ELSE n

\* _detect_available_cpus: the cgroup's quota, rounded down, before the CPUs the
\* process may run on.
AvailableCpus == IF quota > 0 THEN AtLeastOne(quota \div 100) ELSE HostCpus

\* _solver_pool_size: one is left for the event loop.
PoolSize == AtLeastOne(AvailableCpus - 1)

-----------------------------------------------------------------------------
Waiting == {j \in Jobs : task[j] = "slot"}
\* The semaphore serves first the task that came first.
FirstInLine(j) == j \in Waiting /\ \A k \in Waiting : j <= k

Tasks == {j \in Jobs : task[j] \in {"slot", "solve", "persist"}}
Ended == {"saved", "retry", "failed", "crashed", "cancelled", "died"}

ProcessTypeOK ==
  /\ quota \in Quotas
  /\ main \in {"start", "connect", "pool", "serve", "drain", "close", "closed", "exit", "down"}
  /\ attempt \in 0..MaxAttempts
  /\ task \in [Jobs -> {"away", "slot", "solve", "persist"} \union Ended]
  /\ slots \in 0..PoolSize
  /\ drained \subseteq Jobs

TypeOK == ConfigTypeOK /\ PoolTypeOK /\ ProcessTypeOK /\ faults \in 0..MaxFaults

Init ==
  /\ ConfigInit /\ PoolInit /\ FaultsInit
  /\ quota \in Quotas
  /\ main = "start" /\ attempt = 0
  /\ task = [j \in Jobs |-> "away"]
  /\ slots = PoolSize /\ drained = {}

Reach(m) == main' = m /\ UNCHANGED <<quota, attempt, task, slots, drained>>

-----------------------------------------------------------------------------
(***************************************************************************)
(* Starting.                                                               *)
(***************************************************************************)

\* Before anything else: the files an earlier process left.
Sweep ==
  /\ main = "start" /\ Reach("connect")
  /\ RemoveLeftovers /\ NoFault /\ UNCHANGED configVars

\* A mistaken one, which stays disconnected after its last attempt.
ConnectGivingUp ==
  /\ main = "connect" /\ attempt < MaxAttempts
  /\ \/ Reach("pool") /\ NoFault
     \/ /\ Fails("connect")
        /\ attempt' = attempt + 1
        /\ UNCHANGED <<quota, main, task, slots, drained>>
  /\ UNCHANGED <<configVars, poolVars>>

\* _connect_nats_with_retry: the last attempt that fails ends the process.
Connect ==
  /\ main = "connect"
  /\ \/ Reach("pool") /\ NoFault
     \/ /\ Fails("connect")
        /\ attempt' = attempt + 1
        /\ main' = IF attempt + 1 = MaxAttempts THEN "down" ELSE "connect"
        /\ UNCHANGED <<quota, task, slots, drained>>
  /\ UNCHANGED <<configVars, poolVars>>

\* The pool and its semaphore, then the subscription.
CreatePool ==
  /\ main = "pool" /\ step[Self] = "off"
  /\ slots' = PoolSize
  /\ BeginSubscribe(Self) /\ NewPool /\ NoFault
  /\ UNCHANGED <<quota, main, attempt, task, drained>>

\* Each worker's requests about the consumer.  One that raises ends the start of
\* the worker; Self closes down as it would after SIGTERM.
Configure(w) ==
  \/ w # Self /\ BeginSubscribe(w) /\ NoFault /\ UNCHANGED processVars /\ UNCHANGED poolVars
  \/ /\ ReadSettings(w) \/ WriteSettings(w)
     /\ NoFault /\ UNCHANGED processVars /\ UNCHANGED poolVars
  \/ /\ Subscribe(w) /\ NoFault /\ UNCHANGED poolVars
     /\ IF w = Self THEN Reach("serve") ELSE UNCHANGED processVars
  \/ /\ RequestRaises(w) /\ Fails("config") /\ UNCHANGED poolVars
     /\ IF w = Self THEN Reach("close") ELSE UNCHANGED processVars

-----------------------------------------------------------------------------
(***************************************************************************)
(* Serving: the tasks, and the processes that solve for them.              *)
(***************************************************************************)

\* The broker sends a run, up to the stored max_ack_pending unsettled ones,
\* which is another worker's pool size if that one wrote last.  Its task has
\* loaded the input, and comes to the semaphore.  Jobs are numbered as they come.
Arrive(j) ==
  /\ main \in {"serve", "drain"}
  /\ task[j] = "away" /\ \A k \in Jobs : k < j => task[k] # "away"
  /\ Cardinality(Tasks) < stored.settings["max_ack_pending"]
  /\ task' = [task EXCEPT ![j] = "slot"]
  /\ NoFault /\ UNCHANGED <<quota, main, attempt, slots, drained, configVars, poolVars>>

\* A mistaken one, which submits without its slot.
TakeSlotUncapped(j) ==
  /\ FirstInLine(j)
  /\ Submit(j)
  /\ slots' = IF slots > 0 THEN slots - 1 ELSE slots
  /\ task' = [task EXCEPT ![j] = "solve"]
  /\ NoFault /\ UNCHANGED <<quota, main, attempt, drained, configVars>>

\* The first in line takes a free slot and submits its solve.
TakeSlot(j) ==
  /\ FirstInLine(j) /\ slots > 0
  /\ Submit(j)
  /\ slots' = slots - 1
  /\ task' = [task EXCEPT ![j] = "solve"]
  /\ NoFault /\ UNCHANGED <<quota, main, attempt, drained, configVars>>

Leave(j, to) ==
  /\ task' = [task EXCEPT ![j] = to]
  /\ slots' = slots + 1
  /\ UNCHANGED <<quota, main, attempt, drained>>

\* A mistaken one, which frees the slot of a call that returned only.
SolvedHoldingSlot(j) ==
  /\ task[j] = "solve"
  /\ \/ call[j] = "result" /\ Leave(j, "persist")
     \/ /\ call[j] \in {"error", "crashed", "cancelled"}
        /\ task' = [task EXCEPT ![j] = IF call[j] = "error" THEN "failed" ELSE call[j]]
        /\ UNCHANGED <<quota, main, attempt, slots, drained>>
  /\ Consumed(j) /\ NoFault /\ UNCHANGED configVars

\* The await of the call is over, and the slot free again, however it ended.
Solved(j) ==
  /\ task[j] = "solve"
  /\ \/ call[j] = "result" /\ Leave(j, "persist")
     \/ call[j] = "error" /\ Leave(j, "failed")
     \/ call[j] = "crashed" /\ Leave(j, "crashed")
     \/ call[j] = "cancelled" /\ Leave(j, "cancelled")
  /\ Consumed(j) /\ NoFault /\ UNCHANGED configVars

Settled(j, to) ==
  /\ task' = [task EXCEPT ![j] = to]
  /\ UNCHANGED <<quota, main, attempt, slots, drained>>

\* A mistaken one, which keeps the file for the next delivery.
PersistKeepingFile(j) ==
  /\ task[j] = "persist"
  /\ \/ Settled(j, "saved") /\ NoFault /\ RemoveFile(j)
     \/ Settled(j, "retry") /\ Fails("storage") /\ UNCHANGED poolVars
  /\ UNCHANGED configVars

\* save_success, and the removal of the file whether it succeeded or not.
Persist(j) ==
  /\ task[j] = "persist"
  /\ \/ Settled(j, "saved") /\ NoFault
     \/ Settled(j, "retry") /\ Fails("storage")
  /\ RemoveFile(j) /\ UNCHANGED configVars

\* The solver processes and the executor's thread.
SolverStep ==
  /\ \E j \in Jobs :
       \/ TakeCall(j, PoolSize) \/ CreateFile(j) \/ WriteFile(j) \/ Return(j) \/ Raise(j)
  /\ NoFault /\ UNCHANGED <<configVars, processVars>>

ExecutorNotices ==
  /\ \E g \in Pools : NoticeBreak(g)
  /\ NoFault /\ UNCHANGED <<configVars, processVars>>

SolverKilled ==
  /\ main \in {"pool", "serve", "drain", "close", "closed", "exit"}
  /\ \E victim \in {{}} \union {{j} : j \in Jobs} : SolverDies(victim)
  /\ Fails("pool") /\ UNCHANGED <<configVars, processVars>>

-----------------------------------------------------------------------------
(***************************************************************************)
(* Stopping.                                                               *)
(***************************************************************************)

\* SIGTERM: the tasks there are now are waited for.
Sigterm ==
  /\ main = "serve" /\ Fails("shutdown")
  /\ main' = "drain" /\ drained' = Tasks
  /\ UNCHANGED <<quota, attempt, task, slots, configVars, poolVars>>

\* A mistaken one, which frees a slot for tasks that had none.
CancelFreeingAll(J) ==
  /\ task' = [j \in Jobs |-> IF j \in J THEN "cancelled" ELSE task[j]]
  /\ slots' = slots + Cardinality(J)
  /\ Abandon(J, {j \in J : task[j] = "persist"})
  /\ UNCHANGED <<quota, attempt, drained, configVars>>

\* Tasks that are cancelled: one at the semaphore leaves the line, one in a
\* solve frees its slot and abandons its call, one that saves removes its file.
Cancel(J) ==
  /\ task' = [j \in Jobs |-> IF j \in J THEN "cancelled" ELSE task[j]]
  /\ slots' = slots + Cardinality({j \in J : task[j] = "solve"})
  /\ Abandon(J, {j \in J : task[j] = "persist"})
  /\ UNCHANGED <<quota, attempt, drained, configVars>>

\* _drain_inflight: the tasks it waits for ended, or its time is up and the rest
\* of them is cancelled.  The subscription is drained.
Drained ==
  /\ main = "drain" /\ main' = "close"
  /\ Cancel(drained \intersect Tasks) /\ NoFault

\* The pool is shut down and the connection closed.
ShutDown ==
  /\ main = "close" /\ Reach("closed")
  /\ ShutPool /\ NoFault /\ UNCHANGED configVars

\* The event loop ends, with every task still there cancelled; then the
\* interpreter waits for the solver processes.
LoopEnds ==
  /\ main = "closed" /\ main' = "exit"
  /\ Cancel(Tasks) /\ NoFault

\* The process is gone: with nothing left to wait for, or killed at any point.
Gone ==
  /\ main' = "down"
  /\ task' = [j \in Jobs |-> IF j \in Tasks THEN "died" ELSE task[j]]
  /\ slots' = PoolSize /\ drained' = {}
  /\ AllProcessesEnd /\ Unsubscribed(Self)
  /\ UNCHANGED <<quota, attempt>>

Exit ==
  /\ main = "exit"
  /\ \A j \in Jobs : solver[j] \in {"none", "over"}
  /\ Gone /\ NoFault

Killed ==
  /\ main # "down" /\ Fails("crash") /\ Gone

\* The orchestrator starts the container again, with the same /tmp.
Restart ==
  /\ main = "down"
  /\ main' = "start" /\ attempt' = 0
  /\ NoFault /\ UNCHANGED <<quota, task, slots, drained, configVars, poolVars>>

-----------------------------------------------------------------------------
MainSteps == Sweep \/ Connect \/ CreatePool \/ Drained \/ ShutDown \/ LoopEnds \/ Exit \/ Restart

Next ==
  \/ MainSteps \/ Sigterm \/ Killed
  \/ \E w \in Workers : Configure(w)
  \/ \E j \in Jobs : Arrive(j) \/ TakeSlot(j) \/ Solved(j) \/ Persist(j)
  \/ SolverStep \/ ExecutorNotices \/ SolverKilled

\* The event loop serves every task, the solver processes run, the executor's
\* thread waits on them, and the container is restarted.
Fairness ==
  /\ WF_vars(MainSteps)
  /\ WF_vars(Configure(Self))
  /\ \A j \in Jobs : WF_vars(TakeSlot(j) \/ Solved(j) \/ Persist(j))
  /\ WF_vars(SolverStep) /\ WF_vars(ExecutorNotices)

Spec == Init /\ [][Next]_vars /\ Fairness

-----------------------------------------------------------------------------
(***************************************************************************)
(* What the worker process promises.                                       *)
(***************************************************************************)

\* save_success never finds the series file missing: neither the sweep of a
\* start nor another task's removal takes it (timeseries.remove_leftovers).
UploadHasItsFile == \A j \in Jobs : task[j] = "persist" => j \in files

\* A series file is one a solve has written, one being saved, or one whose owner
\* was stopped before it could remove it.  A task that went through
\* to its end, well or badly, has left none, and a start that is past its sweep
\* has none of an earlier process (main, _process's finally).
FilesHaveOwners ==
  /\ \A j \in files : task[j] \in {"solve", "persist", "crashed", "cancelled", "died"}
  /\ main \in {"connect", "pool"} => files = {}

\* The calls that are awaited fit in the pool's processes: none of them waits
\* behind another, so a solve's time is its own.  Only a call that was abandoned
\* at a shutdown may be there besides (max_ack_pending of another pool size).
SolvesFitThePool ==
  Cardinality({j \in Jobs : task[j] = "solve" /\ call[j] = "pending"}) <= PoolSize

\* A solve is reported crashed only for a crash of the pool it was handed to
\* while it was still fit: no submit inherits the break of an earlier one
\* (_SolverPool.submit).
CrashesAreItsOwn ==
  [][\A j \in Jobs : call[j] # "crashed" /\ call'[j] = "crashed" =>
       call[j] = "pending" /\ callPool[j] \notin broken]_vars

\* Every task that waits for a slot is done with its solve in the end, whatever
\* crashed before it (the semaphore, the rebuild of the pool).
EverySolveEnds == \A j \in Jobs : task[j] = "slot" ~> task[j] \in Ended

\* A worker that lost its start or its life serves again (the retry of the
\* connection, then the orchestrator's restart).
ComesUp == []<>(main = "serve")

-----------------------------------------------------------------------------
(***************************************************************************)
(* Why its types, UploadHasItsFile, FilesHaveOwners and SolvesFitThePool   *)
(* hold.                                                                   *)
(***************************************************************************)

\* A slot is free or held by a task that solves: none is lost or made up,
\* however a task leaves its solve (the semaphore's async with).
Solving == {j \in Jobs : task[j] = "solve"}
SlotsAreKept == IsFiniteSet(Solving) /\ slots + Cardinality(Solving) = PoolSize

\* A process that does not serve yet, or is gone, has nothing to do, and one
\* that starts has attempts left.
NothingBeforeServing ==
  /\ main \in {"start", "connect"} => attempt < MaxAttempts
  /\ main \in {"start", "connect", "pool", "down"} =>
       \A j \in Jobs : j \notin Tasks /\ call[j] = "none" /\ solver[j] = "none"

\* A process that subscribes, serves or stops has a pool to shut down.
PoolIsThere ==
  step[Self] # "off" \/ main \in {"serve", "drain", "close", "closed", "exit"} => pool \in Pools

\* A call belongs to a task that solves or was cancelled, and tells whether its
\* file is there.
FileOfCall(j) ==
  /\ call[j] # "none" \/ solver[j] # "none" => task[j] \in {"solve", "cancelled"}
  /\ solver[j] \in {"writing", "wrote"} => j \in files
  /\ call[j] = "result" => j \in files /\ solver[j] \in {"none", "over"}
  /\ solver[j] \in {"queued", "running"} => j \notin files
  /\ call[j] = "error" => j \notin files /\ solver[j] \in {"none", "over"}

FilesFollowCalls == \A j \in Jobs : FileOfCall(j)

Steady ==
  /\ TypeOK /\ SlotsAreKept /\ NothingBeforeServing /\ PoolIsThere /\ FilesFollowCalls
  /\ UploadHasItsFile /\ FilesHaveOwners
=============================================================================
