------------------------ MODULE WorkerProcessProofs ------------------------
(***************************************************************************)
(* What holds of a worker process for any number of jobs, pools, attempts  *)
(* and workers, whatever CPU quota it has and whatever fails.              *)
(***************************************************************************)
EXTENDS WorkerProcess, FiniteSetTheorems, TLAPS

-----------------------------------------------------------------------------
(***************************************************************************)
(* The consumer's settings.                                                *)
(***************************************************************************)

\* What a step does to the consumer's settings is the step of one worker.
LEMMA StepOfConfig ==
  ASSUME [Next]_vars
  PROVE  \/ UNCHANGED configVars
         \/ \E w \in Workers :
              \/ BeginSubscribe(w) \/ ReadSettings(w) \/ WriteSettings(w)
              \/ RequestRaises(w) \/ Subscribe(w) \/ Unsubscribed(w)
<1>1. CASE MainSteps \/ Sigterm \/ Killed
  BY <1>1, WorkerProcessAssumption
     DEF MainSteps, Sweep, Connect, CreatePool, Drained, Cancel, ShutDown, LoopEnds, Exit, Restart,
         Sigterm, Killed, Gone
<1>2. ASSUME NEW w \in Workers, Configure(w)
      PROVE  BeginSubscribe(w) \/ ReadSettings(w) \/ WriteSettings(w)
             \/ RequestRaises(w) \/ Subscribe(w)
  BY <1>2 DEF Configure
<1>3. ASSUME NEW j \in Jobs, Arrive(j) \/ TakeSlot(j) \/ Solved(j) \/ Persist(j)
      PROVE  UNCHANGED configVars
  BY <1>3 DEF Arrive, TakeSlot, Solved, Persist
<1>4. CASE SolverStep \/ ExecutorNotices \/ SolverKilled
  BY <1>4 DEF SolverStep, ExecutorNotices, SolverKilled
<1>5. CASE UNCHANGED vars
  BY <1>5 DEF vars
<1> QED BY <1>1, <1>2, <1>3, <1>4, <1>5 DEF Next

\* A consumer that exists is not the missing one.
LEMMA ConsumersExist == NoConsumer \notin Configurations
<1>1. ASSUME NEW c \in Configurations PROVE c # NoConsumer
  <2>1. "settings" \in DOMAIN c
    BY DEF Configurations
  <2> QED BY <2>1 DEF NoConsumer
<1> QED BY <1>1

\* What a worker writes back has the settings it declares, for those it read
\* differ from them only where it replaces them, and the bindings it read.
LEMMA WritesDeclared ==
  ASSUME NEW w \in Workers, seen[w] \in Configurations
  PROVE  /\ Evolved(w) \in Configurations
         /\ Evolved(w).settings = Declared[w]
         /\ Evolved(w).bindings = seen[w].bindings
<1>1. Declared[w] \in [DeclaredFields -> Nat]
  BY ConfigAssumption DEF Settings
<1>2. Replaced(w, seen[w], seen[w].settings) = Declared[w]
  <2>1. \A f \in DeclaredFields :
          (IF f \in Drift(w, seen[w]) THEN Declared[w][f] ELSE seen[w].settings[f]) = Declared[w][f]
    BY DEF Drift
  <2> QED BY <1>1, <2>1 DEF Replaced
<1> QED BY <1>1, <1>2 DEF Evolved, Configurations, Settings

\* Nor does it create any other.
LEMMA CreatesDeclared ==
  ASSUME NEW w \in Workers
  PROVE  /\ Created(Declared[w]) \in Configurations
         /\ Created(Declared[w]).settings = Declared[w]
         /\ Created(Declared[w]).bindings = "original"
BY ConfigAssumption DEF Created, Configurations

\* A step of the configuration leaves it, writes it or creates it.
Configures(w) ==
  \/ UNCHANGED stored
  \/ step[w] = "write" /\ stored' = Evolved(w)
  \/ step[w] = "subscribe" /\ stored = NoConsumer /\ stored' = Created(Declared[w])

LEMMA StepConfigures ==
  ASSUME NEW w \in Workers,
         \/ BeginSubscribe(w) \/ ReadSettings(w) \/ WriteSettings(w)
         \/ RequestRaises(w) \/ Subscribe(w) \/ Unsubscribed(w)
  PROVE  Configures(w)
BY DEF BeginSubscribe, ReadSettings, WriteSettings, RequestRaises, Subscribe, Unsubscribed, Configures

\* A worker that writes has read a consumer.
WritersHaveRead == \A w \in Workers : step[w] = "write" => seen[w] # NoConsumer

LEMMA StepConfigType ==
  ASSUME ConfigTypeOK, WritersHaveRead, [Next]_vars
  PROVE  ConfigTypeOK' /\ WritersHaveRead'
<1>1. CASE UNCHANGED configVars
  BY <1>1 DEF configVars, ConfigTypeOK, WritersHaveRead
<1>2. ASSUME NEW w \in Workers,
             \/ BeginSubscribe(w) \/ ReadSettings(w) \/ WriteSettings(w)
             \/ RequestRaises(w) \/ Subscribe(w) \/ Unsubscribed(w)
      PROVE  ConfigTypeOK' /\ WritersHaveRead'
  <2>1. stored' \in Configurations \union {NoConsumer}
    <3>1. step[w] = "write" => Evolved(w) \in Configurations
      BY WritesDeclared DEF ConfigTypeOK, WritersHaveRead
    <3> QED BY <1>2, <3>1, StepConfigures, CreatesDeclared DEF Configures, ConfigTypeOK
  <2>2. /\ \E c \in Configurations \union {NoConsumer} : seen' = [seen EXCEPT ![w] = c]
        /\ step'[w] = "write" => seen'[w] # NoConsumer
    BY <1>2
       DEF BeginSubscribe, ReadSettings, WriteSettings, RequestRaises, Subscribe, Unsubscribed,
           Proceed, Forget, ConfigTypeOK, WritersHaveRead
  <2>3. \E s \in {"off", "read", "write", "subscribe", "bound"} : step' = [step EXCEPT ![w] = s]
    BY <1>2
       DEF BeginSubscribe, ReadSettings, WriteSettings, RequestRaises, Subscribe, Unsubscribed, Proceed
  <2> QED BY <2>1, <2>2, <2>3 DEF ConfigTypeOK, WritersHaveRead
<1> QED BY <1>1, <1>2, StepOfConfig

\* The settings change only to what one worker declares.
LEMMA SettingsChange ==
  ASSUME ConfigTypeOK, WritersHaveRead, [Next]_vars
  PROVE  stored' = stored \/ \E w \in Workers : stored' # NoConsumer /\ stored'.settings = Declared[w]
<1>1. ASSUME NEW w \in Workers, Configures(w)
      PROVE  stored' = stored \/ (stored' # NoConsumer /\ stored'.settings = Declared[w])
  <2>1. step[w] = "write" => Evolved(w) # NoConsumer /\ Evolved(w).settings = Declared[w]
    BY WritesDeclared, ConsumersExist DEF ConfigTypeOK, WritersHaveRead
  <2>2. Created(Declared[w]) # NoConsumer /\ Created(Declared[w]).settings = Declared[w]
    BY CreatesDeclared, ConsumersExist
  <2> QED BY <1>1, <2>1, <2>2 DEF Configures
<1> QED BY <1>1, StepOfConfig, StepConfigures DEF configVars

\* The stored settings are one build's, however the requests of any number of
\* workers, of any builds, interleave.
THEOREM SettingsAreOneBuilds == Spec => []SettingsOfOneBuild
<1>1. Init => ConfigTypeOK /\ WritersHaveRead /\ SettingsOfOneBuild
  BY ConfigAssumption
     DEF Init, ConfigInit, ConfigTypeOK, WritersHaveRead, Configurations, Created, SettingsOfOneBuild
<1>2. ConfigTypeOK /\ WritersHaveRead /\ SettingsOfOneBuild /\ [Next]_vars
        => ConfigTypeOK' /\ WritersHaveRead' /\ SettingsOfOneBuild'
  BY SettingsChange, StepConfigType DEF SettingsOfOneBuild
<1> QED BY <1>1, <1>2, PTL DEF Spec

LEMMA StepSubscribesOverDeclared ==
  ASSUME ConfigTypeOK, SubscribesOverDeclared, [Next]_vars
  PROVE  SubscribesOverDeclared'
<1>1. CASE UNCHANGED configVars
  BY <1>1 DEF configVars, SubscribesOverDeclared
<1>2. ASSUME NEW w \in Workers,
             \/ BeginSubscribe(w) \/ ReadSettings(w) \/ WriteSettings(w)
             \/ RequestRaises(w) \/ Subscribe(w) \/ Unsubscribed(w)
      PROVE  SubscribesOverDeclared'
  <2>1. \/ UNCHANGED stored
        \/ /\ stored' \in Configurations /\ stored' # NoConsumer
           /\ stored'.settings = Declared[w] /\ stored'.bindings = "original"
    <3>1. step[w] = "write" => /\ Evolved(w) \in Configurations /\ Evolved(w).bindings = "original"
                               /\ Evolved(w).settings = Declared[w]
      BY WritesDeclared DEF ConfigTypeOK, SubscribesOverDeclared
    <3> QED BY <1>2, <3>1, StepConfigures, CreatesDeclared, ConsumersExist DEF Configures
  <2>2. /\ \A v \in Workers \ {w} : step'[v] = step[v] /\ seen'[v] = seen[v]
        /\ seen'[w] \in {seen[w], stored, NoConsumer}
    BY <1>2
       DEF BeginSubscribe, ReadSettings, WriteSettings, RequestRaises, Subscribe, Unsubscribed,
           Proceed, Forget, ConfigTypeOK
  <2>3. /\ step'[w] = "write" => seen'[w] # NoConsumer /\ stored' # NoConsumer
        /\ step'[w] = "bound" => stored' # NoConsumer
    BY <1>2, ConsumersExist, CreatesDeclared
       DEF BeginSubscribe, ReadSettings, WriteSettings, RequestRaises, Subscribe, Unsubscribed,
           Proceed, Forget, ConfigTypeOK
  <2>4. /\ stored' # NoConsumer => stored'.bindings = "original"
        /\ \A v \in Workers : seen'[v] # NoConsumer => seen'[v].bindings = "original"
    BY <2>1, <2>2 DEF SubscribesOverDeclared
  <2>5. step'[w] \in {"subscribe", "bound"} =>
          stored' = NoConsumer \/ stored'.settings \in {Declared[v] : v \in Workers}
    <3>1. stored # NoConsumer /\ Drift(w, stored) = {} => stored.settings = Declared[w]
      <4>1. Declared[w] \in [DeclaredFields -> Nat]
        BY ConfigAssumption DEF Settings
      <4> QED BY <4>1 DEF Drift, ConfigTypeOK, Configurations, Settings
    <3>2. CASE ReadSettings(w)
      BY <3>1, <3>2 DEF ReadSettings, Proceed, ConfigTypeOK
    <3>3. CASE Subscribe(w)
      BY <2>1, <3>3 DEF Subscribe, SubscribesOverDeclared
    <3>4. CASE WriteSettings(w)
      BY <3>4, WritesDeclared DEF WriteSettings, ConfigTypeOK, SubscribesOverDeclared
    <3>5. CASE BeginSubscribe(w) \/ RequestRaises(w) \/ Unsubscribed(w)
      BY <3>5 DEF BeginSubscribe, RequestRaises, Unsubscribed, Proceed, ConfigTypeOK
    <3> QED BY <1>2, <3>2, <3>3, <3>4, <3>5
  <2> QED BY <2>1, <2>2, <2>3, <2>4, <2>5 DEF SubscribesOverDeclared
<1> QED BY <1>1, <1>2, StepOfConfig

\* From the subscription of any worker on, the consumer has the settings of a
\* build that starts workers, whatever an earlier build left, and the deliver
\* subject, queue group and filter it was created with.
THEOREM ConsumerIsReconciled == Spec => []Reconciled
<1>1. Init => ConfigTypeOK /\ SubscribesOverDeclared
  BY ConfigAssumption, ConsumersExist
     DEF Init, ConfigInit, ConfigTypeOK, Configurations, Created, SubscribesOverDeclared
<1>2. ConfigTypeOK /\ SubscribesOverDeclared /\ [Next]_vars
        => ConfigTypeOK' /\ SubscribesOverDeclared'
  BY StepConfigType, StepSubscribesOverDeclared DEF SubscribesOverDeclared, WritersHaveRead
<1>3. ConfigTypeOK /\ SubscribesOverDeclared => Reconciled
  <2> SUFFICES ASSUME ConfigTypeOK, SubscribesOverDeclared, \E w \in Workers : step[w] = "bound"
               PROVE  \E w \in Workers : stored = Created(Declared[w])
    BY DEF Reconciled
  <2>1. stored \in Configurations /\ stored.bindings = "original"
    BY DEF ConfigTypeOK, SubscribesOverDeclared
  <2>2. PICK w \in Workers : stored.settings = Declared[w]
    BY <2>1 DEF SubscribesOverDeclared
  <2> QED BY <2>1, <2>2 DEF Created, Configurations
<1> QED BY <1>1, <1>2, <1>3, PTL DEF Spec

-----------------------------------------------------------------------------
(***************************************************************************)
(* Slots, calls and files.                                                 *)
(***************************************************************************)

LEMMA PoolSizeType ==
  ASSUME quota \in Quotas
  PROVE  PoolSize \in Nat /\ PoolSize > 0
<1>1. quota \in Nat /\ HostCpus \in Nat \ {0}
  BY WorkerProcessAssumption
<1>2. quota \div 100 \in Nat
  BY <1>1
<1>3. AvailableCpus \in Nat /\ AvailableCpus > 0
  BY <1>1, <1>2 DEF AvailableCpus, AtLeastOne
<1> QED BY <1>3 DEF PoolSize, AtLeastOne

\* What a step leaves of the quota.
LEMMA QuotaStays ==
  ASSUME [Next]_vars
  PROVE  quota' = quota /\ PoolSize' = PoolSize
<1>1. quota' = quota
  BY DEF vars, processVars, Next, MainSteps, Sweep, Connect, CreatePool, Drained, Cancel, ShutDown,
         LoopEnds, Exit, Restart, Sigterm, Killed, Gone, Configure, Arrive, TakeSlot, Solved,
         Persist, Reach, Leave, Settled, SolverStep, ExecutorNotices, SolverKilled
<1> QED BY <1>1 DEF PoolSize, AvailableCpus

\* The steps of the pool that no task takes.
PoolOnly ==
  /\ UNCHANGED processVars
  /\ \/ \E j \in Jobs : TakeCall(j, PoolSize) \/ CreateFile(j) \/ WriteFile(j) \/ Return(j) \/ Raise(j)
     \/ \E g \in Pools : NoticeBreak(g)
     \/ \E victim \in {{}} \union {{j} : j \in Jobs} : SolverDies(victim)

\* Every step, seen from the tasks.
LEMMA StepOfProcess ==
  ASSUME [Next]_vars
  PROVE  \/ MainSteps \/ Sigterm \/ Killed
         \/ \E j \in Jobs : Arrive(j) \/ TakeSlot(j) \/ Solved(j) \/ Persist(j)
         \/ PoolOnly /\ UNCHANGED configVars
         \/ \E w \in Workers : Configure(w)
         \/ UNCHANGED vars
BY DEF Next, SolverStep, ExecutorNotices, SolverKilled, PoolOnly

\* What FileOfCall, UploadHasItsFile and FilesHaveOwners say of one job.
Kept(j) ==
  /\ FileOfCall(j)
  /\ task[j] = "persist" => j \in files
  /\ j \in files => task[j] \in {"solve", "persist", "crashed", "cancelled", "died"}

JobsKept == \A j \in Jobs : Kept(j)

LEMMA SameJob ==
  ASSUME NEW j \in Jobs, Kept(j),
         task'[j] = task[j], call'[j] = call[j], solver'[j] = solver[j],
         j \in files' <=> j \in files
  PROVE  Kept(j)'
BY DEF Kept, FileOfCall

LEMMA SameJobs ==
  ASSUME JobsKept, UNCHANGED <<task, call, solver, files>>
  PROVE  JobsKept'
BY SameJob DEF JobsKept

\* How many slots are free, however the tasks that solve change.
LEMMA SlotTaken ==
  ASSUME SlotsAreKept, PoolSize \in Nat, PoolSize' = PoolSize, slots \in Nat,
         NEW j, j \notin Solving, Solving' = Solving \union {j}, slots' = slots - 1
  PROVE  SlotsAreKept'
<1>1. Cardinality(Solving) \in Nat
  BY FS_CardinalityType DEF SlotsAreKept
<1>2. IsFiniteSet(Solving') /\ Cardinality(Solving') = Cardinality(Solving) + 1
  BY FS_AddElement DEF SlotsAreKept
<1> QED BY <1>1, <1>2 DEF SlotsAreKept

LEMMA SlotLeft ==
  ASSUME SlotsAreKept, PoolSize \in Nat, PoolSize' = PoolSize, slots \in Nat,
         NEW j, j \in Solving, Solving' = Solving \ {j}, slots' = slots + 1
  PROVE  SlotsAreKept'
<1>1. Cardinality(Solving) \in Nat
  BY FS_CardinalityType DEF SlotsAreKept
<1>2. IsFiniteSet(Solving') /\ Cardinality(Solving') = Cardinality(Solving) - 1
  BY FS_RemoveElement DEF SlotsAreKept
<1> QED BY <1>1, <1>2 DEF SlotsAreKept

LEMMA SlotsLeft ==
  ASSUME SlotsAreKept, PoolSize \in Nat, PoolSize' = PoolSize, slots \in Nat,
         NEW J, Solving' = Solving \ J, slots' = slots + Cardinality(Solving \intersect J)
  PROVE  SlotsAreKept' /\ slots' \in Nat
<1>1. /\ Cardinality(Solving) \in Nat
      /\ IsFiniteSet(Solving \intersect J) /\ Cardinality(Solving \intersect J) \in Nat
  BY FS_CardinalityType, FS_Subset DEF SlotsAreKept
<1>2. /\ IsFiniteSet(Solving \ J)
      /\ Cardinality(Solving \ J) = Cardinality(Solving) - Cardinality(Solving \intersect J)
  BY FS_Difference DEF SlotsAreKept
<1> QED BY <1>1, <1>2 DEF SlotsAreKept

LEMMA SlotsNew ==
  ASSUME Solving' = {}, slots' = PoolSize', PoolSize' \in Nat
  PROVE  SlotsAreKept'
BY FS_EmptySet DEF SlotsAreKept

\* A set of slots that adds up is within bounds.
LEMMA SlotsInBounds ==
  ASSUME SlotsAreKept', PoolSize' \in Nat, slots' \in Nat
  PROVE  slots' \in 0..PoolSize'
<1>1. Cardinality(Solving') \in Nat
  BY FS_CardinalityType DEF SlotsAreKept
<1> QED BY <1>1 DEF SlotsAreKept

CleanStart == main \in {"connect", "pool"} => files = {}

\* Steady, without the consumer's settings.
Fit ==
  /\ PoolTypeOK /\ ProcessTypeOK /\ SlotsAreKept
  /\ NothingBeforeServing /\ PoolIsThere /\ JobsKept /\ CleanStart

LEMMA SteadyIsFit == Steady <=> TypeOK /\ Fit
BY DEF Steady, Fit, TypeOK, PoolTypeOK, JobsKept, Kept, FilesFollowCalls, UploadHasItsFile,
       FilesHaveOwners, CleanStart

LEMMA InitFit == Init => Fit
<1> SUFFICES ASSUME Init PROVE Fit
  OBVIOUS
<1>1. PoolSize \in Nat
  BY PoolSizeType DEF Init
<1>2. Solving = {} /\ Tasks = {}
  BY DEF Init, Solving, Tasks
<1>3. SlotsAreKept
  BY <1>1, <1>2, FS_EmptySet DEF Init, SlotsAreKept
<1>4. PoolTypeOK /\ ProcessTypeOK
  BY <1>1, SolverPoolAssumption, WorkerProcessAssumption DEF Init, PoolInit, PoolTypeOK, ProcessTypeOK
<1>5. NothingBeforeServing /\ PoolIsThere /\ JobsKept /\ CleanStart
  BY <1>2, WorkerProcessAssumption
     DEF Init, ConfigInit, PoolInit, NothingBeforeServing, PoolIsThere, JobsKept, Kept, FileOfCall, CleanStart
<1> QED BY <1>3, <1>4, <1>5 DEF Fit

LEMMA MainFit ==
  ASSUME Fit, [Next]_vars, Sweep \/ Connect \/ CreatePool \/ ShutDown \/ Restart \/ Sigterm
  PROVE  Fit'
<1> USE DEF Fit
<1>1. /\ PoolSize \in Nat /\ PoolSize' = PoolSize /\ quota' = quota
      /\ MaxAttempts \in Nat \ {0} /\ MaxPools \in Nat \ {0}
  BY PoolSizeType, QuotaStays, WorkerProcessAssumption, SolverPoolAssumption DEF ProcessTypeOK
<1>2. CASE Sweep
  BY <1>1, <1>2
     DEF Sweep, Reach, RemoveLeftovers, configVars, PoolTypeOK, ProcessTypeOK, SlotsAreKept, Solving,
         NothingBeforeServing, PoolIsThere, Tasks, JobsKept, Kept, FileOfCall, CleanStart
<1>3. CASE Connect
  <2>1. PoolTypeOK' /\ ProcessTypeOK'
    BY <1>1, <1>3 DEF Connect, Reach, poolVars, PoolTypeOK, ProcessTypeOK, NothingBeforeServing
  <2>2. UNCHANGED <<task, slots, poolVars, configVars>>
    BY <1>3 DEF Connect, Reach
  <2>3. SlotsAreKept' /\ JobsKept'
    BY <1>1, <2>2, SameJobs DEF SlotsAreKept, Solving, poolVars
  <2>4. NothingBeforeServing' /\ PoolIsThere' /\ CleanStart'
    BY <1>1, <1>3, <2>2 DEF Connect, Reach, NothingBeforeServing, PoolIsThere, CleanStart, Tasks,
                            poolVars, configVars, ProcessTypeOK
  <2> QED BY <2>1, <2>3, <2>4
<1>4. CASE CreatePool
  <2>1. PoolTypeOK' /\ ProcessTypeOK'
    BY <1>1, <1>4 DEF CreatePool, NewPool, PoolTypeOK, ProcessTypeOK
  <2>2. UNCHANGED <<main, attempt, task, call, solver, files>>
    BY <1>4 DEF CreatePool, NewPool
  <2>3. SlotsAreKept'
    <3>1. Solving' = {}
      BY <1>4, <2>2 DEF CreatePool, NothingBeforeServing, Tasks, Solving
    <3> QED BY <1>1, <1>4, <3>1, SlotsNew DEF CreatePool
  <2>4. NothingBeforeServing' /\ CleanStart' /\ JobsKept'
    BY <2>2, SameJobs DEF NothingBeforeServing, CleanStart, Tasks
  <2>5. PoolIsThere'
    BY <1>1, <1>4 DEF CreatePool, NewPool, PoolIsThere, PoolTypeOK, Pools
  <2> QED BY <2>1, <2>3, <2>4, <2>5
<1>5. CASE ShutDown
  <2>1. UNCHANGED <<attempt, task, slots, files, quota, drained, pool, step>> /\ main = "close" /\ main' = "closed"
    BY <1>5 DEF ShutDown, Reach, ShutPool, configVars
  <2>2. PICK C \in SUBSET {j \in Held(pool) : solver[j] = "queued"} :
          /\ call' = [j \in Jobs |-> IF j \in C THEN "cancelled" ELSE call[j]]
          /\ solver' = [j \in Jobs |-> IF j \in C THEN "over" ELSE solver[j]]
    BY <1>5 DEF ShutDown, ShutPool
  <2>3. PoolTypeOK' /\ ProcessTypeOK'
    BY <1>1, <1>5, <2>1, <2>2 DEF ShutDown, ShutPool, PoolTypeOK, ProcessTypeOK, PoolIsThere
  <2>4. SlotsAreKept' /\ NothingBeforeServing' /\ PoolIsThere' /\ CleanStart'
    BY <1>1, <2>1 DEF SlotsAreKept, Solving, NothingBeforeServing, PoolIsThere, CleanStart
  <2>5. JobsKept'
    BY <2>1, <2>2 DEF JobsKept, Kept, FileOfCall
  <2> QED BY <2>3, <2>4, <2>5
<1>6. CASE Restart
  BY <1>1, <1>6
     DEF Restart, poolVars, configVars, PoolTypeOK, ProcessTypeOK, SlotsAreKept, Solving,
         NothingBeforeServing, PoolIsThere, Tasks, JobsKept, Kept, FileOfCall, CleanStart
<1>7. CASE Sigterm
  BY <1>1, <1>7
     DEF Sigterm, poolVars, configVars, PoolTypeOK, ProcessTypeOK, SlotsAreKept, Solving,
         NothingBeforeServing, PoolIsThere, Tasks, JobsKept, Kept, FileOfCall, CleanStart
<1> QED BY <1>2, <1>3, <1>4, <1>5, <1>6, <1>7

\* Tasks that are cancelled keep what is their own: the file of one that solves
\* may stay, that of one that saves goes.
LEMMA CancelFit ==
  ASSUME Fit, [Next]_vars, Drained \/ LoopEnds
  PROVE  Fit'
<1> USE DEF Fit
<1>1. PoolSize \in Nat /\ PoolSize' = PoolSize /\ quota' = quota
  BY PoolSizeType, QuotaStays DEF ProcessTypeOK
<1>2. PICK J \in SUBSET Tasks : Cancel(J) /\ main' \in {"close", "exit"} /\ main \in {"drain", "closed"}
  BY DEF Drained, LoopEnds
<1>3. PICK C \in SUBSET {j \in J : solver[j] = "queued"} :
        solver' = [j \in Jobs |-> IF j \in C THEN "over" ELSE solver[j]]
  BY <1>2 DEF Cancel, Abandon
<1>4. /\ task' = [j \in Jobs |-> IF j \in J THEN "cancelled" ELSE task[j]]
      /\ call' = [j \in Jobs |-> IF j \in J /\ call[j] = "pending" THEN "cancelled" ELSE call[j]]
      /\ files' = files \ {j \in J : task[j] = "persist"}
      /\ UNCHANGED <<pool, dying, broken, shut, callPool, attempt, drained, step>>
  BY <1>2 DEF Cancel, Abandon, configVars
<1>5. SlotsAreKept' /\ slots' \in Nat
  <2>1. Solving' = Solving \ J
    BY <1>2, <1>4 DEF Solving, Tasks
  <2>2. Solving \intersect J = {j \in J : task[j] = "solve"}
    BY <1>2 DEF Solving, Tasks
  <2>3. slots' = slots + Cardinality(Solving \intersect J)
    BY <1>2, <2>2 DEF Cancel
  <2> QED BY <1>1, <2>1, <2>3, SlotsLeft DEF ProcessTypeOK
<1>6. PoolTypeOK' /\ ProcessTypeOK'
  BY <1>1, <1>2, <1>3, <1>4, <1>5, SlotsInBounds DEF PoolTypeOK, ProcessTypeOK, Ended
<1>7. NothingBeforeServing' /\ PoolIsThere' /\ CleanStart'
  BY <1>2, <1>4 DEF NothingBeforeServing, PoolIsThere, CleanStart, Pools
<1>8. JobsKept'
  <2> SUFFICES ASSUME NEW j \in Jobs PROVE Kept(j)'
    BY DEF JobsKept
  <2>1. CASE j \notin J
    BY <1>3, <1>4, <2>1, SameJob DEF JobsKept
  <2>2. CASE j \in J
    BY <1>2, <1>3, <1>4, <2>2 DEF JobsKept, Kept, FileOfCall, Tasks
  <2> QED BY <2>1, <2>2
<1> QED BY <1>5, <1>6, <1>7, <1>8

LEMMA GoneFit ==
  ASSUME ConfigTypeOK, Fit, [Next]_vars, Exit \/ Killed
  PROVE  Fit'
<1> USE DEF Fit
<1>1. PoolSize \in Nat /\ PoolSize' = PoolSize /\ quota' = quota
  BY PoolSizeType, QuotaStays DEF ProcessTypeOK
<1>2. Gone
  BY DEF Exit, Killed
<1>3. SlotsAreKept'
  <2>1. Solving' = {}
    BY <1>2 DEF Gone, Solving, Tasks
  <2> QED BY <1>1, <1>2, <2>1, SlotsNew DEF Gone
<1>4. PoolTypeOK' /\ ProcessTypeOK'
  BY <1>1, <1>2, SolverPoolAssumption DEF Gone, AllProcessesEnd, PoolTypeOK, ProcessTypeOK, Ended
<1>5. NothingBeforeServing' /\ CleanStart'
  BY <1>2 DEF Gone, AllProcessesEnd, NothingBeforeServing, CleanStart, Tasks
<1>6. PoolIsThere'
  <2>1. main' = "down"
    BY <1>2 DEF Gone
  <2>2. step'[Self] = "off"
    BY <1>2, WorkerProcessAssumption DEF Gone, Unsubscribed, Proceed, ConfigTypeOK
  <2> QED BY <2>1, <2>2 DEF PoolIsThere
<1>7. JobsKept'
  BY <1>2 DEF Gone, AllProcessesEnd, JobsKept, Kept, FileOfCall, Tasks
<1> QED BY <1>3, <1>4, <1>5, <1>6, <1>7

LEMMA ConfigureFit ==
  ASSUME ConfigTypeOK, Fit, [Next]_vars, NEW w \in Workers, Configure(w)
  PROVE  Fit'
<1> USE DEF Fit
<1>1. PoolSize \in Nat /\ PoolSize' = PoolSize /\ quota' = quota
  BY PoolSizeType, QuotaStays DEF ProcessTypeOK
<1>2. /\ UNCHANGED poolVars
      /\ \/ UNCHANGED processVars
         \/ w = Self /\ step[Self] # "off" /\ (Reach("serve") \/ Reach("close"))
  BY DEF Configure, Subscribe, RequestRaises
<1>3. step'[Self] # "off" => step[Self] # "off"
  BY WorkerProcessAssumption
     DEF Configure, BeginSubscribe, ReadSettings, WriteSettings, Subscribe, RequestRaises,
         Proceed, ConfigTypeOK
<1>4. PoolTypeOK' /\ ProcessTypeOK'
  BY <1>1, <1>2 DEF poolVars, processVars, Reach, PoolTypeOK, ProcessTypeOK
<1>5. SlotsAreKept' /\ JobsKept'
  BY <1>1, <1>2, SameJobs DEF poolVars, processVars, Reach, SlotsAreKept, Solving
<1>6. NothingBeforeServing' /\ PoolIsThere' /\ CleanStart'
  BY <1>2, <1>3
     DEF poolVars, processVars, Reach, NothingBeforeServing, PoolIsThere, CleanStart, Tasks
<1> QED BY <1>4, <1>5, <1>6

LEMMA ArriveFit ==
  ASSUME Fit, [Next]_vars, NEW j \in Jobs, Arrive(j)
  PROVE  Fit'
<1> USE DEF Fit
<1>1. PoolSize \in Nat /\ PoolSize' = PoolSize /\ quota' = quota
  BY PoolSizeType, QuotaStays DEF ProcessTypeOK
<1>2. /\ task' = [task EXCEPT ![j] = "slot"] /\ task[j] = "away" /\ main \in {"serve", "drain"}
      /\ UNCHANGED <<main, attempt, slots, drained, step, poolVars>>
  BY DEF Arrive, configVars
<1>3. PoolTypeOK' /\ ProcessTypeOK'
  BY <1>1, <1>2 DEF poolVars, PoolTypeOK, ProcessTypeOK
<1>4. SlotsAreKept'
  <2>1. Solving' = Solving
    BY <1>2 DEF Solving, ProcessTypeOK
  <2> QED BY <1>1, <1>2, <2>1 DEF SlotsAreKept
<1>5. NothingBeforeServing' /\ PoolIsThere' /\ CleanStart'
  BY <1>2 DEF poolVars, NothingBeforeServing, PoolIsThere, CleanStart
<1>6. JobsKept'
  BY <1>2 DEF poolVars, ProcessTypeOK, JobsKept, Kept, FileOfCall
<1> QED BY <1>3, <1>4, <1>5, <1>6

LEMMA TakeSlotFit ==
  ASSUME Fit, [Next]_vars, NEW j \in Jobs, TakeSlot(j)
  PROVE  Fit'
<1> USE DEF Fit
<1>1. PoolSize \in Nat /\ PoolSize' = PoolSize /\ quota' = quota
  BY PoolSizeType, QuotaStays DEF ProcessTypeOK
<1>2. /\ task' = [task EXCEPT ![j] = "solve"] /\ task[j] = "slot"
      /\ slots > 0 /\ slots' = slots - 1
      /\ UNCHANGED <<main, attempt, drained, step>>
  BY DEF TakeSlot, FirstInLine, Waiting, configVars
<1>3. /\ pool' \in {pool} \union Pools
      /\ UNCHANGED <<dying, broken, shut, files>>
      /\ \/ /\ call' = [call EXCEPT ![j] = "pending"] /\ solver' = [solver EXCEPT ![j] = "queued"]
            /\ callPool' = [callPool EXCEPT ![j] = pool']
         \/ call' = [call EXCEPT ![j] = "error"] /\ UNCHANGED <<solver, callPool>>
  BY SolverPoolAssumption
     DEF TakeSlot, Submit, Accepted, Refused, Pools, PoolTypeOK
<1>4. PoolTypeOK'
  BY <1>3 DEF PoolTypeOK, Pools
<1>5. slots' \in Nat /\ SlotsAreKept'
  <2>1. Solving' = Solving \union {j} /\ j \notin Solving
    BY <1>2 DEF Solving, ProcessTypeOK
  <2>2. slots \in Nat /\ slots' \in Nat
    BY <1>1, <1>2 DEF ProcessTypeOK
  <2> QED BY <1>1, <1>2, <2>1, <2>2, SlotTaken
<1>6. ProcessTypeOK'
  BY <1>1, <1>2, <1>5, SlotsInBounds DEF ProcessTypeOK
<1>7. NothingBeforeServing' /\ PoolIsThere' /\ CleanStart'
  BY <1>2, <1>3 DEF NothingBeforeServing, PoolIsThere, CleanStart, Tasks
<1>8. JobsKept'
  <2>1. j \notin files /\ solver[j] = "none"
    BY <1>2 DEF JobsKept, Kept, FileOfCall
  <2> SUFFICES ASSUME NEW k \in Jobs PROVE Kept(k)'
    BY DEF JobsKept
  <2>2. CASE k = j
    BY <1>2, <1>3, <2>1, <2>2 DEF ProcessTypeOK, PoolTypeOK, Kept, FileOfCall
  <2>3. CASE k # j
    BY <1>2, <1>3, <2>3, SameJob DEF ProcessTypeOK, PoolTypeOK, JobsKept
  <2> QED BY <2>2, <2>3
<1> QED BY <1>4, <1>5, <1>6, <1>7, <1>8

LEMMA SolvedFit ==
  ASSUME Fit, [Next]_vars, NEW j \in Jobs, Solved(j)
  PROVE  Fit'
<1> USE DEF Fit
<1>1. PoolSize \in Nat /\ PoolSize' = PoolSize /\ quota' = quota
  BY PoolSizeType, QuotaStays DEF ProcessTypeOK
<1>2. PICK to \in {"persist", "failed", "crashed", "cancelled"} :
        /\ Leave(j, to) /\ task[j] = "solve"
        /\ call[j] = CASE to = "persist" -> "result" [] to = "failed" -> "error" [] OTHER -> to
  BY DEF Solved
<1>3. /\ call' = [call EXCEPT ![j] = "none"] /\ solver' = [solver EXCEPT ![j] = "none"]
      /\ callPool' = [callPool EXCEPT ![j] = 0]
      /\ UNCHANGED <<pool, dying, broken, shut, files, step>>
  BY DEF Solved, Consumed, configVars
<1>4. /\ task' = [task EXCEPT ![j] = to] /\ slots' = slots + 1
      /\ UNCHANGED <<main, attempt, drained>>
  BY <1>2 DEF Leave
<1>5. PoolTypeOK'
  BY <1>3, SolverPoolAssumption DEF PoolTypeOK
<1>6. slots' \in Nat /\ SlotsAreKept'
  <2>1. Solving' = Solving \ {j} /\ j \in Solving
    BY <1>2, <1>4 DEF Solving, ProcessTypeOK
  <2>2. slots \in Nat /\ slots' \in Nat
    BY <1>1, <1>4 DEF ProcessTypeOK
  <2> QED BY <1>1, <1>4, <2>1, <2>2, SlotLeft
<1>7. ProcessTypeOK'
  BY <1>1, <1>4, <1>6, SlotsInBounds DEF ProcessTypeOK, Ended
<1>8. NothingBeforeServing' /\ PoolIsThere' /\ CleanStart'
  BY <1>2, <1>3, <1>4 DEF NothingBeforeServing, PoolIsThere, CleanStart, Tasks
<1>9. JobsKept'
  <2> SUFFICES ASSUME NEW k \in Jobs PROVE Kept(k)'
    BY DEF JobsKept
  <2>1. CASE k = j
    BY <1>2, <1>3, <1>4, <2>1 DEF ProcessTypeOK, PoolTypeOK, JobsKept, Kept, FileOfCall
  <2>2. CASE k # j
    BY <1>3, <1>4, <2>2, SameJob DEF ProcessTypeOK, PoolTypeOK, JobsKept
  <2> QED BY <2>1, <2>2
<1> QED BY <1>5, <1>6, <1>7, <1>8, <1>9

LEMMA PersistFit ==
  ASSUME Fit, [Next]_vars, NEW j \in Jobs, Persist(j)
  PROVE  Fit'
<1> USE DEF Fit
<1>1. PoolSize \in Nat /\ PoolSize' = PoolSize /\ quota' = quota
  BY PoolSizeType, QuotaStays DEF ProcessTypeOK
<1>2. PICK to \in {"saved", "retry"} :
        /\ task' = [task EXCEPT ![j] = to] /\ task[j] = "persist"
        /\ files' = files \ {j}
        /\ UNCHANGED <<main, attempt, slots, drained, step, pool, dying, broken, shut,
                       callPool, call, solver>>
  BY DEF Persist, Settled, RemoveFile, configVars
<1>3. PoolTypeOK' /\ ProcessTypeOK'
  BY <1>1, <1>2 DEF PoolTypeOK, ProcessTypeOK, Ended
<1>4. SlotsAreKept'
  <2>1. Solving' = Solving
    BY <1>2 DEF Solving, ProcessTypeOK
  <2> QED BY <1>1, <1>2, <2>1 DEF SlotsAreKept
<1>5. NothingBeforeServing' /\ PoolIsThere' /\ CleanStart'
  BY <1>2 DEF NothingBeforeServing, PoolIsThere, CleanStart, Tasks
<1>6. JobsKept'
  BY <1>2 DEF ProcessTypeOK, JobsKept, Kept, FileOfCall
<1> QED BY <1>3, <1>4, <1>5, <1>6

\* The solver processes write and the executor answers: only a file is added,
\* and an outcome set, where a call is on its way.
LEMMA PoolFit ==
  ASSUME Fit, [Next]_vars, PoolOnly, UNCHANGED configVars
  PROVE  Fit'
<1> USE DEF Fit
<1>1. /\ PoolSize' = PoolSize
      /\ UNCHANGED <<quota, main, attempt, task, slots, drained, step>>
  BY QuotaStays DEF PoolOnly, processVars, configVars
<1>2. ProcessTypeOK' /\ SlotsAreKept'
  BY <1>1 DEF ProcessTypeOK, SlotsAreKept, Solving
<1>3. ASSUME PoolTypeOK', pool' = pool,
             \A k \in Jobs : \/ /\ call'[k] = call[k] /\ solver'[k] = solver[k]
                                /\ k \in files' <=> k \in files
                             \/ Kept(k)' /\ (call[k] # "none" \/ solver[k] # "none")
      PROVE  Fit'
  <2>1. JobsKept'
    BY <1>1, <1>3, SameJob DEF JobsKept
  <2>2. main \in {"start", "connect", "pool", "down"} =>
          \A k \in Jobs : call'[k] = call[k] /\ solver'[k] = solver[k] /\ (k \in files' <=> k \in files)
    BY <1>3 DEF NothingBeforeServing
  <2>3. NothingBeforeServing' /\ CleanStart'
    BY <1>1, <1>3, <2>2 DEF NothingBeforeServing, CleanStart, Tasks, PoolTypeOK
  <2>4. PoolIsThere'
    BY <1>1, <1>3 DEF PoolIsThere, Pools
  <2> QED BY <1>2, <1>3, <2>1, <2>3, <2>4
<1>4. ASSUME NEW j \in Jobs, TakeCall(j, PoolSize) \/ CreateFile(j) \/ WriteFile(j) \/ Return(j) \/ Raise(j)
      PROVE  Fit'
  <2>1. /\ PoolTypeOK' /\ pool' = pool
        /\ \A k \in Jobs \ {j} : /\ call'[k] = call[k] /\ solver'[k] = solver[k]
                                 /\ k \in files' <=> k \in files
    BY <1>4 DEF TakeCall, CreateFile, WriteFile, Return, Raise, SetFuture, PoolTypeOK
  <2>2. Kept(j)' /\ solver[j] # "none"
    <3>1. Kept(j)
      BY DEF JobsKept
    <3>2. CASE TakeCall(j, PoolSize)
      BY <1>1, <3>1, <3>2 DEF TakeCall, PoolTypeOK, Kept, FileOfCall
    <3>3. CASE CreateFile(j) \/ WriteFile(j)
      BY <1>1, <3>1, <3>3 DEF CreateFile, WriteFile, PoolTypeOK, Kept, FileOfCall
    <3>4. CASE Return(j)
      BY <1>1, <3>1, <3>4 DEF Return, SetFuture, PoolTypeOK, Kept, FileOfCall
    <3>5. CASE Raise(j)
      BY <1>1, <3>1, <3>5 DEF Raise, SetFuture, PoolTypeOK, Kept, FileOfCall
    <3> QED BY <1>4, <3>2, <3>3, <3>4, <3>5
  <2> QED BY <1>3, <2>1, <2>2
<1>5. ASSUME NEW g \in Pools, NoticeBreak(g)
      PROVE  Fit'
  <2>1. PoolTypeOK' /\ pool' = pool
    BY <1>5 DEF NoticeBreak, PoolTypeOK
  <2>2. ASSUME NEW k \in Jobs
        PROVE  \/ call'[k] = call[k] /\ solver'[k] = solver[k] /\ (k \in files' <=> k \in files)
               \/ Kept(k)' /\ (call[k] # "none" \/ solver[k] # "none")
    <3>1. Kept(k)'
      BY <1>1, <1>5 DEF NoticeBreak, JobsKept, Kept, FileOfCall
    <3> QED BY <1>5, <3>1 DEF NoticeBreak
  <2> QED BY <1>3, <2>1, <2>2
<1>6. ASSUME NEW victim \in {{}} \union {{j} : j \in Jobs}, SolverDies(victim)
      PROVE  Fit'
  <2>1. PoolTypeOK' /\ pool' = pool
    BY <1>6 DEF SolverDies, PoolTypeOK
  <2>2. ASSUME NEW k \in Jobs
        PROVE  \/ call'[k] = call[k] /\ solver'[k] = solver[k] /\ (k \in files' <=> k \in files)
               \/ Kept(k)' /\ (call[k] # "none" \/ solver[k] # "none")
    BY <1>1, <1>6 DEF SolverDies, Running, JobsKept, Kept, FileOfCall
  <2> QED BY <1>3, <2>1, <2>2
<1> QED BY <1>4, <1>5, <1>6 DEF PoolOnly

LEMMA NextFit ==
  ASSUME ConfigTypeOK, Fit, [Next]_vars
  PROVE  Fit'
<1>1. CASE MainSteps \/ Sigterm \/ Killed
  BY <1>1, MainFit, CancelFit, GoneFit DEF MainSteps
<1>2. ASSUME NEW j \in Jobs, Arrive(j) \/ TakeSlot(j) \/ Solved(j) \/ Persist(j)
      PROVE  Fit'
  BY <1>2, ArriveFit, TakeSlotFit, SolvedFit, PersistFit
<1>3. CASE UNCHANGED vars
  BY <1>3, SameJobs
     DEF vars, configVars, poolVars, processVars, Fit, PoolTypeOK, ProcessTypeOK, PoolSize, AvailableCpus,
         SlotsAreKept, Solving, NothingBeforeServing, PoolIsThere, CleanStart, Tasks
<1> QED BY <1>1, <1>2, <1>3, StepOfProcess, ConfigureFit, PoolFit

LEMMA StepFaults ==
  ASSUME faults \in 0..MaxFaults, [Next]_vars
  PROVE  faults' \in 0..MaxFaults
<1>1. NoFault \/ (faults < MaxFaults /\ faults' = faults + 1)
  BY DEF vars, Fails, NoFault, Next, MainSteps, Sweep, Connect, CreatePool, Drained, ShutDown,
         LoopEnds, Exit, Restart, Sigterm, Killed, Configure, Arrive, TakeSlot, Solved,
         Persist, SolverStep, ExecutorNotices, SolverKilled
<1> QED BY <1>1, FaultsAssumption DEF NoFault

\* The worker's variables keep their kinds, and its jobs, slots, calls, files
\* and pools the relations that Steady names, in every behaviour.
THEOREM WorkerIsSteady == Spec => []Steady
<1> DEFINE Inv == ConfigTypeOK /\ WritersHaveRead /\ faults \in 0..MaxFaults /\ Fit
<1>1. Init => Inv
  <2>1. Init => ConfigTypeOK /\ WritersHaveRead /\ faults \in 0..MaxFaults
    BY ConfigAssumption, FaultsAssumption
       DEF Init, ConfigInit, ConfigTypeOK, Configurations, Created, WritersHaveRead, FaultsInit
  <2> QED BY <2>1, InitFit
<1>2. Inv /\ [Next]_vars => Inv'
  BY NextFit, StepConfigType, StepFaults
<1>3. Inv => Steady
  BY SteadyIsFit DEF TypeOK, Fit
<1> QED BY <1>1, <1>2, <1>3, PTL DEF Spec

\* No slot, future, file or counter of the worker leaves its range.
THEOREM WorkerTypeCorrect == Spec => []TypeOK
<1>1. Steady => TypeOK
  BY DEF Steady
<1> QED BY <1>1, WorkerIsSteady, PTL

\* save_success finds the file it uploads, whatever sweeps and removals come
\* between the solve and the upload.
THEOREM SavedRunsHaveTheirFile == Spec => []UploadHasItsFile
<1>1. Steady => UploadHasItsFile
  BY DEF Steady
<1> QED BY <1>1, WorkerIsSteady, PTL

\* No file is left by a task that went through to its end, nor by an earlier
\* process.
THEOREM NoFileIsLeft == Spec => []FilesHaveOwners
<1>1. Steady => FilesHaveOwners
  BY DEF Steady
<1> QED BY <1>1, WorkerIsSteady, PTL

\* However many runs the broker sends, the awaited calls fit in the pool.
THEOREM AwaitedSolvesFit == Spec => []SolvesFitThePool
<1>1. Steady => SolvesFitThePool
  <2> SUFFICES ASSUME Steady PROVE SolvesFitThePool
    OBVIOUS
  <2> DEFINE awaited == {j \in Jobs : task[j] = "solve" /\ call[j] = "pending"}
  <2>1. awaited \subseteq Solving
    BY DEF Solving
  <2>2. slots \in Nat /\ PoolSize \in Nat /\ slots + Cardinality(Solving) = PoolSize
        /\ IsFiniteSet(Solving)
    BY PoolSizeType DEF Steady, TypeOK, ProcessTypeOK, SlotsAreKept
  <2>3. /\ Cardinality(awaited) <= Cardinality(Solving)
        /\ Cardinality(awaited) \in Nat /\ Cardinality(Solving) \in Nat
    BY <2>1, <2>2, FS_Subset, FS_CardinalityType
  <2>4. Cardinality(awaited) <= PoolSize
    BY <2>2, <2>3
  <2> QED BY <2>4 DEF SolvesFitThePool
<1> QED BY <1>1, WorkerIsSteady, PTL

\* A solve crashes only with the pool it was submitted to, and only when that
\* pool was not broken before.
THEOREM NoInheritedCrash == Spec => CrashesAreItsOwn
<1>1. ASSUME TypeOK, [Next]_vars, NEW j \in Jobs, call[j] # "crashed", call'[j] = "crashed"
      PROVE  call[j] = "pending" /\ callPool[j] \notin broken
  <2>1. CASE MainSteps \/ Sigterm \/ Killed
    BY <1>1, <2>1
       DEF MainSteps, Sweep, RemoveLeftovers, Connect, poolVars, CreatePool, NewPool, Drained, Cancel,
           Abandon, ShutDown, ShutPool, LoopEnds, Exit, Restart, Sigterm, Killed, Gone, AllProcessesEnd
  <2>2. ASSUME NEW k \in Jobs, Arrive(k) \/ TakeSlot(k) \/ Solved(k) \/ Persist(k)
        PROVE  FALSE
    BY <1>1, <2>2
       DEF Arrive, poolVars, TakeSlot, Submit, Accepted, Refused, Solved, Consumed, Persist, RemoveFile,
           TypeOK, PoolTypeOK
  <2>3. CASE PoolOnly
    BY <1>1, <2>3
       DEF PoolOnly, TakeCall, CreateFile, WriteFile, Return, Raise, SetFuture, NoticeBreak, SolverDies,
           TypeOK, PoolTypeOK
  <2>4. ASSUME NEW w \in Workers, Configure(w)
        PROVE  FALSE
    BY <1>1, <2>4 DEF Configure, poolVars
  <2>5. CASE UNCHANGED vars
    BY <1>1, <2>5 DEF vars, poolVars
  <2> QED BY <1>1, <2>1, <2>2, <2>3, <2>4, <2>5, StepOfProcess
<1>2. TypeOK /\ [Next]_vars =>
        [\A j \in Jobs : call[j] # "crashed" /\ call'[j] = "crashed" =>
           call[j] = "pending" /\ callPool[j] \notin broken]_vars
  BY <1>1
<1> QED BY <1>2, WorkerTypeCorrect, PTL DEF Spec, CrashesAreItsOwn
=============================================================================
