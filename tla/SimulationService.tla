-------------------------- MODULE SimulationService --------------------------
(***************************************************************************)
(* The service as a whole: the API's requests, the broker and the workers  *)
(* acting on the same rows, objects and messages.                          *)
(***************************************************************************)
EXTENDS Dispatcher, Api

vars == <<brokerVars, storeVars, faults, taskVars, workerVars, apiVars>>

Init ==
  /\ BrokerInit /\ StoreInit /\ FaultsInit
  /\ DispatcherInit /\ ApiInit

\* Nothing is left to do: the system may stop here, and nowhere else.
Settled ==
  /\ \A s \in Sims :
       /\ req[s] \in StartEnded
       /\ del[s] \in {"none", "done"}
       /\ \/ msg[s] \in {"none", "acked"}
          \/ msg[s] = "ready" /\ delivered[s] = MaxDeliver
  /\ \A d \in Delivery : phase[d] \in Ended

Rest == Settled /\ UNCHANGED vars

Next ==
  \/ DispatcherNext /\ UNCHANGED apiVars
  \/ ApiNext /\ UNCHANGED <<taskVars, workerVars>>
  \/ Rest

Spec == Init /\ [][Next]_vars

(***************************************************************************)
(* Fairness: the event loop resumes every task and request whose await is  *)
(* over, JetStream delivers what it may and its ack_wait clock runs, and   *)
(* the orchestrator restarts a worker that ended.  No fault is fair, and   *)
(* neither is a user's decision to start or delete a simulation.           *)
(***************************************************************************)
Fairness ==
  /\ \A s \in Sims :
       /\ WF_vars((\E w \in Workers : Deliver(s, w)) /\ UNCHANGED apiVars)
       /\ WF_vars(Lapse(s) /\ UNCHANGED apiVars)
       /\ WF_vars((StartStep(s) \/ DeleteStep(s)) /\ UNCHANGED <<taskVars, workerVars>>)
  /\ \A d \in Delivery : WF_vars(TaskStep(d) /\ UNCHANGED apiVars)
  /\ \A w \in Workers :
       WF_vars((Restart(w) \/ RegainLink(w) \/ Close(w) \/ Exit(w)) /\ UNCHANGED apiVars)

FairSpec == Spec /\ Fairness

-----------------------------------------------------------------------------
\* Every variable keeps the kind of value the code gives it.
TypeOK ==
  /\ BrokerTypeOK /\ StoreTypeOK
  /\ faults \in Nat
  /\ DispatcherTypeOK /\ ApiTypeOK

\* A message that JetStream was told to forget belongs to a simulation whose
\* row is final or deleted: no ack, of any delivery, on any path of
\* _handle_message, loses a run that is still PENDING.
AckedIsSettled ==
  \A s \in Sims : msg[s] = "acked" => status[s] # "PENDING"

\* The uploaded file outlives every delivery that may still need it: while
\* the row of a published simulation is PENDING, no cleanup of a worker, of a
\* failed publish or of a delete has removed its input.
SourceKeptWhilePending ==
  \A s \in FileSims :
    (status[s] = "PENDING" /\ msg[s] # "none") => source[s]

\* What a user sees of a finished run is one run: the totals in the database
\* and the series in storage come from the same delivery.
TotalsMatchSeries ==
  \A s \in Sims :
    status[s] = "SUCCESS" => (totals[s] # 0 /\ result[s] = totals[s])

\* A run ends once: a row that is SUCCESS or FAILED keeps its status, its
\* error and its totals until it is deleted, whatever late or duplicate
\* delivery comes back to it.
TerminalIsFinal ==
  [][\A s \in Sims :
       status[s] \in {"SUCCESS", "FAILED"} =>
         \/ UNCHANGED <<status[s], error[s], totals[s]>>
         \/ status'[s] = "gone"]_vars

\* A row never promises series that storage does not hold, even when the
\* connection that holds the row's lock is dropped during the upload: the
\* commit that shows SUCCESS comes after an upload that succeeded.
SuccessHasSeries ==
  \A s \in Sims : status[s] = "SUCCESS" => totals[s] # 0 /\ result[s] # 0

\* Whatever is lost, only one writer changes a run that has ended: the request
\* that was told its publish failed though the broker has the message
\* (service.py:385).  A delivery that lost its lock or its reply, or that fails
\* late, leaves an ended row alone.
OnlyALatePublishRewrites ==
  [][\A s \in Sims :
       status[s] \in {"SUCCESS", "FAILED"} =>
         \/ UNCHANGED <<status[s], error[s], totals[s]>>
         \/ status'[s] = "gone"
         \/ req[s] = "mark" /\ error'[s] = "queue" /\ totals'[s] = totals[s]]_vars

\* The audit log holds at most one ending of a run, and the one its row shows.
ReportedOnce ==
  \A s \in Sims :
    /\ Len(audit[s]) <= 1
    /\ audit[s] # <<>> =>
         \/ status[s] = "gone"
         \/ status[s] = "SUCCESS" /\ audit[s] = <<"SUCCEEDED">>
         \/ status[s] = "FAILED" /\ audit[s] \in {<<"FAILED">>, <<"QUEUE_FAILED">>}

\* The refinement mapping: a run waits once its message is published; a user
\* reads the series of a row that is SUCCESS.
LifeState(s) ==
  CASE status[s] = "absent"  -> "none"
    [] status[s] = "PENDING" -> IF msg[s] = "none" THEN "none" ELSE "waiting"
    [] status[s] = "SUCCESS" -> "succeeded"
    [] status[s] = "FAILED"  -> "failed"
    [] status[s] = "gone"    -> "removed"

LifeInput(s) == s \in FileSims => source[s]

LifeShown(s) == IF status[s] = "SUCCESS" THEN result[s] ELSE 0

Lifecycle ==
  INSTANCE RunLifecycle WITH
    Results <- 1..MaxDeliver, NoResult <- 0,
    state <- [s \in Sims |-> LifeState(s)],
    input <- [s \in Sims |-> LifeInput(s)],
    shown <- [s \in Sims |-> LifeShown(s)]

\* The service implements the life of a run it promises: accepted with its
\* input, ended once, and shown unchanged until it is deleted.
KeepsPromise == Lifecycle!LifecycleSpec

\* As long as workers reach NATS, no simulation is run by two tasks at once:
\* the in-progress acks keep a redelivered copy away for as long as _process
\* works, in whichever worker, and a worker that dies takes its tasks along.
OneRunAtATime ==
  \A d1, d2 \in Delivery :
    /\ Sim(d1) = Sim(d2)
    /\ phase[d1] \in InProgress
    /\ phase[d2] \in InProgress
    => d1 = d2

\* A worker never holds more unfinished runs than it has solver processes, so
\* none of them waits for a slot while another worker has one free.
NoBacklog ==
  \A w \in Workers : Cardinality({d \in Live(w) : phase[d] \in InProgress}) <= PoolSize

\* Every published run ends.
EveryRunEnds ==
  \A s \in Sims : msg[s] = "ready" ~> status[s] \in {"SUCCESS", "FAILED", "gone"}

\* The uploaded file of every run that ended is eventually deleted, unless the
\* task of its newest delivery died with its worker, or one that fell to the
\* catch-all had left it (the removal of the source after the ack).
InputReleased ==
  \A s \in FileSims :
    \/ status[s] \in {"SUCCESS", "FAILED"} ~>
         ~source[s] \/ \E d \in Delivery : d = <<s, delivered[s]>> /\ phase[d] = "dead"
    \/ <>(\E d \in Delivery : Sim(d) = s /\ phase[d] = "unhandled")

-----------------------------------------------------------------------------
(***************************************************************************)
(* Why AckedIsSettled and SourceKeptWhilePending hold, whatever faults     *)
(* happen: an invariant that every step preserves.                         *)
(***************************************************************************)

Closed(s) == status[s] \in {"SUCCESS", "FAILED", "gone"}

\* The phases of a task whose run is over.
Concluding == {"report_success", "report_failure", "report_unhandled",
               "ack", "ack_release", "release"}

\* The row is committed before the message is published, and the request
\* gives its own cleanup up once a worker may have the message.
RowFirst(s) ==
  /\ req[s] \in {"none", "upload", "insert"} => status[s] = "absent"
  /\ req[s] \in {"none", "upload", "insert", "undo", "log", "publish"} => msg[s] = "none"
  /\ req[s] \in {"log", "publish", "mark"} => status[s] # "absent"
  /\ req[s] \in {"report_mark", "unstore"} => Closed(s)
  /\ msg[s] # "none" => status[s] # "absent"
  /\ del[s] # "none" => status[s] # "absent"
  /\ del[s] \in {"file", "result"} => status[s] = "gone"

RowBeforeMessage == \A s \in Sims : RowFirst(s)

\* A task that reports or acks a run found its row closed, or closed it.
ClosedBeforeAck ==
  /\ \A s \in Sims : msg[s] = "acked" => Closed(s)
  /\ \A d \in Delivery :
       /\ phase[d] # "idle" => msg[Sim(d)] # "none"
       /\ phase[d] \in Concluding => Closed(Sim(d))

\* A transaction of save_success holds the lock of a row that is PENDING.
LockKeepsPending ==
  /\ \A s \in Sims : lock[s] # 0 => status[s] = "PENDING"
  /\ \A d \in Delivery : phase[d] \in {"upload", "commit"} => lock[Sim(d)] = Count(d)

\* The file is in storage from before the row is committed.
SourceFirst(s) ==
  /\ req[s] = "insert" => source[s]
  /\ req[s] \in {"log", "publish"} /\ status[s] = "PENDING" => source[s]
  /\ msg[s] # "none" /\ status[s] = "PENDING" => source[s]

SourceBeforeRow == \A s \in FileSims : SourceFirst(s)

\* The rows, messages, tasks and files stay in step, whatever steps of the
\* requests and the workers come between two steps of a task.
InStep ==
  RowBeforeMessage /\ ClosedBeforeAck /\ LockKeepsPending /\ SourceBeforeRow

-----------------------------------------------------------------------------
(***************************************************************************)
(* Why a run that ended shows one result and is reported once: what every  *)
(* step keeps besides, simulation by simulation.                           *)
(***************************************************************************)

Tasks(s) == {d \in Delivery : Sim(d) = s}

\* The upload comes before the commit, and the series go after the row.
SeriesFirst(s) ==
  /\ \A d \in Tasks(s) : phase[d] = "commit" => result[s] # 0
  /\ status[s] = "SUCCESS" => totals[s] # 0 /\ result[s] # 0

SeriesBeforeSuccess == \A s \in Sims : SeriesFirst(s)

\* While no connection is dropped under a row lock, only the transaction that
\* holds the lock uploads, and it commits what it uploaded.
OwnSeries(s) ==
  /\ \A d \in Tasks(s) : /\ phase[d] # "stale_upload"
                         /\ phase[d] = "commit" => result[s] = Count(d)
  /\ status[s] = "SUCCESS" => totals[s] # 0 /\ result[s] = totals[s]

SeriesOfItsCommit == \A s \in Sims : OwnSeries(s)

\* While no publish raises after the broker took the message, a request that
\* publishes, or gives its run up, is alone with it: no worker knows of it.
Unqueued(s) ==
  req[s] \in {"log", "publish", "mark"} => msg[s] = "none" /\ status[s] \in {"PENDING", "gone"}

QueuedLast == \A s \in Sims : Unqueued(s)

\* The tasks that are about to write an ending into the audit log.
Reporting == {"report_success", "report_failure", "report_unhandled"}

\* The one step that closes a row is the one that reports it: until it has,
\* the log is empty, and only the status it wrote is there, or the row is gone.
ReportDue(s) ==
  /\ status[s] \in {"absent", "PENDING"} => audit[s] = <<>>
  /\ req[s] = "report_mark" =>
       /\ audit[s] = <<>> /\ status[s] \in {"FAILED", "gone"}
       /\ \A d \in Tasks(s) : phase[d] \notin Reporting
  /\ \A d \in Tasks(s) : phase[d] \in Reporting =>
       /\ audit[s] = <<>>
       /\ status[s] \in {IF phase[d] = "report_success" THEN "SUCCESS" ELSE "FAILED", "gone"}
       /\ \A e \in Tasks(s) : phase[e] \in Reporting => e = d
  /\ audit[s] # <<>> =>
       /\ audit[s] \in {<<"SUCCEEDED">>, <<"FAILED">>, <<"QUEUE_FAILED">>}
       /\ \/ status[s] = "gone"
          \/ status[s] = "SUCCESS" /\ audit[s] = <<"SUCCEEDED">>
          \/ status[s] = "FAILED" /\ audit[s] \in {<<"FAILED">>, <<"QUEUE_FAILED">>}

ReportsInOrder == \A s \in Sims : ReportDue(s)

\* Result, message and report of a run follow its row, as long as neither the
\* lock of a row nor the answer to a publish is lost.
EndsInOrder == SeriesOfItsCommit /\ QueuedLast /\ ReportsInOrder

-----------------------------------------------------------------------------
(***************************************************************************)
(* Why workers that reach NATS are not handed a run twice.                 *)
(***************************************************************************)

\* The tasks whose message their worker keeps to itself, and those whose
\* message has no answer yet.
Working == InProgress \union {"nak"}
Unanswered == Working \union {"unhandled", "report_unhandled", "ack", "ack_release"}

LinksUp == \A w \in Workers : link[w] = "up"

\* A task that works is the latest delivery's, and the broker waits for it, or
\* was told to forget the message by an earlier one.
WorkingIsNewest ==
  \A d \in Delivery : phase[d] \in Working =>
    Count(d) = delivered[Sim(d)] /\ msg[Sim(d)] \in {"unacked", "acked"}

\* Where no database hangs for as long as ack_wait, the broker waits for every
\* task that has not answered.
UnansweredIsPending ==
  \A d \in Delivery : phase[d] \in Unanswered =>
    Count(d) = delivered[Sim(d)] /\ msg[Sim(d)] = "unacked"

\* It waits for no more of them than it may.
PendingIsBounded ==
  /\ IsFiniteSet(AckPending) /\ Cardinality(AckPending) <= MaxAckPending
  /\ \A s \in Sims : msg[s] = "none" => delivered[s] = 0

-----------------------------------------------------------------------------
(***************************************************************************)
(* What the repository's texts say and the code does not keep.  Each is    *)
(* checked by a run that is expected to violate it.                        *)
(***************************************************************************)

\* A hiccup of the local database leaves the row PENDING for a redelivery: it
\* is never what a run is failed for.  The handler's catch-all fails it.
HiccupIsRetried == \A s \in Sims : error[s] # "unhandled"

\* Deleting a simulation deletes its stored results: once the request is over
\* and no task works on the simulation, no series are left in storage.  The
\* request deletes the result the row named before its DELETE.
DeleteRemovesResults ==
  \A s \in Sims :
    (del[s] = "done" /\ \A d \in Delivery : Sim(d) = s => phase[d] \in Ended)
      => result[s] = 0

\* The CREATED entry of the audit log commits with the simulation it records.
\* The session it is staged on is never committed.
CreationIsAudited ==
  \A s \in Sims : req[s] = "accepted" => \E i \in DOMAIN audit[s] : audit[s][i] = "CREATED"

\* A worker that shuts down leaves the runs it cannot finish to a redelivery:
\* none is failed because the solver pool is gone.  A message received during
\* the drain is, when its task reaches the pool after the pool was shut down.
ShutdownLeavesRuns == \A s \in Sims : error[s] # "not_submitted"
=============================================================================
