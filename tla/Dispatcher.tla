----------------------------- MODULE Dispatcher -----------------------------
(***************************************************************************)
(* The workers: worker/dispatcher.py, worker/persistence.py and the        *)
(* shutdown sequence of worker/main.py.                                    *)
(*                                                                         *)
(* Every delivery of a message is handled by a task of the worker it was   *)
(* sent to.  A task's phase is the await it is at: everything a task does  *)
(* between two awaits is one action, and any other task, worker or request *)
(* may act while it waits.                                                 *)
(***************************************************************************)
EXTENDS Store, Faults

CONSTANTS Workers,                    \* worker processes
          MaxDeliveries,              \* _MAX_DELIVERIES
          MaxSolverCrashDeliveries,   \* _MAX_SOLVER_CRASH_DELIVERIES
          PoolSize,                   \* solver processes of a worker
          CountReadable               \* the outcomes of reading a delivery's
                                      \* count off its message

ASSUME DispatcherAssumption ==
  /\ MaxDeliveries \in Nat \ {0}
  /\ MaxSolverCrashDeliveries \in Nat \ {0}
  /\ PoolSize \in Nat \ {0}
  /\ CountReadable \subseteq BOOLEAN

VARIABLES
  phase,     \* phase[d]: the await the task of delivery d is at
  home,      \* home[d]: the worker that runs it
  why,       \* why[d]: the error it is about to record
  mode,      \* mode[w]: running, draining, closing or down
  link,      \* link[w]: whether the worker reaches NATS
  drained    \* drained[w]: the tasks its shutdown waits for

taskVars == <<phase, home, why>>
workerVars == <<mode, link, drained>>

Ended == {"idle", "done", "dead"}

\* The phases of _process, during which the task sends in-progress acks.
InProgress == {"read_row", "read_key", "load", "queued", "solve",
               "claim", "upload", "stale_upload", "commit", "report_success",
               "fail", "report_failure"}

\* The phases after it: the answer to JetStream and what surrounds it.
Answering == {"ack", "ack_release", "release", "nak",
              "unhandled", "report_unhandled"}

Phases == Ended \union InProgress \union Answering

Live(w) == {d \in Delivery : home[d] = w /\ phase[d] \notin Ended}
Solving(w) == {d \in Live(w) : phase[d] = "solve"}
Receiving(w) == mode[w] \in {"running", "draining"} /\ link[w] = "up"

DispatcherTypeOK ==
  /\ phase \in [Delivery -> Phases]
  /\ home \in [Delivery -> Workers]
  /\ why \in [Delivery -> Errors]
  /\ mode \in [Workers -> {"running", "draining", "closing", "down"}]
  /\ link \in [Workers -> {"up", "down"}]
  /\ drained \in [Workers -> SUBSET Delivery]

DispatcherInit ==
  /\ phase = [d \in Delivery |-> "idle"]
  /\ home \in {[d \in Delivery |-> w] : w \in Workers}
  /\ why = [d \in Delivery |-> "none"]
  /\ mode = [w \in Workers |-> "running"]
  /\ link = [w \in Workers |-> "up"]
  /\ drained = [w \in Workers |-> {}]

-----------------------------------------------------------------------------
(***************************************************************************)
(* Steps of a task.                                                        *)
(***************************************************************************)

Go(d, p) ==
  /\ phase' = [phase EXCEPT ![d] = p]
  /\ UNCHANGED <<home, why, workerVars>>

GoFail(d, reason) ==
  /\ phase' = [phase EXCEPT ![d] = "fail"]
  /\ why' = [why EXCEPT ![d] = reason]
  /\ UNCHANGED <<home, workerVars>>

\* How a terminal outcome is answered: acked, then the file, if the row names
\* one, is deleted.
Terminal(s) == IF s \in FileSims THEN "ack_release" ELSE "ack"

\* A mistaken one: an input that was rejected is kept.
AfterFailureKeepingRejected(d) ==
  IF why[d] \in {"missing", "rejected"} THEN "ack" ELSE Terminal(Sim(d))

\* After save_failure returns.  A missing object is not deleted again.
AfterFailure(d) == IF why[d] = "missing" THEN "ack" ELSE Terminal(Sim(d))

\* The delivery on which the task stops processing, or stops retrying.
LimitReached(d, readable) == readable /\ Count(d) >= MaxDeliveries
Retried(d, readable) == readable /\ Count(d) < MaxSolverCrashDeliveries

\* JetStream hands the message to a worker, whose callback spawns a task.
Deliver(s, w) ==
  LET d == <<s, delivered[s] + 1>> IN
  /\ Receiving(w)
  /\ HandOut(s)
  /\ phase' = [phase EXCEPT ![d] = "read_row"]
  /\ home' = [home EXCEPT ![d] = w]
  /\ NoFault
  /\ UNCHANGED <<why, workerVars, storeVars>>

\* _snapshot_simulation and the checks on what it read.  Its errors are not
\* wrapped, so they reach the handler's catch-all.
ReadRow(d) ==
  /\ phase[d] = "read_row"
  /\ \/ /\ ~RowExists(Sim(d))
        /\ Go(d, "ack") /\ NoFault
     \/ /\ RowExists(Sim(d)) /\ status[Sim(d)] # "PENDING"
        /\ Go(d, Terminal(Sim(d))) /\ NoFault
     \/ /\ status[Sim(d)] = "PENDING"
        /\ \E readable \in CountReadable :
             IF LimitReached(d, readable) THEN GoFail(d, "limit") ELSE Go(d, "read_key")
        /\ NoFault
     \/ /\ Fails("local_db")
        /\ Go(d, "unhandled")
  /\ UNCHANGED <<brokerVars, storeVars>>

\* The simulated key may be gone by now.
ReadKey(d) ==
  /\ phase[d] = "read_key"
  /\ \/ Go(d, "load") /\ NoFault
     \/ GoFail(d, "rejected") /\ NoFault
     \/ Go(d, "nak") /\ Fails("crm")
  /\ UNCHANGED <<brokerVars, storeVars>>

\* The uploaded file: missing, unreadable, not parsable or too large, or ready.
LoadFile(d) ==
  /\ phase[d] = "load" /\ Sim(d) \in FileSims
  /\ \/ ~source[Sim(d)] /\ GoFail(d, "missing") /\ NoFault
     \/ source[Sim(d)] /\ GoFail(d, "rejected") /\ NoFault
     \/ source[Sim(d)] /\ Go(d, "queued") /\ NoFault
     \/ Go(d, "nak") /\ Fails("storage")
     \/ Go(d, "unhandled") /\ Fails("storage_fatal")
  /\ UNCHANGED <<brokerVars, storeVars>>

\* The CRM readings: rejected by the pre-flight, not pivotable or too large,
\* or ready.
LoadCrm(d) ==
  /\ phase[d] = "load" /\ Sim(d) \notin FileSims
  /\ \/ GoFail(d, "rejected") /\ NoFault
     \/ Go(d, "queued") /\ NoFault
     \/ Go(d, "nak") /\ Fails("crm")
  /\ UNCHANGED <<brokerVars, storeVars>>

\* A solver slot of this worker.  A pool that was shut down refuses the
\* submit; that is an ordinary exception of the solve.
StartSolve(d) ==
  /\ phase[d] = "queued"
  /\ Cardinality(Solving(home[d])) < PoolSize
  /\ IF mode[home[d]] = "closing"
       THEN GoFail(d, "not_submitted")
       ELSE Go(d, "solve")
  /\ NoFault
  /\ UNCHANGED <<brokerVars, storeVars>>

\* The solve returns a result, or raises SimulationInputError.
Solve(d) ==
  /\ phase[d] = "solve"
  /\ Go(d, "claim") \/ GoFail(d, "rejected")
  /\ NoFault
  /\ UNCHANGED <<brokerVars, storeVars>>

\* A mistaken claim: an UPDATE without status = PENDING in its WHERE.
ClaimAnyStatus(d) ==
  /\ phase[d] = "claim"
  /\ RowExists(Sim(d)) /\ RowFree(Sim(d))
  /\ lock' = [lock EXCEPT ![Sim(d)] = Count(d)]
  /\ Go(d, "upload")
  /\ NoFault /\ UNCHANGED <<status, error, totals>>
  /\ UNCHANGED <<brokerVars, objectVars, audit>>

\* save_success: the conditional UPDATE.  It waits for the row's lock, then
\* claims a PENDING row and keeps its lock.
Claim(d) ==
  /\ phase[d] = "claim"
  /\ \/ /\ ~RowExists(Sim(d))
        /\ Go(d, Terminal(Sim(d)))
        /\ NoFault /\ UNCHANGED rowVars
     \/ /\ RowExists(Sim(d)) /\ RowFree(Sim(d)) /\ status[Sim(d)] # "PENDING"
        /\ Go(d, Terminal(Sim(d)))
        /\ NoFault /\ UNCHANGED rowVars
     \/ /\ RowFree(Sim(d)) /\ status[Sim(d)] = "PENDING"
        /\ lock' = [lock EXCEPT ![Sim(d)] = Count(d)]
        /\ Go(d, "upload")
        /\ NoFault /\ UNCHANGED <<status, error, totals>>
     \/ /\ Go(d, "nak")
        /\ Fails("local_db") /\ UNCHANGED rowVars
  /\ UNCHANGED <<brokerVars, objectVars, audit>>

\* A mistaken upload, whose failure is only logged.
UploadBestEffort(d) ==
  /\ phase[d] = "upload"
  /\ \/ result' = [result EXCEPT ![Sim(d)] = Count(d)] /\ NoFault
     \/ UNCHANGED result /\ Fails("storage")
  /\ Go(d, "commit")
  /\ UNCHANGED <<brokerVars, rowVars, source, audit>>

\* The series, uploaded inside the transaction.  A failed upload rolls the
\* claim back, whether or not storage kept the object; a dropped connection
\* gives the lock away while the upload goes on.
Upload(d) ==
  /\ phase[d] = "upload"
  /\ \/ /\ result' = [result EXCEPT ![Sim(d)] = Count(d)]
        /\ Go(d, "commit")
        /\ NoFault /\ UNCHANGED rowVars
     \/ /\ \E kept \in {result[Sim(d)], Count(d)} : result' = [result EXCEPT ![Sim(d)] = kept]
        /\ UnlockRow(Sim(d))
        /\ Go(d, "nak")
        /\ Fails("storage")
     \/ /\ UnlockRow(Sim(d))
        /\ Go(d, "stale_upload")
        /\ Fails("db_drop") /\ UNCHANGED result
  /\ UNCHANGED <<brokerVars, source, audit>>

\* A mistaken end of that upload: the result is committed all the same.
StaleCommit(d) ==
  /\ phase[d] = "stale_upload" /\ RowExists(Sim(d)) /\ RowFree(Sim(d))
  /\ result' = [result EXCEPT ![Sim(d)] = Count(d)]
  /\ SucceedRow(Sim(d), Count(d))
  /\ Go(d, "report_success")
  /\ NoFault
  /\ UNCHANGED <<brokerVars, source, audit>>

\* The upload ends without the lock; the commit then raises.
StaleUpload(d) ==
  /\ phase[d] = "stale_upload"
  /\ result' = [result EXCEPT ![Sim(d)] = Count(d)]
  /\ Go(d, "nak")
  /\ NoFault
  /\ UNCHANGED <<brokerVars, rowVars, source, audit>>

Commit(d) ==
  /\ phase[d] = "commit"
  /\ \/ /\ SucceedRow(Sim(d), Count(d))
        /\ Go(d, "report_success") /\ NoFault
     \/ /\ UnlockRow(Sim(d))
        /\ Go(d, "nak") /\ Fails("local_db")
     \/ /\ SucceedRow(Sim(d), Count(d))
        /\ Go(d, "nak") /\ Fails("commit_lost")
  /\ UNCHANGED <<brokerVars, objectVars, audit>>

\* The audit entry, in a CRM transaction of its own.  AuditLogService.log
\* swallows an error of the insert, but not one of the commit.
ReportSuccess(d) ==
  /\ phase[d] = "report_success"
  /\ \/ /\ Record(Sim(d), "SUCCEEDED")
        /\ \/ Go(d, Terminal(Sim(d))) /\ NoFault
           \/ Go(d, "nak") /\ Fails("commit_lost")
     \/ /\ \E next \in {Terminal(Sim(d)), "nak"} : Go(d, next)
        /\ Fails("crm") /\ UNCHANGED audit
  /\ UNCHANGED <<brokerVars, rowVars, objectVars>>

\* A mistaken save_failure, whose UPDATE flips a row of any status.
SaveFailureAnyStatus(d, reason, flipped, unflipped, raised) ==
  /\ RowExists(Sim(d)) /\ RowFree(Sim(d))
  /\ FailRow(Sim(d), reason)
  /\ Go(d, flipped) /\ NoFault
  /\ UNCHANGED <<brokerVars, objectVars, audit>>

\* save_failure with this reason: a conditional UPDATE, committed at once, that
\* flips a PENDING row and leaves any other alone.
SaveFailure(d, reason, flipped, unflipped, raised) ==
  /\ \/ /\ ~RowExists(Sim(d))
        /\ Go(d, unflipped)
        /\ NoFault /\ UNCHANGED rowVars
     \/ /\ RowExists(Sim(d)) /\ RowFree(Sim(d)) /\ status[Sim(d)] # "PENDING"
        /\ Go(d, unflipped)
        /\ NoFault /\ UNCHANGED rowVars
     \/ /\ RowFree(Sim(d)) /\ status[Sim(d)] = "PENDING"
        /\ FailRow(Sim(d), reason)
        /\ \/ Go(d, flipped) /\ NoFault
           \/ Go(d, raised) /\ Fails("commit_lost")
     \/ /\ Go(d, raised)
        /\ Fails("local_db") /\ UNCHANGED rowVars
  /\ UNCHANGED <<brokerVars, objectVars, audit>>

\* Its audit entry.
ReportFailure(d, reported, raised) ==
  /\ \/ /\ Record(Sim(d), "FAILED")
        /\ \/ Go(d, reported) /\ NoFault
           \/ Go(d, raised) /\ Fails("commit_lost")
     \/ /\ \E next \in {reported, raised} : Go(d, next)
        /\ Fails("crm") /\ UNCHANGED audit
  /\ UNCHANGED <<brokerVars, rowVars, objectVars>>

\* A failure _process detected; an error while saving it is unhandled.
Fail(d) ==
  \/ /\ phase[d] = "fail"
     /\ SaveFailure(d, why[d], "report_failure", AfterFailure(d), "unhandled")
  \/ /\ phase[d] = "report_failure"
     /\ ReportFailure(d, AfterFailure(d), "unhandled")

\* A mistaken catch-all: acked without being marked FAILED.
UnhandledUnsaved(d) ==
  /\ phase[d] = "unhandled"
  /\ Go(d, "ack")
  /\ NoFault
  /\ UNCHANGED <<brokerVars, storeVars>>

\* The handler's catch-all: FAILED and acked, the file left alone.  Nothing
\* catches an error of this save_failure; the task ends without an answer.
Unhandled(d) ==
  \/ /\ phase[d] = "unhandled"
     /\ SaveFailure(d, "unhandled", "report_unhandled", "ack", "dead")
  \/ /\ phase[d] = "report_unhandled"
     /\ ReportFailure(d, "ack", "dead")

\* The ack, lost when NATS is out of reach.
Ack(d) ==
  /\ phase[d] \in {"ack", "ack_release"}
  /\ Go(d, IF phase[d] = "ack" THEN "done" ELSE "release")
  /\ IF link[home[d]] = "up" THEN Settle(Sim(d)) ELSE UNCHANGED brokerVars
  /\ NoFault
  /\ UNCHANGED storeVars

\* _delete_safely: best effort.
Release(d) ==
  /\ phase[d] = "release"
  /\ Go(d, "done")
  /\ \/ source' = [source EXCEPT ![Sim(d)] = FALSE] /\ NoFault
     \/ UNCHANGED source /\ Fails("delete_lost")
  /\ UNCHANGED <<brokerVars, rowVars, result, audit>>

\* A mistaken one: the file is released whatever the outcome.
NakReleasing(d) ==
  /\ phase[d] = "nak"
  /\ Go(d, "release")
  /\ IF link[home[d]] = "up" THEN Return(Sim(d)) ELSE UNCHANGED brokerVars
  /\ NoFault
  /\ UNCHANGED storeVars

\* The nak of a transient failure, lost when NATS is out of reach.
Nak(d) ==
  /\ phase[d] = "nak"
  /\ Go(d, "done")
  /\ IF link[home[d]] = "up" THEN Return(Sim(d)) ELSE UNCHANGED brokerVars
  /\ NoFault
  /\ UNCHANGED storeVars

TaskStep(d) ==
  \/ ReadRow(d) \/ ReadKey(d) \/ LoadFile(d) \/ LoadCrm(d)
  \/ StartSolve(d) \/ Solve(d)
  \/ Claim(d) \/ Upload(d) \/ StaleUpload(d) \/ Commit(d) \/ ReportSuccess(d)
  \/ Fail(d) \/ Unhandled(d)
  \/ Ack(d) \/ Release(d) \/ Nak(d)

-----------------------------------------------------------------------------
(***************************************************************************)
(* Steps of the broker's clock and of a worker as a whole.                 *)
(***************************************************************************)

\* A mistaken heartbeat: around the solve only.
KeepsAliveWhileSolving(d) ==
  /\ phase[d] \in {"solve", "ack", "ack_release", "nak"}
  /\ link[home[d]] = "up"

\* A task that keeps ack_wait from running out: it sends in-progress acks, or
\* its answer is on the way.
KeepsAlive(d) ==
  /\ phase[d] \in InProgress \union {"ack", "ack_release", "nak"}
  /\ link[home[d]] = "up"

\* A task after its in-progress acks stopped and before its answer: only a
\* database that hangs keeps it here for as long as ack_wait.
MayStall(d) ==
  /\ phase[d] \in {"unhandled", "report_unhandled"}
  /\ link[home[d]] = "up"

\* ack_wait runs out.
Lapse(s) ==
  /\ msg[s] = "unacked"
  /\ ~\E d \in Delivery : Sim(d) = s /\ KeepsAlive(d)
  /\ Return(s)
  /\ IF \E d \in Delivery : Sim(d) = s /\ MayStall(d) THEN Fails("stall") ELSE NoFault
  /\ UNCHANGED <<taskVars, workerVars, storeVars>>

\* A solver process dies and breaks the whole pool: every solve running in it
\* raises _SolverCrashError.
PoolBreaks(w) ==
  /\ Solving(w) # {}
  /\ \E readable \in CountReadable :
       LET retried(d) == Retried(d, readable) IN
       /\ phase' = [d \in Delivery |->
                      IF d \notin Solving(w) THEN phase[d]
                      ELSE IF retried(d) THEN "nak" ELSE "fail"]
       /\ why' = [d \in Delivery |->
                    IF d \in Solving(w) /\ ~retried(d) THEN "crashed" ELSE why[d]]
  /\ Fails("pool")
  /\ UNCHANGED <<home, workerVars, brokerVars, storeVars>>

\* A mistaken store: the transaction of a dead worker stays open.
KillKeepingLock(D) ==
  /\ phase' = [d \in Delivery |-> IF d \in D THEN "dead" ELSE phase[d]]
  /\ UNCHANGED <<home, why, rowVars, objectVars, audit, brokerVars>>

\* These tasks end where they are, killed with their process or cancelled.
\* The database rolls their open transactions back.
Kill(D) ==
  /\ phase' = [d \in Delivery |-> IF d \in D THEN "dead" ELSE phase[d]]
  /\ lock' = [s \in Sims |->
                IF \E d \in D : Sim(d) = s /\ Count(d) = lock[s] THEN 0 ELSE lock[s]]
  /\ UNCHANGED <<home, why, status, error, totals, objectVars, audit, brokerVars>>

Crash(w) ==
  /\ mode[w] # "down"
  /\ Kill(Live(w))
  /\ mode' = [mode EXCEPT ![w] = "down"]
  /\ drained' = [drained EXCEPT ![w] = {}]
  /\ Fails("crash")
  /\ UNCHANGED link

Restart(w) ==
  /\ mode[w] = "down"
  /\ mode' = [mode EXCEPT ![w] = "running"]
  /\ link' = [link EXCEPT ![w] = "up"]
  /\ NoFault
  /\ UNCHANGED <<drained, taskVars, brokerVars, storeVars>>

LoseLink(w) ==
  /\ mode[w] # "down" /\ link[w] = "up"
  /\ link' = [link EXCEPT ![w] = "down"]
  /\ Fails("link")
  /\ UNCHANGED <<mode, drained, taskVars, brokerVars, storeVars>>

RegainLink(w) ==
  /\ link[w] = "down"
  /\ link' = [link EXCEPT ![w] = "up"]
  /\ NoFault
  /\ UNCHANGED <<mode, drained, taskVars, brokerVars, storeVars>>

\* SIGTERM.  _drain_inflight waits for the tasks of this moment; the
\* subscription goes on receiving.
Shutdown(w) ==
  /\ mode[w] = "running"
  /\ mode' = [mode EXCEPT ![w] = "draining"]
  /\ drained' = [drained EXCEPT ![w] = Live(w)]
  /\ Fails("shutdown")
  /\ UNCHANGED <<link, taskVars, brokerVars, storeVars>>

\* The wait is over, the tasks that outlasted it are cancelled, the
\* subscription is drained and the solver pool shut down.
Close(w) ==
  /\ mode[w] = "draining"
  /\ Kill(drained[w] \intersect Live(w))
  /\ mode' = [mode EXCEPT ![w] = "closing"]
  /\ drained' = [drained EXCEPT ![w] = {}]
  /\ NoFault
  /\ UNCHANGED link

\* main returns, and asyncio.run cancels what is left.
Exit(w) ==
  /\ mode[w] = "closing"
  /\ Kill(Live(w))
  /\ mode' = [mode EXCEPT ![w] = "down"]
  /\ NoFault
  /\ UNCHANGED <<link, drained>>

WorkerStep(w) ==
  \/ PoolBreaks(w)
  \/ Crash(w) \/ Restart(w)
  \/ LoseLink(w) \/ RegainLink(w)
  \/ Shutdown(w) \/ Close(w) \/ Exit(w)

DispatcherNext ==
  \/ \E s \in Sims, w \in Workers : Deliver(s, w)
  \/ \E s \in Sims : Lapse(s)
  \/ \E d \in Delivery : TaskStep(d)
  \/ \E w \in Workers : WorkerStep(w)
=============================================================================
