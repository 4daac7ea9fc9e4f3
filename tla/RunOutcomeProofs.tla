--------------------------- MODULE RunOutcomeProofs ---------------------------
(***************************************************************************)
(* How a run ends: one row, one result, one report; and that its whole     *)
(* life is the one RunLifecycle describes.                                 *)
(*                                                                         *)
(* Few steps matter to the ending of a run.  All the others leave its row, *)
(* its series and its audit log alone (Quiet), and start no step that      *)
(* does not; what remains is proved for those few.                         *)
(*                                                                         *)
(* Then who works on a run: no two workers at once, and no worker on more  *)
(* runs than it can solve, as long as the workers reach NATS.              *)
(***************************************************************************)
EXTENDS SimulationServiceProofs, FiniteSetTheorems

\* The phases a task reaches only by writing to the run's row or its series.
Ending == {"stale_upload", "commit"} \union Reporting

\* A request does not reach the row of s, nor does the message of a run it
\* may still give up.
RequestWaits(s) ==
  /\ req'[s] = "report_mark" => req[s] = "report_mark"
  /\ req'[s] \in {"log", "publish", "mark"} =>
       /\ req[s] \in {"log", "publish", "mark"}
       /\ msg[s] = "none" => msg'[s] = "none" \/ "publish_lost" \in FaultKinds

\* A step that leaves the ending of s alone.
Quiet(s) ==
  /\ status'[s] = status[s] /\ error'[s] = error[s] /\ totals'[s] = totals[s]
  /\ result'[s] = result[s] /\ audit'[s] = audit[s]
  /\ \A d \in Tasks(s) : phase'[d] \in Ending => phase'[d] = phase[d]
  /\ RequestWaits(s)

\* The steps of a task, and of a request, that do not.
EndingStep(d) ==
  Upload(d) \/ StaleUpload(d) \/ Commit(d) \/ ReportSuccess(d) \/ Fail(d) \/ Unhandled(d)

EndingRequest(s) ==
  InsertRow(s) \/ MarkFailedToQueue(s) \/ ReportMark(s) \/ DeleteRow(s) \/ DeleteResult(s)

LEMMA TasksType ==
  ASSUME NEW s \in Sims, NEW d \in Tasks(s)
  PROVE  d \in Delivery /\ Sim(d) = s /\ Count(d) \in 1..MaxDeliver
BY DeliveryType DEF Tasks

\* No step of the workers publishes.
LEMMA WorkersWait ==
  ASSUME UNCHANGED apiVars, NEW s \in Sims, msg[s] = "none" => msg'[s] = "none"
  PROVE  RequestWaits(s)
BY DEF RequestWaits, apiVars

\* A step of a task takes it to another phase, or to the failure it found.
LEMMA TaskGoes ==
  ASSUME NEW d, TaskStep(d)
  PROVE  \/ \E p : Go(d, p)
         \/ \E r : GoFail(d, r)
<1>1. CASE ReadRow(d) \/ ReadKey(d) \/ LoadFile(d) \/ LoadCrm(d) \/ StartSolve(d) \/ Solve(d)
  BY <1>1 DEF ReadRow, ReadKey, LoadFile, LoadCrm, StartSolve, Solve
<1>2. CASE Claim(d) \/ Upload(d) \/ StaleUpload(d) \/ Commit(d) \/ ReportSuccess(d)
  BY <1>2 DEF Claim, Upload, StaleUpload, Commit, ReportSuccess
<1>3. CASE Fail(d) \/ Unhandled(d)
  BY <1>3 DEF Fail, Unhandled, SaveFailure, ReportFailure
<1>4. CASE Ack(d) \/ Release(d) \/ Nak(d)
  BY <1>4 DEF Ack, Release, Nak
<1> QED BY <1>1, <1>2, <1>3, <1>4 DEF TaskStep

\* It moves that task only, and what it stores is its run's.
LEMMA TaskMoves ==
  ASSUME TypeOK, NEW d \in Delivery, TaskStep(d)
  PROVE  \A e \in Delivery \ {d} : phase'[e] = phase[e]
BY TaskGoes DEF Go, GoFail, TypeOK, DispatcherTypeOK

LEMMA TaskStores ==
  ASSUME TypeOK, NEW d \in Delivery, TaskStep(d), NEW s \in Sims
  PROVE  /\ msg[s] = "none" => msg'[s] = "none" \/ s = Sim(d)
         /\ s # Sim(d) => /\ status'[s] = status[s] /\ error'[s] = error[s] /\ totals'[s] = totals[s]
                          /\ result'[s] = result[s] /\ audit'[s] = audit[s]
                          /\ msg'[s] = msg[s] /\ source'[s] = source[s]
<1> DEFINE Same == /\ msg'[s] = msg[s] /\ source'[s] = source[s]
                   /\ status'[s] = status[s] /\ error'[s] = error[s] /\ totals'[s] = totals[s]
                   /\ result'[s] = result[s] /\ audit'[s] = audit[s]
<1>1. CASE ReadRow(d) \/ ReadKey(d) \/ LoadFile(d) \/ LoadCrm(d) \/ StartSolve(d) \/ Solve(d)
  <2>1. UNCHANGED <<brokerVars, storeVars>>
    BY <1>1 DEF ReadRow, ReadKey, LoadFile, LoadCrm, StartSolve, Solve
  <2> QED BY <2>1 DEF brokerVars, storeVars
<1>2. CASE Claim(d)
  BY <1>2 DEF Claim, brokerVars, rowVars, objectVars
<1>3. CASE Upload(d) \/ StaleUpload(d)
  BY <1>3 DEF Upload, StaleUpload, brokerVars, rowVars, UnlockRow, TypeOK, StoreTypeOK
<1>4. CASE Commit(d)
  BY <1>4 DEF Commit, brokerVars, objectVars, UnlockRow, SucceedRow, TypeOK, StoreTypeOK
<1>5. CASE ReportSuccess(d)
  BY <1>5 DEF ReportSuccess, brokerVars, objectVars, rowVars, Record, TypeOK, StoreTypeOK
<1>6. ASSUME NEW r, NEW p, NEW q, NEW x, SaveFailure(d, r, p, q, x)
      PROVE  msg'[s] = msg[s] /\ (s # Sim(d) => Same)
  <2>1. UNCHANGED rowVars \/ FailRow(Sim(d), r)
    BY <1>6 DEF SaveFailure
  <2>2. UNCHANGED <<brokerVars, objectVars, audit>>
    BY <1>6 DEF SaveFailure
  <2> QED BY <2>1, <2>2 DEF brokerVars, objectVars, rowVars, FailRow, TypeOK, StoreTypeOK
<1>7. ASSUME NEW p, NEW x, ReportFailure(d, p, x)
      PROVE  msg'[s] = msg[s] /\ (s # Sim(d) => Same)
  BY <1>7 DEF ReportFailure, brokerVars, objectVars, rowVars, Record, TypeOK, StoreTypeOK
<1>8. CASE Fail(d) \/ Unhandled(d)
  BY <1>6, <1>7, <1>8 DEF Fail, Unhandled
<1>9. CASE Ack(d) \/ Nak(d)
  <2>1. UNCHANGED storeVars /\ (UNCHANGED brokerVars \/ Settle(Sim(d)) \/ Return(Sim(d)))
    BY <1>9 DEF Ack, Nak
  <2>2. s # Sim(d) => msg'[s] = msg[s]
    BY <2>1 DEF brokerVars, Settle, Return, TypeOK, BrokerTypeOK
  <2> QED BY <2>1, <2>2 DEF storeVars
<1>10. CASE Release(d)
  BY <1>10 DEF Release, brokerVars, rowVars, TypeOK, StoreTypeOK
<1> QED BY <1>1, <1>2, <1>3, <1>4, <1>5, <1>8, <1>9, <1>10 DEF TaskStep

\* Before save_success and in its answers, a task does not touch the ending of
\* its own run.
LEMMA OtherStepsAreQuiet ==
  ASSUME TypeOK, InStep, NEW d \in Delivery, UNCHANGED apiVars, TaskStep(d), ~EndingStep(d)
  PROVE  Quiet(Sim(d))
<1> DEFINE s == Sim(d)
<1>1. s \in Sims
  BY DeliveryType
<1>2. CASE ReadRow(d) \/ ReadKey(d) \/ LoadFile(d) \/ LoadCrm(d) \/ StartSolve(d) \/ Solve(d)
  <2>1. UNCHANGED <<brokerVars, storeVars>>
    BY <1>2 DEF ReadRow, ReadKey, LoadFile, LoadCrm, StartSolve, Solve
  <2>2. phase'[d] \notin Ending
    BY <1>2, TerminalType DEF ReadRow, ReadKey, LoadFile, LoadCrm, StartSolve, Solve, Go, GoFail,
                              Ending, Reporting, TypeOK, DispatcherTypeOK
  <2> QED BY <1>1, <2>1, <2>2, TaskMoves, WorkersWait DEF Quiet, brokerVars, storeVars, Tasks
<1>3. CASE Claim(d)
  <2>1. UNCHANGED <<brokerVars, status, error, totals, result, audit>>
    BY <1>3 DEF Claim, rowVars, objectVars
  <2>2. phase'[d] \notin Ending
    BY <1>3, TerminalType DEF Claim, Go, Ending, Reporting, TypeOK, DispatcherTypeOK
  <2> QED BY <1>1, <2>1, <2>2, TaskMoves, WorkersWait DEF Quiet, brokerVars, Tasks
<1>4. CASE Ack(d) \/ Release(d) \/ Nak(d)
  <2>1. UNCHANGED <<status, error, totals, result, audit>>
    BY <1>4 DEF Ack, Release, Nak, storeVars, rowVars
  <2>2. phase'[d] \notin Ending
    BY <1>4 DEF Ack, Release, Nak, Go, Ending, Reporting, TypeOK, DispatcherTypeOK
  <2>3. msg[s] # "none"
    BY <1>4 DEF Ack, Release, Nak, InStep, ClosedBeforeAck
  <2> QED BY <1>1, <2>1, <2>2, <2>3, TaskMoves, WorkersWait DEF Quiet, Tasks
<1> QED BY <1>2, <1>3, <1>4 DEF TaskStep, EndingStep

LEMMA TaskStepEnding ==
  ASSUME TypeOK, InStep, NEW d \in Delivery, UNCHANGED apiVars, TaskStep(d), NEW s \in Sims
  PROVE  Quiet(s) \/ (d \in Tasks(s) /\ EndingStep(d))
<1>1. CASE s = Sim(d)
  BY <1>1, OtherStepsAreQuiet DEF Tasks
<1>2. CASE s # Sim(d)
  BY <1>2, TaskMoves, TaskStores, WorkersWait DEF Quiet, Tasks
<1> QED BY <1>1, <1>2

\* The broker, and a worker that starts, stops or loses its pool or its link.
LEMMA WorkersAreQuiet ==
  ASSUME TypeOK, UNCHANGED apiVars, NEW s \in Sims,
         \/ \E r \in Sims, w \in Workers : Deliver(r, w)
         \/ \E r \in Sims : Lapse(r)
         \/ \E w \in Workers : WorkerStep(w)
  PROVE  Quiet(s)
<1>1. ASSUME NEW r \in Sims, NEW w \in Workers, Deliver(r, w)
      PROVE  Quiet(s)
  <2>1. msg' = [msg EXCEPT ![r] = "unacked"] /\ msg[r] = "ready" /\ UNCHANGED storeVars
    BY <1>1 DEF Deliver, HandOut, Deliverable
  <2>2. msg[s] = "none" => msg'[s] = "none"
    BY <2>1 DEF TypeOK, BrokerTypeOK
  <2>3. \A d \in Delivery : phase'[d] \in {phase[d], "read_row"}
    BY <1>1 DEF Deliver, TypeOK, DispatcherTypeOK
  <2> QED BY <2>1, <2>2, <2>3, WorkersWait DEF Quiet, storeVars, Tasks, Ending, Reporting
<1>2. ASSUME NEW r \in Sims, Lapse(r)
      PROVE  Quiet(s)
  <2>1. UNCHANGED <<phase, storeVars>> /\ (msg[s] = "none" => msg'[s] = "none")
    BY <1>2 DEF Lapse, Return, taskVars, TypeOK, BrokerTypeOK
  <2> QED BY <2>1, WorkersWait DEF Quiet, storeVars
<1>3. ASSUME NEW D, Kill(D)
      PROVE  Quiet(s)
  <2>1. UNCHANGED <<msg, status, error, totals, result, audit>>
    BY <1>3 DEF Kill, brokerVars, objectVars
  <2>2. \A d \in Delivery : phase'[d] \in {phase[d], "dead"}
    BY <1>3 DEF Kill
  <2> QED BY <2>1, <2>2, WorkersWait DEF Quiet, Tasks, Ending, Reporting
<1>4. ASSUME NEW w \in Workers, PoolBreaks(w)
      PROVE  Quiet(s)
  <2>1. UNCHANGED <<brokerVars, storeVars>>
    BY <1>4 DEF PoolBreaks
  <2>2. \A d \in Delivery : phase'[d] \in {phase[d], "nak", "fail"}
    BY <1>4 DEF PoolBreaks
  <2> QED BY <2>1, <2>2, WorkersWait DEF Quiet, brokerVars, storeVars, Tasks, Ending, Reporting
<1>5. ASSUME NEW w \in Workers, Restart(w) \/ LoseLink(w) \/ RegainLink(w) \/ Shutdown(w)
      PROVE  Quiet(s)
  <2>1. UNCHANGED <<taskVars, brokerVars, storeVars>>
    BY <1>5 DEF Restart, LoseLink, RegainLink, Shutdown
  <2> QED BY <2>1, WorkersWait DEF Quiet, taskVars, brokerVars, storeVars
<1> QED BY <1>1, <1>2, <1>3, <1>4, <1>5 DEF WorkerStep, Crash, Close, Exit

\* A request other than s's own, or one whose step is not an ending.
LEMMA RequestEnding ==
  ASSUME TypeOK, InStep, NEW r \in Sims, UNCHANGED <<taskVars, workerVars>>,
         StartStep(r) \/ CrashStart(r) \/ ReadForDelete(r) \/ DeleteStep(r) \/ CrashDelete(r),
         NEW s \in Sims
  PROVE  Quiet(s) \/ (s = r /\ EndingRequest(s))
<1> SUFFICES ASSUME ~(s = r /\ EndingRequest(s)) PROVE Quiet(s)
  OBVIOUS
<1>1. phase' = phase
  BY DEF taskVars
<1>2. CASE Submit(r) \/ LogCreated(r) \/ CrashStart(r) \/ ReadForDelete(r) \/ CrashDelete(r)
  <2>1. UNCHANGED <<brokerVars, storeVars>>
    BY <1>2 DEF Submit, LogCreated, CrashStart, ReadForDelete, CrashDelete
  <2>2. \/ req'[s] = req[s]
        \/ req'[s] \in {"upload", "insert", "refused", "dead"}
        \/ req[s] = "log" /\ req'[s] = "publish"
    BY <1>2 DEF Submit, LogCreated, CrashStart, ReadForDelete, CrashDelete, Start, Respond, Delete,
                TypeOK, ApiTypeOK
  <2> QED BY <1>1, <2>1, <2>2 DEF Quiet, RequestWaits, brokerVars, storeVars
<1>3. CASE UploadSource(r) \/ UndoUpload(r) \/ Unstore(r) \/ DeleteFile(r)
  <2>1. UNCHANGED <<brokerVars, rowVars, result, audit>>
    BY <1>3 DEF UploadSource, UndoUpload, Unstore, DropSource, DeleteFile
  <2>2. req'[s] = req[s] \/ req'[s] \in {"insert", "refused", "failed"}
    BY <1>3 DEF UploadSource, UndoUpload, Unstore, DropSource, DeleteFile, Start, Respond, Delete,
                TypeOK, ApiTypeOK
  <2> QED BY <1>1, <2>1, <2>2 DEF Quiet, RequestWaits, brokerVars, rowVars
<1>4. CASE PublishRun(r)
  <2>1. UNCHANGED storeVars /\ req[r] = "publish"
    BY <1>4 DEF PublishRun
  <2>2. CASE s = r
    <3>1. \/ req'[s] = "accepted"
          \/ req'[s] = "mark" /\ (msg' = msg \/ "publish_lost" \in FaultKinds)
      BY <1>4, <2>2 DEF PublishRun, Start, Respond, Fails, brokerVars, TypeOK, ApiTypeOK
    <3> QED BY <1>1, <2>1, <2>2, <3>1 DEF Quiet, RequestWaits, storeVars
  <2>3. CASE s # r
    <3>1. req'[s] = req[s] /\ msg'[s] = msg[s]
      BY <1>4, <2>3 DEF PublishRun, Start, Respond, Enqueue, brokerVars, TypeOK, ApiTypeOK, BrokerTypeOK
    <3> QED BY <1>1, <2>1, <3>1 DEF Quiet, RequestWaits, storeVars
  <2> QED BY <2>2, <2>3
<1>5. CASE EndingRequest(r)
  <2>1. s # r
    BY <1>5
  <2>2. UNCHANGED <<brokerVars, source>>
    BY <1>5 DEF EndingRequest, InsertRow, MarkFailedToQueue, ReportMark, DeleteRow, DeleteResult, objectVars
  <2>3. req'[s] = req[s]
    BY <1>5, <2>1 DEF EndingRequest, InsertRow, MarkFailedToQueue, ReportMark, DeleteRow, DeleteResult,
                      AfterMark, Start, Respond, Delete, TypeOK, ApiTypeOK
  <2>4. CASE InsertRow(r) \/ DeleteRow(r)
    BY <1>1, <2>1, <2>2, <2>3, <2>4
       DEF InsertRow, DeleteRow, Quiet, RequestWaits, brokerVars, objectVars, TypeOK, StoreTypeOK
  <2>5. CASE MarkFailedToQueue(r)
    BY <1>1, <2>1, <2>2, <2>3, <2>5
       DEF MarkFailedToQueue, FailRow, Quiet, RequestWaits, brokerVars, objectVars, rowVars, TypeOK, StoreTypeOK
  <2>6. CASE ReportMark(r) \/ DeleteResult(r)
    BY <1>1, <2>1, <2>2, <2>3, <2>6
       DEF ReportMark, DeleteResult, Record, Quiet, RequestWaits, brokerVars, objectVars, rowVars, TypeOK, StoreTypeOK
  <2> QED BY <1>5, <2>4, <2>5, <2>6 DEF EndingRequest
<1> QED BY <1>2, <1>3, <1>4, <1>5 DEF StartStep, DeleteStep, EndingRequest

\* Every step, seen from one run.
LEMMA StepOfRun ==
  ASSUME TypeOK, InStep, [Next]_vars, NEW s \in Sims
  PROVE  \/ Quiet(s)
         \/ UNCHANGED apiVars /\ \E d \in Tasks(s) : TaskStep(d) /\ EndingStep(d)
         \/ UNCHANGED <<taskVars, workerVars>> /\ EndingRequest(s)
<1>1. CASE DispatcherNext /\ UNCHANGED apiVars
  BY <1>1, TaskStepEnding, WorkersAreQuiet DEF DispatcherNext
<1>2. CASE ApiNext /\ UNCHANGED <<taskVars, workerVars>>
  BY <1>2, RequestEnding DEF ApiNext
<1>3. CASE UNCHANGED vars
  BY <1>3 DEF vars, brokerVars, storeVars, taskVars, apiVars, Quiet, RequestWaits
<1> QED BY <1>1, <1>2, <1>3 DEF Next, Rest

-----------------------------------------------------------------------------
(***************************************************************************)
(* What the steps that remain do to their run.                             *)
(***************************************************************************)

\* One transaction of save_success is open at a time, and its row is PENDING.
LEMMA OneTransaction ==
  ASSUME InStep, NEW s \in Sims, NEW d \in Tasks(s), phase[d] \in {"upload", "commit"}
  PROVE  /\ status[s] = "PENDING" /\ lock[s] = Count(d) /\ Count(d) # 0
         /\ \A e \in Tasks(s) \ {d} : phase[e] \notin {"upload", "commit"}
<1>1. lock[s] = Count(d) /\ Count(d) # 0
  BY TasksType, CountPositive DEF InStep, LockKeepsPending
<1>2. ASSUME NEW e \in Tasks(s), phase[e] \in {"upload", "commit"}
      PROVE  e = d
  <2>1. lock[s] = Count(e)
    BY <1>2, TasksType DEF InStep, LockKeepsPending
  <2> QED BY <1>1, <2>1, TasksType, DeliveryDistinct
<1> QED BY <1>1, <1>2 DEF InStep, LockKeepsPending

\* Every other run's tasks, and every other task of this one, stay.
LEMMA OthersStay ==
  ASSUME TypeOK, NEW s \in Sims, NEW d \in Tasks(s), TaskStep(d)
  PROVE  \A e \in Tasks(s) \ {d} : phase'[e] = phase[e]
BY TaskMoves DEF Tasks

\* save_failure fails a PENDING row that no transaction holds, and reports it
\* next; its report adds one entry.
LEMMA FailureStep ==
  ASSUME TypeOK, NEW s \in Sims, NEW d \in Tasks(s), Fail(d) \/ Unhandled(d)
  PROVE  /\ totals'[s] = totals[s] /\ result'[s] = result[s]
         /\ \/ /\ status'[s] = status[s] /\ error'[s] = error[s] /\ audit'[s] = audit[s]
               /\ phase'[d] \notin Ending
            \/ /\ status[s] = "PENDING" /\ lock[s] = 0
               /\ status'[s] = "FAILED" /\ audit'[s] = audit[s]
               /\ phase'[d] \in {"report_failure", "report_unhandled"} \/ phase'[d] \notin Ending
            \/ /\ phase[d] \in {"report_failure", "report_unhandled"}
               /\ status'[s] = status[s] /\ error'[s] = error[s]
               /\ audit'[s] = Append(audit[s], "FAILED")
               /\ phase'[d] \notin Ending
<1>1. d \in Delivery /\ Sim(d) = s /\ AfterFailure(d) \in {"ack", "ack_release"}
  BY TasksType, AfterFailureType
<1>2. ASSUME NEW r, NEW p \in {"report_failure", "report_unhandled"},
             NEW q \in {"ack", "ack_release"}, NEW x \in {"unhandled", "dead"},
             SaveFailure(d, r, p, q, x)
      PROVE  /\ totals'[s] = totals[s] /\ result'[s] = result[s] /\ audit'[s] = audit[s]
             /\ \/ /\ status'[s] = status[s] /\ error'[s] = error[s]
                   /\ phase'[d] \in {q, x}
                \/ /\ status[s] = "PENDING" /\ lock[s] = 0 /\ status'[s] = "FAILED"
                   /\ phase'[d] \in {p, x}
  <2>1. totals' = totals /\ result' = result /\ audit' = audit
    BY <1>2 DEF SaveFailure, rowVars, objectVars, FailRow
  <2>2. \/ UNCHANGED rowVars /\ (Go(d, q) \/ Go(d, x))
        \/ RowFree(s) /\ status[s] = "PENDING" /\ FailRow(s, r) /\ (Go(d, p) \/ Go(d, x))
    BY <1>1, <1>2 DEF SaveFailure
  <2> QED BY <1>1, <2>1, <2>2 DEF Go, FailRow, RowFree, rowVars, TypeOK, StoreTypeOK, DispatcherTypeOK
<1>3. ASSUME NEW q \in {"ack", "ack_release"}, NEW x \in {"unhandled", "dead"}, ReportFailure(d, q, x)
      PROVE  /\ totals'[s] = totals[s] /\ result'[s] = result[s]
             /\ status'[s] = status[s] /\ error'[s] = error[s]
             /\ audit'[s] \in {audit[s], Append(audit[s], "FAILED")}
             /\ phase'[d] \in {q, x}
  BY <1>1, <1>3 DEF ReportFailure, Record, Go, rowVars, objectVars, TypeOK, StoreTypeOK, DispatcherTypeOK
<1>4. \A p \in {"ack", "ack_release", "unhandled", "dead"} : p \notin Ending
  BY DEF Ending, Reporting
<1>5. CASE Fail(d)
  BY <1>1, <1>2, <1>3, <1>4, <1>5 DEF Fail
<1>6. CASE Unhandled(d)
  BY <1>2, <1>3, <1>4, <1>6 DEF Unhandled
<1> QED BY <1>5, <1>6

\* _mark_failed_to_queue fails the row, if there is one, and reports it next.
LEMMA MarkStep ==
  ASSUME TypeOK, NEW s \in Sims, MarkFailedToQueue(s)
  PROVE  /\ req[s] = "mark"
         /\ msg' = msg /\ totals'[s] = totals[s] /\ result'[s] = result[s] /\ audit'[s] = audit[s]
         /\ \/ /\ status'[s] = status[s] /\ error'[s] = error[s]
               /\ req'[s] \in {"unstore", "failed"}
            \/ /\ RowExists(s) /\ RowFree(s)
               /\ status'[s] = "FAILED" /\ error'[s] = "queue"
               /\ req'[s] \in {"report_mark", "failed"}
<1>1. req[s] = "mark" /\ msg' = msg /\ result' = result /\ audit' = audit /\ totals' = totals
  BY DEF MarkFailedToQueue, brokerVars, objectVars, rowVars, FailRow
<1>2. \/ UNCHANGED rowVars /\ req'[s] \in {"unstore", "failed"}
      \/ RowExists(s) /\ RowFree(s) /\ FailRow(s, "queue") /\ req'[s] \in {"report_mark", "failed"}
  BY DEF MarkFailedToQueue, AfterMark, Start, Respond, TypeOK, ApiTypeOK
<1> QED BY <1>1, <1>2 DEF rowVars, FailRow, TypeOK, StoreTypeOK

-----------------------------------------------------------------------------
(***************************************************************************)
(* The result.                                                             *)
(***************************************************************************)

LEMMA InitSeriesFirst == Init => SeriesBeforeSuccess
BY TasksType DEF Init, StoreInit, DispatcherInit, SeriesBeforeSuccess, SeriesFirst, Tasks

LEMMA StepSeriesFirst ==
  ASSUME TypeOK, InStep, [Next]_vars, NEW s \in Sims, SeriesFirst(s)
  PROVE  SeriesFirst(s)'
<1>1. CASE Quiet(s)
  BY <1>1 DEF Quiet, SeriesFirst, Ending, Tasks
<1>2. ASSUME NEW d \in Tasks(s), TaskStep(d), EndingStep(d)
      PROVE  SeriesFirst(s)'
  <2>1. d \in Delivery /\ Sim(d) = s /\ Count(d) # 0
    BY TasksType, CountPositive
  <2>2. \A e \in Tasks(s) \ {d} : phase'[e] = phase[e]
    BY <1>2, OthersStay
  <2>3. CASE Upload(d)
    <3>1. status[s] = "PENDING" /\ \A e \in Tasks(s) \ {d} : phase[e] # "commit"
      BY <2>3, OneTransaction DEF Upload
    <3>2. status' = status
      BY <2>3 DEF Upload, rowVars, UnlockRow
    <3>3. phase'[d] = "commit" => result'[s] = Count(d)
      BY <2>1, <2>3 DEF Upload, Go, TypeOK, StoreTypeOK, DispatcherTypeOK
    <3> QED BY <2>1, <2>2, <3>1, <3>2, <3>3 DEF SeriesFirst, Tasks
  <2>4. CASE StaleUpload(d)
    <3>1. /\ status' = status /\ totals' = totals /\ result'[s] = Count(d)
          /\ phase'[d] = "nak"
      BY <2>1, <2>4 DEF StaleUpload, rowVars, Go, TypeOK, StoreTypeOK, DispatcherTypeOK
    <3> QED BY <2>1, <2>2, <3>1 DEF SeriesFirst, Tasks
  <2>5. CASE Commit(d)
    <3>1. status[s] = "PENDING" /\ result[s] # 0 /\ \A e \in Tasks(s) \ {d} : phase[e] # "commit"
      BY <2>5, OneTransaction DEF Commit, SeriesFirst
    <3>2. result' = result /\ phase'[d] # "commit"
      BY <2>1, <2>5 DEF Commit, objectVars, Go, TypeOK, DispatcherTypeOK
    <3>3. status'[s] = status[s] \/ totals'[s] = Count(d)
      BY <2>1, <2>5 DEF Commit, SucceedRow, UnlockRow, TypeOK, StoreTypeOK
    <3> QED BY <2>1, <2>2, <3>1, <3>2, <3>3 DEF SeriesFirst, Tasks
  <2>6. CASE ReportSuccess(d)
    <3>1. UNCHANGED <<status, totals, result>> /\ phase'[d] # "commit"
      BY <2>1, <2>6, TerminalType DEF ReportSuccess, rowVars, objectVars, Go, TypeOK, DispatcherTypeOK
    <3> QED BY <2>2, <3>1 DEF SeriesFirst, Tasks
  <2>7. CASE Fail(d) \/ Unhandled(d)
    <3>1. /\ totals'[s] = totals[s] /\ result'[s] = result[s]
          /\ status'[s] = status[s] \/ status'[s] = "FAILED"
          /\ phase'[d] # "commit"
      BY <2>7, FailureStep DEF Ending
    <3> QED BY <2>2, <3>1 DEF SeriesFirst, Tasks
  <2> QED BY <1>2, <2>3, <2>4, <2>5, <2>6, <2>7 DEF EndingStep
<1>3. ASSUME UNCHANGED taskVars, EndingRequest(s)
      PROVE  SeriesFirst(s)'
  <2>1. phase' = phase
    BY <1>3 DEF taskVars
  <2>2. CASE InsertRow(s) \/ DeleteRow(s)
    <3>1. /\ result' = result
          /\ status'[s] \in {"PENDING", "gone"} \/ (status'[s] = status[s] /\ totals'[s] = totals[s])
      BY <2>2 DEF InsertRow, DeleteRow, objectVars, TypeOK, StoreTypeOK
    <3> QED BY <2>1, <3>1 DEF SeriesFirst, Tasks
  <2>3. CASE MarkFailedToQueue(s)
    BY <2>1, <2>3, MarkStep DEF SeriesFirst, Tasks
  <2>4. CASE ReportMark(s)
    BY <2>1, <2>4 DEF ReportMark, rowVars, objectVars, SeriesFirst, Tasks
  <2>5. CASE DeleteResult(s)
    <3>1. status[s] = "gone" /\ status' = status
      BY <2>5 DEF DeleteResult, rowVars, InStep, RowBeforeMessage, RowFirst
    <3>2. \A d \in Tasks(s) : phase[d] # "commit"
      BY <3>1, OneTransaction
    <3> QED BY <2>1, <3>1, <3>2 DEF SeriesFirst, Tasks
  <2> QED BY <1>3, <2>2, <2>3, <2>4, <2>5 DEF EndingRequest
<1> QED BY <1>1, <1>2, <1>3, StepOfRun

\* A row that says SUCCESS has its series, whatever is lost, for any number of
\* deliveries of the run: save_success uploads before it commits.
THEOREM SuccessKeepsSeries == Spec => []SuccessHasSeries
<1>1. Init => SeriesBeforeSuccess
  BY InitSeriesFirst
<1>2. TypeOK /\ InStep /\ SeriesBeforeSuccess /\ [Next]_vars => SeriesBeforeSuccess'
  BY StepSeriesFirst DEF SeriesBeforeSuccess
<1>3. SeriesBeforeSuccess => SuccessHasSeries
  BY DEF SeriesBeforeSuccess, SeriesFirst, SuccessHasSeries
<1> QED BY <1>1, <1>2, <1>3, TypeCorrect, InStepHolds, PTL DEF Spec

\* Only the upload of a transaction that lost its lock is not its commit's.
LEMMA InitOwnSeries == Init => SeriesOfItsCommit
BY TasksType DEF Init, StoreInit, DispatcherInit, SeriesOfItsCommit, OwnSeries, Tasks

LEMMA StepOwnSeries ==
  ASSUME "db_drop" \notin FaultKinds,
         TypeOK, InStep, [Next]_vars, NEW s \in Sims, OwnSeries(s)
  PROVE  OwnSeries(s)'
<1>1. CASE Quiet(s)
  BY <1>1 DEF Quiet, OwnSeries, Ending, Tasks
<1>2. ASSUME NEW d \in Tasks(s), TaskStep(d), EndingStep(d)
      PROVE  OwnSeries(s)'
  <2>1. d \in Delivery /\ Sim(d) = s /\ Count(d) # 0 /\ phase[d] # "stale_upload"
    BY TasksType, CountPositive DEF OwnSeries
  <2>2. \A e \in Tasks(s) \ {d} : phase'[e] = phase[e]
    BY <1>2, OthersStay
  <2>3. CASE Upload(d)
    <3>1. status[s] = "PENDING" /\ \A e \in Tasks(s) \ {d} : phase[e] # "commit"
      BY <2>3, OneTransaction DEF Upload
    <3>2. status' = status
      BY <2>3 DEF Upload, rowVars, UnlockRow
    <3>3. \/ phase'[d] = "commit" /\ result'[s] = Count(d)
          \/ phase'[d] = "nak"
      BY <2>1, <2>3 DEF Upload, Fails, Go, TypeOK, StoreTypeOK, DispatcherTypeOK
    <3> QED BY <2>1, <2>2, <3>1, <3>2, <3>3 DEF OwnSeries, Tasks
  <2>4. CASE Commit(d)
    <3>1. /\ status[s] = "PENDING" /\ result[s] = Count(d)
          /\ \A e \in Tasks(s) \ {d} : phase[e] # "commit"
      BY <2>4, OneTransaction DEF Commit, OwnSeries
    <3>2. result' = result /\ phase'[d] \notin {"commit", "stale_upload"}
      BY <2>1, <2>4 DEF Commit, objectVars, Go, TypeOK, DispatcherTypeOK
    <3>3. status'[s] = status[s] \/ totals'[s] = Count(d)
      BY <2>1, <2>4 DEF Commit, SucceedRow, UnlockRow, TypeOK, StoreTypeOK
    <3> QED BY <2>1, <2>2, <3>1, <3>2, <3>3 DEF OwnSeries, Tasks
  <2>5. CASE ReportSuccess(d)
    <3>1. UNCHANGED <<status, totals, result>> /\ phase'[d] \notin {"commit", "stale_upload"}
      BY <2>1, <2>5, TerminalType DEF ReportSuccess, rowVars, objectVars, Go, TypeOK, DispatcherTypeOK
    <3> QED BY <2>2, <3>1 DEF OwnSeries, Tasks
  <2>6. CASE Fail(d) \/ Unhandled(d)
    <3>1. /\ totals'[s] = totals[s] /\ result'[s] = result[s]
          /\ status'[s] = status[s] \/ status'[s] = "FAILED"
          /\ phase'[d] \notin {"commit", "stale_upload"}
      BY <2>6, FailureStep DEF Ending
    <3> QED BY <2>2, <3>1 DEF OwnSeries, Tasks
  <2> QED BY <1>2, <2>1, <2>3, <2>4, <2>5, <2>6 DEF EndingStep, StaleUpload
<1>3. ASSUME UNCHANGED taskVars, EndingRequest(s)
      PROVE  OwnSeries(s)'
  <2>1. phase' = phase
    BY <1>3 DEF taskVars
  <2>2. CASE InsertRow(s) \/ DeleteRow(s)
    <3>1. /\ result' = result
          /\ status'[s] \in {"PENDING", "gone"} \/ (status'[s] = status[s] /\ totals'[s] = totals[s])
      BY <2>2 DEF InsertRow, DeleteRow, objectVars, TypeOK, StoreTypeOK
    <3> QED BY <2>1, <3>1 DEF OwnSeries, Tasks
  <2>3. CASE MarkFailedToQueue(s)
    BY <2>1, <2>3, MarkStep DEF OwnSeries, Tasks
  <2>4. CASE ReportMark(s)
    BY <2>1, <2>4 DEF ReportMark, rowVars, objectVars, OwnSeries, Tasks
  <2>5. CASE DeleteResult(s)
    <3>1. status[s] = "gone" /\ status' = status
      BY <2>5 DEF DeleteResult, rowVars, InStep, RowBeforeMessage, RowFirst
    <3>2. \A d \in Tasks(s) : phase[d] # "commit"
      BY <3>1, OneTransaction
    <3> QED BY <2>1, <3>1, <3>2 DEF OwnSeries, Tasks
  <2> QED BY <1>3, <2>2, <2>3, <2>4, <2>5 DEF EndingRequest
<1> QED BY <1>1, <1>2, <1>3, StepOfRun

LEMMA SeriesOfItsCommitHolds ==
  ASSUME "db_drop" \notin FaultKinds
  PROVE  Spec => []SeriesOfItsCommit
<1>1. TypeOK /\ InStep /\ SeriesOfItsCommit /\ [Next]_vars => SeriesOfItsCommit'
  BY StepOwnSeries DEF SeriesOfItsCommit
<1> QED BY <1>1, InitOwnSeries, TypeCorrect, InStepHolds, PTL DEF Spec

\* The totals in the database and the series in storage are one delivery's,
\* unless a connection can be dropped while it holds the row's lock.
THEOREM TotalsKeepMatch ==
  ASSUME "db_drop" \notin FaultKinds
  PROVE  Spec => []TotalsMatchSeries
<1>1. SeriesOfItsCommit => TotalsMatchSeries
  BY DEF SeriesOfItsCommit, OwnSeries, TotalsMatchSeries
<1> QED BY <1>1, SeriesOfItsCommitHolds, PTL

-----------------------------------------------------------------------------
(***************************************************************************)
(* The row.                                                                *)
(***************************************************************************)

\* What can change a row that is SUCCESS or FAILED: its DELETE, or a request
\* that gives up a run whose publish raised.
LEMMA EndedRowChanges ==
  ASSUME TypeOK, InStep, [Next]_vars, NEW s \in Sims, status[s] \in {"SUCCESS", "FAILED"}
  PROVE  \/ UNCHANGED <<status[s], error[s], totals[s]>>
         \/ status'[s] = "gone"
         \/ req[s] = "mark" /\ error'[s] = "queue" /\ totals'[s] = totals[s]
<1>1. CASE Quiet(s)
  BY <1>1 DEF Quiet
<1>2. ASSUME NEW d \in Tasks(s), EndingStep(d)
      PROVE  UNCHANGED <<status[s], error[s], totals[s]>>
  <2>1. CASE Upload(d) \/ StaleUpload(d) \/ ReportSuccess(d)
    BY <2>1 DEF Upload, StaleUpload, ReportSuccess, UnlockRow, rowVars
  <2>2. CASE Commit(d)
    BY <2>2, OneTransaction DEF Commit
  <2>3. CASE Fail(d) \/ Unhandled(d)
    BY <2>3, FailureStep
  <2> QED BY <1>2, <2>1, <2>2, <2>3 DEF EndingStep
<1>3. CASE EndingRequest(s)
  <2>1. CASE InsertRow(s)
    BY <2>1 DEF InsertRow, InStep, RowBeforeMessage, RowFirst
  <2>2. CASE MarkFailedToQueue(s)
    BY <2>2, MarkStep
  <2>3. CASE DeleteRow(s)
    BY <2>3 DEF DeleteRow, TypeOK, StoreTypeOK
  <2>4. CASE ReportMark(s) \/ DeleteResult(s)
    BY <2>4 DEF ReportMark, DeleteResult, rowVars
  <2> QED BY <1>3, <2>1, <2>2, <2>3, <2>4 DEF EndingRequest
<1> QED BY <1>1, <1>2, <1>3, StepOfRun

\* No late, repeated or failing delivery changes a run that ended, whatever
\* faults happen.
THEOREM LateStepsLeaveEndedRuns == Spec => OnlyALatePublishRewrites
<1>1. TypeOK /\ InStep /\ [Next]_vars =>
        [\A s \in Sims :
           status[s] \in {"SUCCESS", "FAILED"} =>
             \/ UNCHANGED <<status[s], error[s], totals[s]>>
             \/ status'[s] = "gone"
             \/ req[s] = "mark" /\ error'[s] = "queue" /\ totals'[s] = totals[s]]_vars
  BY EndedRowChanges
<1> QED BY <1>1, TypeCorrect, InStepHolds, PTL DEF Spec, OnlyALatePublishRewrites

\* Without a lost answer, a request that may give its run up is alone with it.
LEMMA InitUnqueued == Init => QueuedLast
BY DEF Init, BrokerInit, StoreInit, ApiInit, QueuedLast, Unqueued

\* No task works on a run that was not published.
LEMMA NoTaskUnpublished ==
  ASSUME InStep, NEW s \in Sims, msg[s] = "none"
  PROVE  \A d \in Tasks(s) : phase[d] = "idle"
BY TasksType DEF InStep, ClosedBeforeAck

LEMMA StepUnqueued ==
  ASSUME "publish_lost" \notin FaultKinds,
         TypeOK, InStep, [Next]_vars, NEW s \in Sims, Unqueued(s)
  PROVE  Unqueued(s)'
<1>1. CASE Quiet(s)
  BY <1>1 DEF Quiet, RequestWaits, Unqueued
<1>2. ASSUME NEW d \in Tasks(s), TaskStep(d), EndingStep(d), UNCHANGED apiVars
      PROVE  Unqueued(s)'
  <2>1. phase[d] # "idle"
    BY <1>2 DEF EndingStep, Upload, StaleUpload, Commit, ReportSuccess, Fail, Unhandled
  <2>2. msg[s] # "none"
    BY <2>1, NoTaskUnpublished
  <2> QED BY <1>2, <2>2 DEF Unqueued, apiVars
<1>3. ASSUME EndingRequest(s)
      PROVE  Unqueued(s)'
  <2>1. CASE InsertRow(s)
    <3>1. msg' = msg /\ req[s] = "insert" /\ status[s] = "absent" /\ msg[s] = "none"
      BY <2>1 DEF InsertRow, brokerVars, InStep, RowBeforeMessage, RowFirst
    <3>2. (req'[s] = "log" /\ status'[s] = "PENDING") \/ req'[s] \in {"undo", "refused"}
      BY <2>1 DEF InsertRow, Start, Respond, TypeOK, StoreTypeOK, ApiTypeOK
    <3> QED BY <3>1, <3>2 DEF Unqueued
  <2>2. CASE MarkFailedToQueue(s)
    BY <2>2, MarkStep DEF Unqueued
  <2>3. CASE ReportMark(s)
    BY <2>3 DEF ReportMark, AfterMark, Start, Respond, Unqueued, TypeOK, ApiTypeOK
  <2>4. CASE DeleteRow(s) \/ DeleteResult(s)
    <3>1. msg' = msg /\ req' = req /\ status'[s] \in {status[s], "gone"}
      BY <2>4 DEF DeleteRow, DeleteResult, Delete, brokerVars, rowVars, TypeOK, StoreTypeOK
    <3> QED BY <3>1 DEF Unqueued
  <2> QED BY <1>3, <2>1, <2>2, <2>3, <2>4 DEF EndingRequest
<1> QED BY <1>1, <1>2, <1>3, StepOfRun

LEMMA UnqueuedHolds ==
  ASSUME "publish_lost" \notin FaultKinds
  PROVE  Spec => []QueuedLast
<1>1. TypeOK /\ InStep /\ QueuedLast /\ [Next]_vars => QueuedLast'
  BY StepUnqueued DEF QueuedLast
<1> QED BY <1>1, InitUnqueued, TypeCorrect, InStepHolds, PTL DEF Spec

\* A run ends once, unless the answer to its publish can be lost.
THEOREM EndedRunsStay ==
  ASSUME "publish_lost" \notin FaultKinds
  PROVE  Spec => TerminalIsFinal
<1>1. TypeOK /\ InStep /\ QueuedLast /\ [Next]_vars =>
        [\A s \in Sims :
           status[s] \in {"SUCCESS", "FAILED"} =>
             \/ UNCHANGED <<status[s], error[s], totals[s]>>
             \/ status'[s] = "gone"]_vars
  BY EndedRowChanges DEF QueuedLast, Unqueued
<1> QED BY <1>1, UnqueuedHolds, TypeCorrect, InStepHolds, PTL DEF Spec, TerminalIsFinal

-----------------------------------------------------------------------------
(***************************************************************************)
(* The report.                                                             *)
(***************************************************************************)

LEMMA InitReportDue == Init => ReportsInOrder
BY TasksType DEF Init, StoreInit, DispatcherInit, ApiInit, ReportsInOrder, ReportDue, Reporting, Tasks

\* A row that is not closed has no task that reports it.
LEMMA NoReportWhilePending ==
  ASSUME InStep, NEW s \in Sims, status[s] \in {"absent", "PENDING"}
  PROVE  \A d \in Tasks(s) : phase[d] \notin Reporting
BY TasksType DEF InStep, ClosedBeforeAck, Concluding, Reporting, Closed

\* Whoever is to report finds an empty log, and adds one entry to it.
LEMMA FirstReport ==
  ASSUME NEW log, log = <<>>, NEW a
  PROVE  Append(log, a) = <<a>>
OBVIOUS

LEMMA StepReportDue ==
  ASSUME "publish_lost" \notin FaultKinds,
         TypeOK, InStep, [Next]_vars, NEW s \in Sims, Unqueued(s), ReportDue(s)
  PROVE  ReportDue(s)'
<1>1. CASE Quiet(s)
  <2>1. \A d \in Tasks(s) : phase'[d] \in Reporting => phase'[d] = phase[d]
    BY <1>1 DEF Quiet, Ending
  <2> QED BY <1>1, <2>1 DEF Quiet, RequestWaits, ReportDue, Tasks
<1>2. ASSUME NEW d \in Tasks(s), TaskStep(d), EndingStep(d), UNCHANGED apiVars
      PROVE  ReportDue(s)'
  <2>1. d \in Delivery /\ Sim(d) = s /\ req' = req
    BY <1>2, TasksType DEF apiVars
  <2>2. \A e \in Tasks(s) \ {d} : phase'[e] = phase[e]
    BY <1>2, OthersStay
  <2>3. ASSUME phase'[d] \notin Reporting, status'[s] = status[s], audit'[s] = audit[s]
        PROVE  ReportDue(s)'
    BY <2>1, <2>2, <2>3 DEF ReportDue, Tasks
  <2>4. ASSUME status[s] = "PENDING", audit'[s] = audit[s],
               \/ status'[s] = "SUCCESS" /\ phase'[d] \in {"report_success", "nak"}
               \/ /\ status'[s] = "FAILED"
                  /\ phase'[d] \in {"report_failure", "report_unhandled"} \/ phase'[d] \notin Reporting
        PROVE  ReportDue(s)'
    <3>1. audit[s] = <<>> /\ req[s] # "report_mark" /\ \A e \in Tasks(s) : phase[e] \notin Reporting
      BY <2>4, NoReportWhilePending DEF ReportDue
    <3> QED BY <2>1, <2>2, <2>4, <3>1 DEF ReportDue, Reporting, Tasks
  <2>5. ASSUME phase[d] \in Reporting, phase'[d] \notin Reporting, status'[s] = status[s],
               audit'[s] = Append(audit[s], IF phase[d] = "report_success" THEN "SUCCEEDED" ELSE "FAILED")
        PROVE  ReportDue(s)'
    <3>1. /\ audit[s] = <<>> /\ req[s] # "report_mark"
          /\ status[s] \in {IF phase[d] = "report_success" THEN "SUCCESS" ELSE "FAILED", "gone"}
          /\ \A e \in Tasks(s) \ {d} : phase[e] \notin Reporting
      BY <2>5 DEF ReportDue
    <3>2. audit'[s] = <<IF phase[d] = "report_success" THEN "SUCCEEDED" ELSE "FAILED">>
      BY <2>5, <3>1, FirstReport
    <3> QED BY <2>1, <2>2, <2>5, <3>1, <3>2 DEF ReportDue, Tasks
  <2>6. CASE Upload(d) \/ StaleUpload(d)
    <3>1. status' = status /\ audit' = audit /\ phase'[d] \notin Reporting
      BY <2>1, <2>6 DEF Upload, StaleUpload, rowVars, UnlockRow, Go, Reporting, TypeOK, DispatcherTypeOK
    <3> QED BY <2>3, <3>1
  <2>7. CASE Commit(d)
    <3>1. status[s] = "PENDING" /\ audit' = audit
      BY <2>7, OneTransaction DEF Commit
    <3>2. \/ status'[s] = status[s] /\ phase'[d] = "nak"
          \/ status'[s] = "SUCCESS" /\ phase'[d] \in {"report_success", "nak"}
      BY <2>1, <2>7 DEF Commit, UnlockRow, SucceedRow, Go, TypeOK, StoreTypeOK, DispatcherTypeOK
    <3>3. "nak" \notin Reporting
      BY DEF Reporting
    <3> QED BY <2>3, <2>4, <3>1, <3>2, <3>3
  <2>8. CASE ReportSuccess(d)
    <3>1. status' = status /\ phase[d] = "report_success" /\ phase'[d] \notin Reporting
      BY <2>1, <2>8, TerminalType DEF ReportSuccess, rowVars, Go, Reporting, TypeOK, DispatcherTypeOK
    <3>2. audit'[s] = audit[s] \/ audit'[s] = Append(audit[s], "SUCCEEDED")
      BY <2>1, <2>8 DEF ReportSuccess, Record, TypeOK, StoreTypeOK
    <3>3. phase[d] \in Reporting
      BY <3>1 DEF Reporting
    <3> QED BY <2>3, <2>5, <3>1, <3>2, <3>3
  <2>9. CASE Fail(d) \/ Unhandled(d)
    <3>1. \A p : p \notin Ending => p \notin Reporting
      BY DEF Ending
    <3>2. \/ status'[s] = status[s] /\ audit'[s] = audit[s] /\ phase'[d] \notin Reporting
          \/ /\ status[s] = "PENDING" /\ status'[s] = "FAILED" /\ audit'[s] = audit[s]
             /\ phase'[d] \in {"report_failure", "report_unhandled"} \/ phase'[d] \notin Reporting
          \/ /\ phase[d] \in {"report_failure", "report_unhandled"} /\ phase'[d] \notin Reporting
             /\ status'[s] = status[s] /\ audit'[s] = Append(audit[s], "FAILED")
      BY <2>9, <3>1, FailureStep
    <3>3. phase[d] \in {"report_failure", "report_unhandled"} => phase[d] \in Reporting /\ phase[d] # "report_success"
      BY DEF Reporting
    <3> QED BY <2>3, <2>4, <2>5, <3>2, <3>3
  <2> QED BY <1>2, <2>6, <2>7, <2>8, <2>9 DEF EndingStep
<1>3. ASSUME UNCHANGED taskVars, EndingRequest(s)
      PROVE  ReportDue(s)'
  <2>1. phase' = phase
    BY <1>3 DEF taskVars
  <2>2. CASE InsertRow(s)
    <3>1. /\ status[s] = "absent" /\ status'[s] \in {"absent", "PENDING"} /\ audit' = audit
          /\ req'[s] \in {"log", "undo", "refused"}
      BY <2>2 DEF InsertRow, Start, Respond, InStep, RowBeforeMessage, RowFirst, TypeOK, StoreTypeOK, ApiTypeOK
    <3> QED BY <2>1, <3>1, NoReportWhilePending DEF ReportDue, Tasks
  <2>3. CASE MarkFailedToQueue(s)
    <3>1. msg[s] = "none" /\ status[s] \in {"PENDING", "gone"}
      BY <2>3, MarkStep DEF Unqueued
    <3>2. \A d \in Tasks(s) : phase[d] \notin Reporting
      BY <3>1, NoTaskUnpublished DEF Reporting
    <3>3. \/ status'[s] = status[s] /\ req'[s] # "report_mark" /\ audit'[s] = audit[s]
          \/ status[s] = "PENDING" /\ status'[s] = "FAILED" /\ audit'[s] = audit[s]
      BY <2>3, <3>1, MarkStep DEF RowExists
    <3> QED BY <2>1, <3>2, <3>3 DEF ReportDue, Tasks
  <2>4. CASE ReportMark(s)
    <3>1. /\ audit[s] = <<>> /\ status[s] \in {"FAILED", "gone"} /\ status' = status
          /\ \A d \in Tasks(s) : phase[d] \notin Reporting
      BY <2>4 DEF ReportMark, rowVars, ReportDue
    <3>2. req'[s] # "report_mark"
      BY <2>4 DEF ReportMark, AfterMark, Start, Respond, TypeOK, ApiTypeOK
    <3>3. audit'[s] = audit[s] \/ audit'[s] = Append(audit[s], "QUEUE_FAILED")
      BY <2>4 DEF ReportMark, Record, TypeOK, StoreTypeOK
    <3>4. audit'[s] = <<>> \/ audit'[s] = <<"QUEUE_FAILED">>
      BY <3>1, <3>3, FirstReport
    <3> QED BY <2>1, <3>1, <3>2, <3>4 DEF ReportDue, Tasks
  <2>5. CASE DeleteRow(s) \/ DeleteResult(s)
    <3>1. /\ audit' = audit /\ req' = req /\ status'[s] \in {status[s], "gone"}
      BY <2>5 DEF DeleteRow, DeleteResult, Delete, rowVars, TypeOK, StoreTypeOK
    <3> QED BY <2>1, <3>1 DEF ReportDue, Tasks
  <2> QED BY <1>3, <2>2, <2>3, <2>4, <2>5 DEF EndingRequest
<1> QED BY <1>1, <1>2, <1>3, StepOfRun

\* The audit log holds at most one ending of a run, and the one its row shows,
\* unless the answer to its publish can be lost.
THEOREM EndingsAreReportedOnce ==
  ASSUME "publish_lost" \notin FaultKinds
  PROVE  Spec => []ReportedOnce
<1>1. TypeOK /\ InStep /\ QueuedLast /\ ReportsInOrder /\ [Next]_vars => ReportsInOrder'
  BY StepReportDue DEF ReportsInOrder, QueuedLast
<1>2. ReportsInOrder => ReportedOnce
  <2> SUFFICES ASSUME ReportsInOrder, NEW s \in Sims
               PROVE  /\ Len(audit[s]) <= 1
                      /\ audit[s] # <<>> =>
                           \/ status[s] = "gone"
                           \/ status[s] = "SUCCESS" /\ audit[s] = <<"SUCCEEDED">>
                           \/ status[s] = "FAILED" /\ audit[s] \in {<<"FAILED">>, <<"QUEUE_FAILED">>}
    BY DEF ReportedOnce
  <2>1. \/ audit[s] = <<>>
        \/ audit[s] \in {<<"SUCCEEDED">>, <<"FAILED">>, <<"QUEUE_FAILED">>}
    BY DEF ReportsInOrder, ReportDue
  <2>2. Len(audit[s]) <= 1
    <3>1. /\ Len(<< >>) = 0
          /\ Len(<<"SUCCEEDED">>) = 1 /\ Len(<<"FAILED">>) = 1 /\ Len(<<"QUEUE_FAILED">>) = 1
      OBVIOUS
    <3>2. Len(audit[s]) = 0 \/ Len(audit[s]) = 1
      BY <2>1, <3>1, Zenon
    <3>3. \A n : n = 0 \/ n = 1 => n <= 1
      OBVIOUS
    <3> QED BY <3>2, <3>3, Zenon
  <2> QED BY <2>1, <2>2 DEF ReportsInOrder, ReportDue
<1> QED BY <1>1, <1>2, InitReportDue, UnqueuedHolds, TypeCorrect, InStepHolds, PTL DEF Spec

-----------------------------------------------------------------------------
(***************************************************************************)
(* The service implements the life of a run (RunLifecycle): every step is  *)
(* one step in the life of one run, or none in the life of any.            *)
(***************************************************************************)

\* The life of s stands still.
Stays(s) ==
  /\ LifeState(s)' = LifeState(s) /\ LifeInput(s)' = LifeInput(s) /\ LifeShown(s)' = LifeShown(s)

\* The life of s moves on: what a step of RunLifecycle does to it.
Lives(s) ==
  \/ /\ LifeState(s) = "none" /\ LifeInput(s) /\ LifeState(s)' = "waiting"
     /\ LifeInput(s)' = LifeInput(s) /\ LifeShown(s)' = LifeShown(s)
  \/ /\ LifeState(s) = "waiting" /\ LifeState(s)' = "succeeded" /\ LifeShown(s)' \in 1..MaxDeliver
     /\ LifeInput(s)' = LifeInput(s)
  \/ /\ LifeState(s) \in {"none", "waiting"} /\ LifeState(s)' = "failed"
     /\ LifeInput(s)' = LifeInput(s) /\ LifeShown(s)' = LifeShown(s)
  \/ /\ LifeState(s) # "removed" /\ LifeState(s)' = "removed" /\ LifeShown(s)' = 0
     /\ LifeInput(s)' = LifeInput(s)
  \/ /\ LifeState(s) # "waiting" /\ LifeState(s)' = LifeState(s)
     /\ LifeInput(s)' = ~LifeInput(s) /\ LifeShown(s)' = LifeShown(s)

\* Every status stands for one state of a life.
LEMMA LifeStates ==
  ASSUME TypeOK, NEW s \in Sims
  PROVE  /\ LifeState(s) = IF status[s] = "absent" THEN "none"
                           ELSE IF status[s] = "PENDING" THEN IF msg[s] = "none" THEN "none" ELSE "waiting"
                           ELSE IF status[s] = "SUCCESS" THEN "succeeded"
                           ELSE IF status[s] = "FAILED" THEN "failed"
                           ELSE "removed"
         /\ LifeInput(s) \in BOOLEAN
BY DEF TypeOK, StoreTypeOK, Statuses, LifeState, LifeInput

LEMMA LifeStatesNext ==
  ASSUME TypeOK', NEW s \in Sims
  PROVE  LifeState(s)' = IF status'[s] = "absent" THEN "none"
                         ELSE IF status'[s] = "PENDING" THEN IF msg'[s] = "none" THEN "none" ELSE "waiting"
                         ELSE IF status'[s] = "SUCCESS" THEN "succeeded"
                         ELSE IF status'[s] = "FAILED" THEN "failed"
                         ELSE "removed"
BY DEF TypeOK, StoreTypeOK, Statuses, LifeState

LEMMA SameLife ==
  ASSUME NEW s \in Sims, status'[s] = status[s], (msg'[s] = "none") <=> (msg[s] = "none"),
         source'[s] = source[s], status[s] = "SUCCESS" => result'[s] = result[s]
  PROVE  Stays(s)
BY DEF Stays, LifeState, LifeInput, LifeShown

\* A file comes or goes while its run does not wait.
LEMMA InputLife ==
  ASSUME TypeOK, TypeOK', NEW s \in Sims, status'[s] = status[s], msg'[s] = msg[s],
         result'[s] = result[s], status[s] = "PENDING" => msg[s] = "none"
  PROVE  Stays(s) \/ Lives(s)
<1>1. LifeState(s)' = LifeState(s) /\ LifeShown(s)' = LifeShown(s)
  BY DEF LifeState, LifeShown
<1>2. LifeState(s) # "waiting"
  BY LifeStates
<1>3. LifeInput(s)' \in BOOLEAN /\ LifeInput(s) \in BOOLEAN
  BY DEF TypeOK, StoreTypeOK, LifeInput
<1>4. LifeInput(s)' = LifeInput(s) \/ LifeInput(s)' = ~LifeInput(s)
  BY <1>3
<1> QED BY <1>1, <1>2, <1>4 DEF Stays, Lives

-----------------------------------------------------------------------------
\* A task's own run: it succeeds at the commit, it fails where save_failure
\* found the row PENDING, and its file goes once the row is closed.
LEMMA TaskLife ==
  ASSUME TypeOK, TypeOK', InStep, NEW s \in Sims, OwnSeries(s), OwnSeries(s)',
         NEW d \in Tasks(s), UNCHANGED apiVars, TaskStep(d)
  PROVE  Stays(s) \/ Lives(s)
<1>1. d \in Delivery /\ Sim(d) = s /\ Count(d) \in 1..MaxDeliver
  BY TasksType
<1>2. phase[d] # "idle" /\ msg[s] # "none" /\ status[s] # "absent"
  <2>1. phase[d] # "idle"
    BY DEF TaskStep, ReadRow, ReadKey, LoadFile, LoadCrm, StartSolve, Solve,
           Claim, Upload, StaleUpload, Commit, ReportSuccess, Fail, Unhandled, Ack, Release, Nak
  <2> QED BY <1>1, <2>1 DEF InStep, ClosedBeforeAck, RowBeforeMessage, RowFirst
<1>3. CASE ReadRow(d) \/ ReadKey(d) \/ LoadFile(d) \/ LoadCrm(d) \/ StartSolve(d) \/ Solve(d)
  <2>1. UNCHANGED <<brokerVars, storeVars>>
    BY <1>3 DEF ReadRow, ReadKey, LoadFile, LoadCrm, StartSolve, Solve
  <2> QED BY <2>1, SameLife DEF brokerVars, storeVars
<1>4. CASE Claim(d) \/ Upload(d) \/ StaleUpload(d) \/ ReportSuccess(d)
  <2>1. UNCHANGED <<msg, status, source>>
    BY <1>4 DEF Claim, Upload, StaleUpload, ReportSuccess, brokerVars, rowVars, objectVars, UnlockRow
  <2>2. status[s] = "SUCCESS" => result'[s] = result[s]
    <3>1. CASE Upload(d)
      BY <3>1, OneTransaction DEF Upload
    <3>2. CASE StaleUpload(d)
      BY <3>2 DEF StaleUpload, OwnSeries
    <3> QED BY <1>4, <3>1, <3>2 DEF Claim, ReportSuccess, objectVars
  <2> QED BY <2>1, <2>2, SameLife
<1>5. CASE Commit(d)
  <2>1. UNCHANGED <<msg, source, result>> /\ status[s] = "PENDING" /\ result[s] = Count(d)
    BY <1>5, OneTransaction DEF Commit, brokerVars, objectVars, OwnSeries
  <2>2. status'[s] = status[s] \/ status'[s] = "SUCCESS"
    BY <1>1, <1>5 DEF Commit, SucceedRow, UnlockRow, TypeOK, StoreTypeOK
  <2>3. ASSUME status'[s] = "SUCCESS"
        PROVE  Lives(s)
    <3>1. LifeState(s) = "waiting" /\ LifeState(s)' = "succeeded"
      BY <1>2, <2>1, <2>3, LifeStates, LifeStatesNext
    <3>2. LifeInput(s)' = LifeInput(s) /\ LifeShown(s)' = Count(d)
      BY <2>1, <2>3 DEF LifeInput, LifeShown
    <3> QED BY <1>1, <3>1, <3>2 DEF Lives
  <2> QED BY <2>1, <2>2, <2>3, SameLife
<1>6. CASE Fail(d) \/ Unhandled(d)
  <2>1. UNCHANGED <<msg, source>> /\ result'[s] = result[s]
    BY <1>6, FailureStep DEF Fail, Unhandled, SaveFailure, ReportFailure, brokerVars, objectVars
  <2>2. status'[s] = status[s] \/ (status[s] = "PENDING" /\ status'[s] = "FAILED")
    BY <1>6, FailureStep
  <2>3. ASSUME status[s] = "PENDING", status'[s] = "FAILED"
        PROVE  Lives(s)
    <3>1. LifeState(s) = "waiting" /\ LifeState(s)' = "failed"
      BY <1>2, <2>3, LifeStates, LifeStatesNext
    <3>2. LifeInput(s)' = LifeInput(s) /\ LifeShown(s)' = LifeShown(s)
      BY <2>1, <2>3 DEF LifeInput, LifeShown
    <3> QED BY <3>1, <3>2 DEF Lives
  <2> QED BY <2>1, <2>2, <2>3, SameLife
<1>7. CASE Ack(d) \/ Nak(d)
  <2>1. UNCHANGED storeVars /\ (UNCHANGED brokerVars \/ Settle(s) \/ Return(s))
    BY <1>1, <1>7 DEF Ack, Nak
  <2>2. msg'[s] # "none"
    BY <1>2, <2>1 DEF brokerVars, Settle, Return, TypeOK, BrokerTypeOK
  <2> QED BY <1>2, <2>1, <2>2, SameLife DEF storeVars
<1>8. CASE Release(d)
  <2>1. UNCHANGED <<msg, status, result>>
    BY <1>8 DEF Release, brokerVars, rowVars
  <2>2. status[s] # "PENDING"
    BY <1>1, <1>8 DEF Release, InStep, ClosedBeforeAck, Concluding, Closed
  <2> QED BY <2>1, <2>2, InputLife
<1> QED BY <1>3, <1>4, <1>5, <1>6, <1>7, <1>8 DEF TaskStep

LEMMA OthersLife ==
  ASSUME TypeOK, NEW d \in Delivery, TaskStep(d), NEW s \in Sims, s # Sim(d)
  PROVE  Stays(s)
BY TaskStores, SameLife

\* The broker and the workers' processes: no run moves on.
LEMMA WorkersLife ==
  ASSUME TypeOK, NEW s \in Sims,
         \/ \E r \in Sims, w \in Workers : Deliver(r, w)
         \/ \E r \in Sims : Lapse(r)
         \/ \E w \in Workers : WorkerStep(w)
  PROVE  Stays(s)
<1>1. ASSUME NEW r \in Sims, NEW w \in Workers, Deliver(r, w)
      PROVE  Stays(s)
  <2>1. msg' = [msg EXCEPT ![r] = "unacked"] /\ msg[r] = "ready" /\ UNCHANGED storeVars
    BY <1>1 DEF Deliver, HandOut, Deliverable
  <2> QED BY <2>1, SameLife DEF storeVars, TypeOK, BrokerTypeOK
<1>2. ASSUME NEW r \in Sims, Lapse(r)
      PROVE  Stays(s)
  <2>1. UNCHANGED storeVars /\ (msg'[s] = "none" <=> msg[s] = "none")
    BY <1>2 DEF Lapse, Return, TypeOK, BrokerTypeOK
  <2> QED BY <2>1, SameLife DEF storeVars
<1>3. ASSUME NEW D, Kill(D)
      PROVE  Stays(s)
  BY <1>3, SameLife DEF Kill, brokerVars, objectVars
<1>4. ASSUME NEW w \in Workers,
             PoolBreaks(w) \/ Restart(w) \/ LoseLink(w) \/ RegainLink(w) \/ Shutdown(w)
      PROVE  Stays(s)
  <2>1. UNCHANGED <<brokerVars, storeVars>>
    BY <1>4 DEF PoolBreaks, Restart, LoseLink, RegainLink, Shutdown
  <2> QED BY <2>1, SameLife DEF brokerVars, storeVars
<1> QED BY <1>1, <1>2, <1>3, <1>4 DEF WorkerStep, Crash, Close, Exit

\* A request: only its own run moves, and a run is accepted with its file.
LEMMA RequestLife ==
  ASSUME TypeOK, TypeOK', InStep, NEW r \in Sims, Unqueued(r),
         StartStep(r) \/ CrashStart(r) \/ ReadForDelete(r) \/ DeleteStep(r) \/ CrashDelete(r)
  PROVE  /\ Stays(r) \/ Lives(r)
         /\ \A s \in Sims \ {r} : Stays(s)
<1>1. RowFirst(r) /\ (r \in FileSims => SourceFirst(r))
  BY OwnRun
<1>2. CASE Submit(r) \/ LogCreated(r) \/ CrashStart(r) \/ ReadForDelete(r) \/ CrashDelete(r)
  <2>1. UNCHANGED <<brokerVars, storeVars>>
    BY <1>2 DEF Submit, LogCreated, CrashStart, ReadForDelete, CrashDelete
  <2> QED BY <2>1, SameLife DEF brokerVars, storeVars
<1>3. CASE UploadSource(r) \/ UndoUpload(r) \/ Unstore(r) \/ DeleteFile(r)
  <2>1. UNCHANGED <<msg, status, result>> /\ \A s \in Sims \ {r} : source'[s] = source[s]
    BY <1>3 DEF UploadSource, UndoUpload, Unstore, DropSource, DeleteFile, brokerVars, rowVars, TypeOK, StoreTypeOK
  <2>2. status[r] = "PENDING" => msg[r] = "none"
    BY <1>1, <1>3 DEF UploadSource, UndoUpload, Unstore, DropSource, DeleteFile, RowFirst, Closed
  <2>3. Stays(r) \/ Lives(r)
    BY <2>1, <2>2, InputLife
  <2>4. \A s \in Sims \ {r} : Stays(s)
    BY <2>1, SameLife
  <2> QED BY <2>3, <2>4
<1>4. CASE InsertRow(r)
  <2>1. UNCHANGED <<msg, source, result>> /\ \A s \in Sims \ {r} : status'[s] = status[s]
    BY <1>4 DEF InsertRow, brokerVars, objectVars, TypeOK, StoreTypeOK
  <2>2. msg[r] = "none" /\ status[r] = "absent" /\ status'[r] \in {"absent", "PENDING"}
    BY <1>1, <1>4 DEF InsertRow, RowFirst, TypeOK, StoreTypeOK
  <2>3. LifeState(r)' = LifeState(r)
    BY <2>1, <2>2, LifeStates, LifeStatesNext
  <2>4. Stays(r)
    BY <2>1, <2>2, <2>3 DEF Stays, LifeInput, LifeShown
  <2> QED BY <2>1, <2>4, SameLife
<1>5. CASE PublishRun(r)
  <2>1. UNCHANGED storeVars /\ msg[r] = "none" /\ status[r] \in {"PENDING", "gone"}
    BY <1>5 DEF PublishRun, Unqueued
  <2>2. \A s \in Sims \ {r} : msg'[s] = msg[s]
    BY <1>5 DEF PublishRun, Enqueue, brokerVars, TypeOK, BrokerTypeOK
  <2>3. CASE status[r] = "gone" \/ msg'[r] = "none"
    <3>1. LifeState(r)' = LifeState(r)
      BY <2>1, <2>3, LifeStates, LifeStatesNext DEF storeVars
    <3>2. Stays(r)
      BY <2>1, <3>1 DEF storeVars, Stays, LifeInput, LifeShown
    <3> QED BY <2>1, <2>2, <3>2, SameLife DEF storeVars
  <2>4. CASE status[r] = "PENDING" /\ msg'[r] # "none"
    <3>1. LifeState(r) = "none" /\ LifeState(r)' = "waiting"
      BY <2>1, <2>4, LifeStates, LifeStatesNext DEF storeVars
    <3>2. LifeInput(r)
      BY <1>1, <1>5, <2>4 DEF LifeInput, SourceFirst, PublishRun
    <3>3. LifeInput(r)' = LifeInput(r) /\ LifeShown(r)' = LifeShown(r)
      BY <2>1 DEF storeVars, LifeInput, LifeShown
    <3>4. Lives(r)
      BY <3>1, <3>2, <3>3 DEF Lives
    <3> QED BY <2>1, <2>2, <3>4, SameLife DEF storeVars
  <2> QED BY <2>1, <2>3, <2>4
<1>6. CASE MarkFailedToQueue(r)
  <2>1. UNCHANGED <<msg, source, result>> /\ \A s \in Sims \ {r} : status'[s] = status[s]
    BY <1>6 DEF MarkFailedToQueue, FailRow, brokerVars, objectVars, rowVars, TypeOK, StoreTypeOK
  <2>2. /\ status[r] \in {"PENDING", "gone"}
        /\ status'[r] = status[r] \/ (RowExists(r) /\ status'[r] = "FAILED")
    BY <1>6, MarkStep DEF Unqueued
  <2>3. ASSUME status[r] = "PENDING", status'[r] = "FAILED"
        PROVE  Lives(r)
    <3>1. LifeState(r) \in {"none", "waiting"} /\ LifeState(r)' = "failed"
      BY <2>3, LifeStates, LifeStatesNext
    <3>2. LifeInput(r)' = LifeInput(r) /\ LifeShown(r)' = LifeShown(r)
      BY <2>1, <2>3 DEF LifeInput, LifeShown
    <3> QED BY <3>1, <3>2 DEF Lives
  <2>4. Stays(r) \/ Lives(r)
    BY <2>1, <2>2, <2>3, SameLife DEF RowExists
  <2> QED BY <2>1, <2>4, SameLife
<1>7. CASE ReportMark(r)
  BY <1>7, SameLife DEF ReportMark, brokerVars, rowVars, objectVars
<1>8. CASE DeleteRow(r)
  <2>1. UNCHANGED <<msg, source, result>> /\ \A s \in Sims \ {r} : status'[s] = status[s]
    BY <1>8 DEF DeleteRow, brokerVars, objectVars, TypeOK, StoreTypeOK
  <2>2. status'[r] = status[r] \/ (status[r] # "gone" /\ status'[r] = "gone")
    BY <1>8 DEF DeleteRow, TypeOK, StoreTypeOK
  <2>3. ASSUME status[r] # "gone", status'[r] = "gone"
        PROVE  Lives(r)
    <3>1. LifeState(r) # "removed" /\ LifeState(r)' = "removed"
      BY <2>3, LifeStates, LifeStatesNext DEF TypeOK, StoreTypeOK, Statuses
    <3>2. LifeInput(r)' = LifeInput(r) /\ LifeShown(r)' = 0
      BY <2>1, <2>3 DEF LifeInput, LifeShown
    <3> QED BY <3>1, <3>2 DEF Lives
  <2>4. Stays(r) \/ Lives(r)
    BY <2>1, <2>2, <2>3, SameLife
  <2> QED BY <2>1, <2>4, SameLife
<1>9. CASE DeleteResult(r)
  <2>1. UNCHANGED <<msg, status, source>> /\ \A s \in Sims \ {r} : result'[s] = result[s]
    BY <1>9 DEF DeleteResult, brokerVars, rowVars, TypeOK, StoreTypeOK
  <2>2. status[r] = "gone"
    BY <1>1, <1>9 DEF DeleteResult, RowFirst
  <2> QED BY <2>1, <2>2, SameLife
<1> QED BY <1>2, <1>3, <1>4, <1>5, <1>6, <1>7, <1>8, <1>9 DEF StartStep, DeleteStep

\* Every step moves at most one run on.
LEMMA StepOfLife ==
  ASSUME TypeOK, TypeOK', InStep, SeriesOfItsCommit, SeriesOfItsCommit', QueuedLast, [Next]_vars
  PROVE  \/ \A s \in Sims : Stays(s)
         \/ \E r \in Sims : Lives(r) /\ \A s \in Sims \ {r} : Stays(s)
<1>1. ASSUME NEW d \in Delivery, TaskStep(d), UNCHANGED apiVars
      PROVE  \/ \A s \in Sims : Stays(s)
             \/ \E r \in Sims : Lives(r) /\ \A s \in Sims \ {r} : Stays(s)
  <2>1. Sim(d) \in Sims /\ d \in Tasks(Sim(d))
    BY DeliveryType DEF Tasks
  <2>2. OwnSeries(Sim(d)) /\ OwnSeries(Sim(d))'
    BY <2>1 DEF SeriesOfItsCommit
  <2>3. Stays(Sim(d)) \/ Lives(Sim(d))
    BY <1>1, <2>1, <2>2, TaskLife
  <2> QED BY <1>1, <2>1, <2>3, OthersLife
<1>2. CASE DispatcherNext /\ UNCHANGED apiVars
  BY <1>1, <1>2, WorkersLife DEF DispatcherNext
<1>3. CASE ApiNext
  BY <1>3, RequestLife DEF ApiNext, QueuedLast
<1>4. CASE UNCHANGED vars
  BY <1>4, SameLife DEF vars, brokerVars, storeVars
<1> QED BY <1>2, <1>3, <1>4 DEF Next, Rest

-----------------------------------------------------------------------------
\* A run that moves on alone takes a step of RunLifecycle.
LEMMA LivesIsAStep ==
  ASSUME TypeOK, NEW r \in Sims, Lives(r), \A s \in Sims \ {r} : Stays(s)
  PROVE  Lifecycle!LifecycleNext
<1> DEFINE state == [s \in Sims |-> LifeState(s)]
           input == [s \in Sims |-> LifeInput(s)]
           shown == [s \in Sims |-> LifeShown(s)]
<1>1. /\ state' = [state EXCEPT ![r] = LifeState(r)']
      /\ input' = [input EXCEPT ![r] = LifeInput(r)']
      /\ shown' = [shown EXCEPT ![r] = LifeShown(r)']
  BY DEF Stays
<1>2. state[r] = LifeState(r) /\ input[r] = LifeInput(r) /\ shown[r] = LifeShown(r)
  OBVIOUS
<1>3. /\ LifeState(r)' = LifeState(r) => state' = state
      /\ LifeInput(r)' = LifeInput(r) => input' = input
      /\ LifeShown(r)' = LifeShown(r) => shown' = shown
  BY DEF Stays
<1> HIDE DEF state, input, shown
<1>4. \/ Lifecycle!Accept(r) \/ Lifecycle!Succeed(r) \/ Lifecycle!GiveUp(r)
      \/ Lifecycle!Remove(r) \/ Lifecycle!ChangeInput(r)
  <2> USE <1>1, <1>2, <1>3 DEF Lifecycle!Become, state, input, shown
  <2>1. CASE /\ LifeState(r) = "none" /\ LifeInput(r) /\ LifeState(r)' = "waiting"
             /\ LifeInput(r)' = LifeInput(r) /\ LifeShown(r)' = LifeShown(r)
    BY <2>1 DEF Lifecycle!Accept
  <2>2. CASE /\ LifeState(r) = "waiting" /\ LifeState(r)' = "succeeded" /\ LifeShown(r)' \in 1..MaxDeliver
             /\ LifeInput(r)' = LifeInput(r)
    BY <2>2 DEF Lifecycle!Succeed
  <2>3. CASE /\ LifeState(r) \in {"none", "waiting"} /\ LifeState(r)' = "failed"
             /\ LifeInput(r)' = LifeInput(r) /\ LifeShown(r)' = LifeShown(r)
    BY <2>3 DEF Lifecycle!GiveUp
  <2>4. CASE /\ LifeState(r) # "removed" /\ LifeState(r)' = "removed" /\ LifeShown(r)' = 0
             /\ LifeInput(r)' = LifeInput(r)
    BY <2>4 DEF Lifecycle!Remove
  <2>5. CASE /\ LifeState(r) # "waiting" /\ LifeState(r)' = LifeState(r)
             /\ LifeInput(r)' = ~LifeInput(r) /\ LifeShown(r)' = LifeShown(r)
    BY <2>5 DEF Lifecycle!ChangeInput
  <2> QED BY <2>1, <2>2, <2>3, <2>4, <2>5 DEF Lives
<1> QED BY <1>4 DEF Lifecycle!LifecycleNext

\* Seen through the mapping, a behaviour of the service is the life of its
\* runs: accepted with their input, ended once, shown unchanged until removed;
\* as long as neither the lock of a row nor the answer to a publish is lost.
THEOREM ServiceKeepsPromise ==
  ASSUME "db_drop" \notin FaultKinds, "publish_lost" \notin FaultKinds
  PROVE  Spec => KeepsPromise
<1>1. Init => Lifecycle!LifecycleInit
  <2> SUFFICES ASSUME Init PROVE Lifecycle!LifecycleInit
    OBVIOUS
  <2>1. \A s \in Sims : status[s] = "absent" /\ source[s] = FALSE
    BY DEF Init, StoreInit
  <2>2. \A s \in Sims : LifeState(s) = "none" /\ LifeInput(s) \in BOOLEAN /\ LifeShown(s) = 0
    BY <2>1 DEF LifeState, LifeInput, LifeShown
  <2> QED BY <2>2 DEF Lifecycle!LifecycleInit
<1>2. TypeOK /\ TypeOK' /\ InStep /\ SeriesOfItsCommit /\ SeriesOfItsCommit' /\ QueuedLast /\ [Next]_vars
        => [Lifecycle!LifecycleNext]_(Lifecycle!lifecycleVars)
  <2> SUFFICES ASSUME TypeOK, TypeOK', InStep, SeriesOfItsCommit, SeriesOfItsCommit', QueuedLast, [Next]_vars
               PROVE  [Lifecycle!LifecycleNext]_(Lifecycle!lifecycleVars)
    OBVIOUS
  <2>1. CASE \A s \in Sims : Stays(s)
    BY <2>1 DEF Stays, Lifecycle!lifecycleVars
  <2> QED BY <2>1, StepOfLife, LivesIsAStep
<1>3. Spec => []SeriesOfItsCommit
  BY SeriesOfItsCommitHolds
<1> QED BY <1>1, <1>2, <1>3, UnqueuedHolds, TypeCorrect, InStepHolds, PTL
        DEF Spec, KeepsPromise, Lifecycle!LifecycleSpec

-----------------------------------------------------------------------------
(***************************************************************************)
(* No run is worked on twice at once.                                      *)
(***************************************************************************)

\* What a step may do to the message of s and to the tasks that hold it.
\* Nothing: no task of s begins to work, or to owe an answer.
Leaves(s) ==
  /\ msg'[s] = msg[s] /\ delivered'[s] = delivered[s]
  /\ \A d \in Tasks(s) : /\ phase'[d] \in Working => phase[d] \in Working
                         /\ phase'[d] \in Unanswered => phase[d] \in Unanswered

\* The broker hands it out.
Hands(s) ==
  LET d == <<s, delivered[s] + 1>> IN
  /\ msg[s] = "ready" /\ msg'[s] = "unacked"
  /\ delivered'[s] = delivered[s] + 1
  /\ d \in Tasks(s)
  /\ \A e \in Tasks(s) \ {d} : phase'[e] = phase[e]

\* The answer of task d reaches it.
Answers(s, d) ==
  /\ phase[d] \in {"ack", "ack_release", "nak"} /\ phase'[d] \notin Unanswered
  /\ \A e \in Tasks(s) \ {d} : phase'[e] = phase[e]
  /\ delivered'[s] = delivered[s]
  /\ \/ msg'[s] = "acked"
     \/ phase[d] = "nak" /\ msg'[s] = IF msg[s] = "unacked" THEN "ready" ELSE msg[s]

\* ack_wait runs out: no task keeps it away, and none but a hung one may owe
\* an answer.
Lapses(s) ==
  /\ phase' = phase /\ delivered'[s] = delivered[s]
  /\ msg[s] = "unacked" /\ msg'[s] = "ready"
  /\ \A d \in Tasks(s) : /\ phase[d] \notin Working
                         /\ phase[d] \in Unanswered => "stall" \in FaultKinds

\* It is published.
Publishes(s) ==
  /\ phase' = phase /\ delivered'[s] = delivered[s]
  /\ msg[s] = "none" /\ msg'[s] = "ready"

LEMMA WorkingPhases ==
  /\ \A p \in Working : p \in Unanswered /\ p \notin Ended
  /\ \A p \in Unanswered : p \in Working \union {"unhandled", "report_unhandled", "ack", "ack_release"}
  /\ \A p \in Ended \union {"release"} : p \notin Unanswered /\ p \notin Working
  /\ \A p \in {"unhandled", "report_unhandled", "ack", "ack_release"} : p \in Unanswered /\ p \notin Working
BY DEF Working, Unanswered, InProgress, Ended

\* A task begins to work only when its message is delivered.
LEMMA TaskNeverRestarts ==
  ASSUME TypeOK, NEW d \in Delivery, TaskStep(d)
  PROVE  /\ phase'[d] \in Working => phase[d] \in Working
         /\ phase'[d] \in Unanswered => phase[d] \in Unanswered
<1>1. CASE phase[d] \in InProgress
  BY <1>1 DEF Working, Unanswered
<1>2. CASE Ack(d) \/ Release(d) \/ Nak(d)
  BY <1>2 DEF Ack, Release, Nak, Go, TypeOK, DispatcherTypeOK, Working, Unanswered, InProgress
<1>3. CASE Unhandled(d)
  <2>1. phase[d] \in Unanswered
    BY <1>3 DEF Unhandled, Unanswered
  <2>2. phase'[d] \notin Working
    BY <1>3 DEF Unhandled, SaveFailure, ReportFailure, Go, TypeOK, DispatcherTypeOK, Working, InProgress
  <2> QED BY <2>1, <2>2
<1>4. phase[d] \in InProgress \/ Ack(d) \/ Release(d) \/ Nak(d) \/ Unhandled(d)
  BY DEF TaskStep, ReadRow, ReadKey, LoadFile, LoadCrm, StartSolve, Solve,
         Claim, Upload, StaleUpload, Commit, ReportSuccess, Fail, InProgress
<1> QED BY <1>1, <1>2, <1>3, <1>4

LEMMA TaskOfQueue ==
  ASSUME TypeOK, NEW d \in Delivery, TaskStep(d), NEW s \in Sims
  PROVE  Leaves(s) \/ \E e \in Tasks(s) : Answers(s, e)
<1>1. \A e \in Delivery \ {d} : phase'[e] = phase[e]
  BY TaskMoves
<1>2. ASSUME msg'[s] = msg[s], delivered'[s] = delivered[s]
      PROVE  Leaves(s)
  BY <1>1, <1>2, TaskNeverRestarts DEF Leaves, Tasks
<1>3. CASE Ack(d) \/ Nak(d)
  <2>1. UNCHANGED brokerVars \/ (phase[d] = "nak" /\ Return(Sim(d))) \/ Settle(Sim(d))
    BY <1>3 DEF Ack, Nak
  <2>2. CASE UNCHANGED brokerVars \/ s # Sim(d)
    BY <1>2, <2>1, <2>2 DEF brokerVars, Settle, Return, TypeOK, BrokerTypeOK
  <2>3. CASE s = Sim(d) /\ ~UNCHANGED brokerVars
    <3>1. phase'[d] \in {"done", "release"}
      BY <1>3 DEF Ack, Nak, Go, TypeOK, DispatcherTypeOK
    <3>2. Answers(s, d)
      BY <1>1, <1>3, <2>1, <2>3, <3>1, WorkingPhases
         DEF Answers, Ack, Nak, Settle, Return, Tasks, Ended, TypeOK, BrokerTypeOK
    <3> QED BY <2>3, <3>2 DEF Tasks
  <2> QED BY <2>2, <2>3
<1>4. CASE ~Ack(d) /\ ~Nak(d)
  <2>1. UNCHANGED brokerVars
    BY <1>4 DEF TaskStep, ReadRow, ReadKey, LoadFile, LoadCrm, StartSolve, Solve,
                Claim, Upload, StaleUpload, Commit, ReportSuccess, Fail, Unhandled,
                SaveFailure, ReportFailure, Release
  <2> QED BY <1>2, <2>1 DEF brokerVars
<1> QED BY <1>3, <1>4

LEMMA WorkersOfQueue ==
  ASSUME TypeOK, LinksUp, NEW s \in Sims,
         \/ \E r \in Sims, w \in Workers : Deliver(r, w)
         \/ \E r \in Sims : Lapse(r)
         \/ \E w \in Workers : WorkerStep(w)
  PROVE  Leaves(s) \/ Hands(s) \/ Lapses(s)
<1>1. ASSUME NEW r \in Sims, NEW w \in Workers, Deliver(r, w)
      PROVE  Leaves(s) \/ Hands(s)
  <2> DEFINE d == <<r, delivered[r] + 1>>
  <2>1. delivered[r] + 1 \in 1..MaxDeliver
    BY <1>1, BrokerAssumption DEF TypeOK, BrokerTypeOK, Deliver, HandOut, Deliverable
  <2>2. d \in Delivery /\ Sim(d) = r
    BY <2>1 DEF Delivery, Sim
  <2>3. /\ msg' = [msg EXCEPT ![r] = "unacked"] /\ msg[r] = "ready"
        /\ delivered' = [delivered EXCEPT ![r] = @ + 1]
        /\ phase' = [phase EXCEPT ![d] = "read_row"]
    BY <1>1 DEF Deliver, HandOut, Deliverable
  <2>4. \A e \in Delivery \ {d} : phase'[e] = phase[e]
    BY <2>3 DEF TypeOK, DispatcherTypeOK
  <2>5. CASE s = r
    BY <2>2, <2>3, <2>4, <2>5 DEF Hands, Tasks, TypeOK, BrokerTypeOK
  <2>6. CASE s # r
    <3>1. msg'[s] = msg[s] /\ delivered'[s] = delivered[s]
      BY <2>3, <2>6 DEF TypeOK, BrokerTypeOK
    <3> HIDE DEF d
    <3> QED BY <2>2, <2>4, <2>6, <3>1 DEF Leaves, Tasks
  <2> QED BY <2>5, <2>6
<1>2. ASSUME NEW r \in Sims, Lapse(r)
      PROVE  Leaves(s) \/ Lapses(s)
  <2>1. /\ phase' = phase /\ delivered' = delivered
        /\ msg[r] = "unacked" /\ msg' = [msg EXCEPT ![r] = "ready"]
    BY <1>2 DEF Lapse, Return, taskVars, TypeOK, BrokerTypeOK
  <2>2. CASE s # r
    BY <2>1, <2>2 DEF Leaves, TypeOK, BrokerTypeOK
  <2>3. CASE s = r
    <3>1. \A d \in Tasks(s) : link[home[d]] = "up" /\ d \in Delivery /\ Sim(d) = r
      BY <2>3, TasksType DEF LinksUp, TypeOK, DispatcherTypeOK
    <3>2. \A d \in Tasks(s) : phase[d] \notin InProgress \union {"ack", "ack_release", "nak"}
      BY <1>2, <3>1 DEF Lapse, KeepsAlive
    <3>3. \A d \in Tasks(s) : phase[d] \in {"unhandled", "report_unhandled"} => "stall" \in FaultKinds
      BY <1>2, <3>1 DEF Lapse, MayStall, Fails
    <3> QED BY <2>1, <2>3, <3>2, <3>3 DEF Lapses, Working, Unanswered, TypeOK, BrokerTypeOK
  <2> QED BY <2>2, <2>3
<1>3. ASSUME UNCHANGED brokerVars, \A d \in Delivery : phase'[d] = phase[d] \/ phase'[d] = "dead"
      PROVE  Leaves(s)
  BY <1>3, WorkingPhases DEF Leaves, Tasks, brokerVars, Ended
<1>4. ASSUME NEW D, Kill(D)
      PROVE  Leaves(s)
  BY <1>3, <1>4 DEF Kill
<1>5. ASSUME NEW w \in Workers, PoolBreaks(w)
      PROVE  Leaves(s)
  <2>1. \A d \in Delivery : phase'[d] = phase[d] \/ phase[d] = "solve"
    BY <1>5 DEF PoolBreaks, Solving
  <2>2. "solve" \in Working /\ "solve" \in Unanswered
    BY DEF Working, Unanswered, InProgress
  <2> QED BY <1>5, <2>1, <2>2 DEF Leaves, PoolBreaks, brokerVars, Tasks
<1>6. ASSUME NEW w \in Workers, Restart(w) \/ LoseLink(w) \/ RegainLink(w) \/ Shutdown(w)
      PROVE  Leaves(s)
  BY <1>3, <1>6 DEF Restart, LoseLink, RegainLink, Shutdown, taskVars
<1> QED BY <1>1, <1>2, <1>4, <1>5, <1>6 DEF WorkerStep, Crash, Close, Exit

LEMMA RequestsOfQueue ==
  ASSUME TypeOK, InStep, UNCHANGED taskVars, NEW r \in Sims,
         StartStep(r) \/ CrashStart(r) \/ ReadForDelete(r) \/ DeleteStep(r) \/ CrashDelete(r),
         NEW s \in Sims
  PROVE  Leaves(s) \/ Publishes(s)
<1>1. phase' = phase
  BY DEF taskVars
<1>2. CASE PublishRun(r)
  <2>1. msg[r] = "none" /\ (UNCHANGED brokerVars \/ Enqueue(r))
    BY <1>2 DEF PublishRun, InStep, RowBeforeMessage, RowFirst
  <2> QED BY <1>1, <2>1 DEF Leaves, Publishes, Enqueue, brokerVars, TypeOK, BrokerTypeOK
<1>3. CASE ~PublishRun(r)
  <2>1. UNCHANGED brokerVars
    BY <1>3 DEF StartStep, DeleteStep, Submit, UploadSource, InsertRow, UndoUpload, DropSource, LogCreated,
                MarkFailedToQueue, ReportMark, Unstore, CrashStart, ReadForDelete,
                DeleteRow, DeleteFile, DeleteResult, CrashDelete
  <2> QED BY <1>1, <2>1 DEF Leaves, brokerVars
<1> QED BY <1>2, <1>3

\* Every step, seen from the message of one run.
LEMMA StepOfQueue ==
  ASSUME TypeOK, InStep, LinksUp, [Next]_vars, NEW s \in Sims
  PROVE  \/ Leaves(s) \/ Hands(s) \/ Lapses(s) \/ Publishes(s)
         \/ \E d \in Tasks(s) : Answers(s, d)
<1>1. CASE DispatcherNext
  BY <1>1, TaskOfQueue, WorkersOfQueue DEF DispatcherNext
<1>2. CASE ApiNext /\ UNCHANGED <<taskVars, workerVars>>
  BY <1>2, RequestsOfQueue DEF ApiNext
<1>3. CASE UNCHANGED vars
  BY <1>3 DEF vars, brokerVars, taskVars, Leaves
<1> QED BY <1>1, <1>2, <1>3 DEF Next, Rest

\* A link is lost only as a fault.
LEMMA LinksStayUp ==
  ASSUME "link" \notin FaultKinds
  PROVE  Spec => []LinksUp
<1>1. Init => LinksUp
  BY DEF Init, DispatcherInit, LinksUp
<1>2. TypeOK /\ LinksUp /\ [Next]_vars => LinksUp'
  <2> SUFFICES ASSUME TypeOK, LinksUp, [Next]_vars PROVE LinksUp'
    OBVIOUS
  <2>1. ASSUME NEW w \in Workers, WorkerStep(w)
        PROVE  LinksUp'
    BY <2>1 DEF WorkerStep, PoolBreaks, Crash, Restart, LoseLink, RegainLink, Shutdown, Close, Exit,
                Fails, workerVars, LinksUp, TypeOK, DispatcherTypeOK
  <2>2. ASSUME NEW d \in Delivery, TaskStep(d)
        PROVE  link' = link
    <3>1. \/ \E p : Go(d, p)
          \/ \E r : GoFail(d, r)
      BY <2>2, TaskGoes
    <3> QED BY <3>1 DEF Go, GoFail, workerVars
  <2>3. CASE DispatcherNext
    BY <2>1, <2>2, <2>3 DEF DispatcherNext, Deliver, Lapse, workerVars, LinksUp
  <2>4. CASE ApiNext /\ UNCHANGED <<taskVars, workerVars>>
    BY <2>4 DEF workerVars, LinksUp
  <2>5. CASE UNCHANGED vars
    BY <2>5 DEF vars, workerVars, LinksUp
  <2> QED BY <2>3, <2>4, <2>5 DEF Next, Rest
<1> QED BY <1>1, <1>2, TypeCorrect, PTL DEF Spec

-----------------------------------------------------------------------------
LEMMA InitQueue == Init => WorkingIsNewest /\ UnansweredIsPending
BY WorkingPhases DEF Init, DispatcherInit, WorkingIsNewest, UnansweredIsPending, Ended

\* The latest delivery of a run is one.
LEMMA NewestIsOne ==
  ASSUME NEW s \in Sims, NEW d \in Tasks(s), NEW e \in Tasks(s),
         Count(d) = delivered[s], Count(e) = delivered[s]
  PROVE  d = e
BY TasksType, DeliveryDistinct

\* The next delivery is made when no task works on the run any more.
LEMMA StepWorkingIsNewest ==
  ASSUME TypeOK, InStep, LinksUp, WorkingIsNewest, [Next]_vars
  PROVE  WorkingIsNewest'
<1> SUFFICES ASSUME NEW s \in Sims, NEW d \in Tasks(s), phase'[d] \in Working
             PROVE  Count(d) = delivered'[s] /\ msg'[s] \in {"unacked", "acked"}
  BY DeliveryType DEF WorkingIsNewest, Tasks
<1>1. \A e \in Tasks(s) : phase[e] \in Working =>
        Count(e) = delivered[s] /\ msg[s] \in {"unacked", "acked"}
  BY TasksType DEF WorkingIsNewest
<1>2. CASE Leaves(s)
  BY <1>1, <1>2 DEF Leaves
<1>3. CASE Hands(s)
  BY <1>1, <1>3 DEF Hands, Count
<1>4. CASE Lapses(s)
  BY <1>4 DEF Lapses
<1>5. CASE Publishes(s)
  BY <1>1, <1>5 DEF Publishes
<1>6. ASSUME NEW e \in Tasks(s), Answers(s, e)
      PROVE  Count(d) = delivered'[s] /\ msg'[s] \in {"unacked", "acked"}
  <2>1. d # e /\ phase[d] \in Working
    BY <1>6, WorkingPhases DEF Answers
  <2>2. phase[e] # "nak"
    BY <2>1, <1>1, NewestIsOne DEF Working
  <2> QED BY <1>1, <1>6, <2>1, <2>2 DEF Answers
<1> QED BY <1>2, <1>3, <1>4, <1>5, <1>6, StepOfQueue

\* While workers reach NATS, no simulation is run by two tasks at once, however
\* many workers, deliveries and crashes there are.
THEOREM RunsAreAlone ==
  ASSUME "link" \notin FaultKinds
  PROVE  Spec => []OneRunAtATime
<1>1. TypeOK /\ InStep /\ LinksUp /\ WorkingIsNewest /\ [Next]_vars => WorkingIsNewest'
  BY StepWorkingIsNewest
<1>2. WorkingIsNewest => OneRunAtATime
  BY DeliveryDistinct DEF WorkingIsNewest, OneRunAtATime, Working
<1> QED BY <1>1, <1>2, InitQueue, LinksStayUp, TypeCorrect, InStepHolds, PTL DEF Spec

-----------------------------------------------------------------------------
\* Without a database that hangs, the broker waits for every task.
LEMMA StepUnansweredIsPending ==
  ASSUME "stall" \notin FaultKinds,
         TypeOK, InStep, LinksUp, UnansweredIsPending, [Next]_vars
  PROVE  UnansweredIsPending'
<1> SUFFICES ASSUME NEW s \in Sims, NEW d \in Tasks(s), phase'[d] \in Unanswered
             PROVE  Count(d) = delivered'[s] /\ msg'[s] = "unacked"
  BY DeliveryType DEF UnansweredIsPending, Tasks
<1>1. \A e \in Tasks(s) : phase[e] \in Unanswered => Count(e) = delivered[s] /\ msg[s] = "unacked"
  BY TasksType DEF UnansweredIsPending
<1>2. CASE Leaves(s)
  BY <1>1, <1>2 DEF Leaves
<1>3. CASE Hands(s)
  BY <1>1, <1>3 DEF Hands, Count
<1>4. CASE Lapses(s)
  BY <1>4 DEF Lapses
<1>5. CASE Publishes(s)
  BY <1>1, <1>5 DEF Publishes
<1>6. ASSUME NEW e \in Tasks(s), Answers(s, e)
      PROVE  FALSE
  <2>1. d # e /\ phase[d] \in Unanswered
    BY <1>6 DEF Answers
  <2>2. phase[e] \in Unanswered
    BY <1>6 DEF Answers, Unanswered, Working
  <2> QED BY <2>1, <2>2, <1>1, NewestIsOne
<1> QED BY <1>2, <1>3, <1>4, <1>5, <1>6, StepOfQueue

\* A set that gains at most one element, while it has less than its bound,
\* keeps the bound.
LEMMA BoundKept ==
  ASSUME NEW S, IsFiniteSet(S), NEW n \in Nat, Cardinality(S) <= n,
         NEW T, NEW x,
         T \subseteq S \/ (T \subseteq S \union {x} /\ Cardinality(S) < n)
  PROVE  IsFiniteSet(T) /\ Cardinality(T) <= n
<1>1. Cardinality(S) \in Nat
  BY FS_CardinalityType
<1>2. CASE T \subseteq S
  <2>1. IsFiniteSet(T) /\ Cardinality(T) <= Cardinality(S) /\ Cardinality(T) \in Nat
    BY <1>2, FS_Subset, FS_CardinalityType
  <2> QED BY <1>1, <2>1
<1>3. CASE T \subseteq S \union {x} /\ Cardinality(S) < n
  <2>1. /\ IsFiniteSet(S \union {x})
        /\ Cardinality(S \union {x}) = Cardinality(S) \/ Cardinality(S \union {x}) = Cardinality(S) + 1
    BY FS_AddElement
  <2>2. IsFiniteSet(T) /\ Cardinality(T) <= Cardinality(S \union {x}) /\ Cardinality(T) \in Nat
    BY <1>3, <2>1, FS_Subset, FS_CardinalityType
  <2> QED BY <1>1, <1>3, <2>1, <2>2
<1> QED BY <1>2, <1>3

\* Only the broker counts a delivery.
LEMMA OnlyDeliverHands ==
  ASSUME TypeOK, InStep, LinksUp, [Next]_vars, NEW s \in Sims, Hands(s)
  PROVE  \E r \in Sims, w \in Workers : Deliver(r, w)
<1>1. delivered[s] \in Nat /\ delivered'[s] = delivered[s] + 1
  BY BrokerAssumption DEF TypeOK, BrokerTypeOK, Hands
<1>2. ASSUME NEW d \in Delivery, TaskStep(d)
      PROVE  FALSE
  <2>1. delivered'[s] = delivered[s]
    BY <1>2, TaskOfQueue DEF Leaves, Answers
  <2> QED BY <1>1, <2>1
<1>3. ASSUME delivered' = delivered
      PROVE  FALSE
  BY <1>1, <1>3
<1>4. ASSUME NEW r \in Sims, Lapse(r)
      PROVE  FALSE
  BY <1>3, <1>4 DEF Lapse, Return
<1>5. ASSUME NEW w \in Workers, WorkerStep(w)
      PROVE  FALSE
  BY <1>3, <1>5 DEF WorkerStep, PoolBreaks, Crash, Kill, Restart, LoseLink, RegainLink,
                    Shutdown, Close, Exit, brokerVars
<1>6. ASSUME ApiNext, UNCHANGED <<taskVars, workerVars>>
      PROVE  FALSE
  <2>1. delivered'[s] = delivered[s]
    BY <1>6, RequestsOfQueue DEF ApiNext, Leaves, Publishes
  <2> QED BY <1>1, <2>1
<1>7. ~UNCHANGED vars
  BY <1>3 DEF vars, brokerVars
<1> QED BY <1>2, <1>4, <1>5, <1>6, <1>7 DEF Next, Rest, DispatcherNext

\* max_ack_pending holds: a message is handed out for the first time only
\* while the broker waits for fewer than that.
LEMMA StepPendingIsBounded ==
  ASSUME TypeOK, InStep, LinksUp, UnansweredIsPending, PendingIsBounded, [Next]_vars
  PROVE  PendingIsBounded'
<1>1. ASSUME NEW s \in Sims
      PROVE  /\ msg'[s] = "none" => delivered'[s] = 0
             /\ s \in AckPending' => s \in AckPending \/ (Hands(s) /\ delivered[s] = 0)
  <2>1. delivered[s] \in Nat /\ delivered[s] <= MaxDeliver /\ MaxDeliver \in Nat
        /\ (msg[s] = "none" => delivered[s] = 0)
    BY BrokerAssumption DEF TypeOK, BrokerTypeOK, PendingIsBounded
  <2>2. CASE Leaves(s)
    BY <2>1, <2>2 DEF Leaves, AckPending
  <2>3. CASE Hands(s)
    <3>1. delivered[s] + 1 <= MaxDeliver
      BY <2>3, TasksType DEF Hands, Count
    <3> QED BY <2>1, <2>3, <3>1 DEF Hands, AckPending
  <2>4. CASE Lapses(s) \/ Publishes(s)
    BY <2>1, <2>4 DEF Lapses, Publishes, AckPending
  <2>5. ASSUME NEW d \in Tasks(s), Answers(s, d)
        PROVE  /\ msg'[s] = "none" => delivered'[s] = 0
               /\ s \in AckPending' => s \in AckPending
    BY <2>1, <2>5 DEF Answers, AckPending
  <2> QED BY <2>2, <2>3, <2>4, <2>5, StepOfQueue
<1>2. CASE \A s \in Sims : ~(Hands(s) /\ delivered[s] = 0)
  <2>1. AckPending' \subseteq AckPending
    BY <1>1, <1>2 DEF AckPending
  <2>2. IsFiniteSet(AckPending') /\ Cardinality(AckPending') <= MaxAckPending
    BY <2>1, BoundKept, BrokerAssumption DEF PendingIsBounded
  <2> QED BY <1>1, <2>2 DEF PendingIsBounded
<1>3. ASSUME NEW r \in Sims, Hands(r), delivered[r] = 0
      PROVE  PendingIsBounded'
  <2>1. PICK q \in Sims, w \in Workers : Deliver(q, w)
    BY <1>3, OnlyDeliverHands
  <2>2. q = r
    BY <1>3, <2>1 DEF Hands, Deliver, HandOut, TypeOK, BrokerTypeOK
  <2>3. Cardinality(AckPending) < MaxAckPending
    BY <1>3, <2>1, <2>2 DEF Deliver, HandOut, Deliverable
  <2>4. \A s \in Sims \ {r} : ~Hands(s)
    BY <2>1, <2>2 DEF Hands, Deliver, HandOut, TypeOK, BrokerTypeOK
  <2>5. AckPending' \subseteq AckPending \union {r}
    BY <1>1, <2>4 DEF AckPending
  <2>6. IsFiniteSet(AckPending') /\ Cardinality(AckPending') <= MaxAckPending
    BY <2>3, <2>5, BoundKept, BrokerAssumption DEF PendingIsBounded
  <2> QED BY <1>1, <2>6 DEF PendingIsBounded
<1> QED BY <1>2, <1>3

LEMMA InitPendingIsBounded == Init => PendingIsBounded
<1> SUFFICES ASSUME Init PROVE PendingIsBounded
  OBVIOUS
<1>1. AckPending = {}
  BY DEF Init, BrokerInit, AckPending
<1> QED BY <1>1, FS_EmptySet, BrokerAssumption DEF Init, BrokerInit, PendingIsBounded

\* The tasks of a worker that work are tasks of different messages, and the
\* broker waits for each of them.
LEMMA WorkersHoldPendingRuns ==
  ASSUME TypeOK, UnansweredIsPending, PendingIsBounded, NEW w \in Workers
  PROVE  LET D == {d \in Live(w) : phase[d] \in InProgress} IN
           IsFiniteSet(D) /\ Cardinality(D) <= Cardinality(AckPending)
<1> DEFINE D == {d \in Live(w) : phase[d] \in InProgress}
           f == [d \in D |-> Sim(d)]
<1>1. \A d \in D : d \in Delivery /\ phase[d] \in Unanswered
  BY DEF Live, Unanswered, Working
<1>2. \A d \in D : Sim(d) \in AckPending /\ Count(d) = delivered[Sim(d)]
  BY <1>1, DeliveryType DEF UnansweredIsPending, AckPending
<1>3. \A d, e \in D : Sim(d) = Sim(e) => d = e
  BY <1>1, <1>2, DeliveryDistinct
<1> HIDE DEF D
<1>4. f \in Injection(D, AckPending)
  BY <1>2, <1>3 DEF Injection, IsInjective
<1>5. IsFiniteSet(D) /\ Cardinality(D) <= Cardinality(AckPending)
  BY <1>4, FS_Injection DEF PendingIsBounded
<1> QED BY <1>5 DEF D

\* A worker is never handed more runs than it has solver processes, whatever
\* redeliveries, crashes and restarts happen: max_ack_pending is the pool's
\* size (worker/main.py:286).
THEOREM NoWorkerQueues ==
  ASSUME "link" \notin FaultKinds, "stall" \notin FaultKinds, MaxAckPending <= PoolSize
  PROVE  Spec => []NoBacklog
<1>1. TypeOK /\ InStep /\ LinksUp /\ UnansweredIsPending /\ [Next]_vars => UnansweredIsPending'
  BY StepUnansweredIsPending
<1>2. TypeOK /\ InStep /\ LinksUp /\ UnansweredIsPending /\ PendingIsBounded /\ [Next]_vars
        => PendingIsBounded'
  BY StepPendingIsBounded
<1>3. TypeOK /\ UnansweredIsPending /\ PendingIsBounded => NoBacklog
  <2> SUFFICES ASSUME TypeOK, UnansweredIsPending, PendingIsBounded, NEW w \in Workers
               PROVE  Cardinality({d \in Live(w) : phase[d] \in InProgress}) <= PoolSize
    BY DEF NoBacklog
  <2>1. Cardinality(AckPending) \in Nat /\ Cardinality(AckPending) <= MaxAckPending
    BY FS_CardinalityType DEF PendingIsBounded
  <2>2. Cardinality({d \in Live(w) : phase[d] \in InProgress}) \in Nat
    BY WorkersHoldPendingRuns, FS_CardinalityType
  <2> QED BY <2>1, <2>2, WorkersHoldPendingRuns, BrokerAssumption, DispatcherAssumption
<1> QED
  BY <1>1, <1>2, <1>3, InitQueue, InitPendingIsBounded, LinksStayUp, TypeCorrect, InStepHolds, PTL DEF Spec
=============================================================================
