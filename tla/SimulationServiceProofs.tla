----------------------- MODULE SimulationServiceProofs -----------------------
(***************************************************************************)
(* What SimulationService guarantees for any number of simulations and     *)
(* workers, any limits, and any number of faults of any kind its theorems  *)
(* allow: its types; and InStep, and with it what a user and the queue     *)
(* rely on: no run that is still PENDING is acked, and none loses its      *)
(* input.                                                                  *)
(***************************************************************************)
EXTENDS SimulationService, TLAPS

\* A delivery is one of a simulation.
LEMMA DeliveryType ==
  ASSUME NEW d \in Delivery
  PROVE  Sim(d) \in Sims /\ Count(d) \in 1..MaxDeliver /\ Count(d) \in 0..MaxDeliver
BY BrokerAssumption DEF Delivery, Sim, Count

LEMMA FailsType ==
  ASSUME faults \in Nat, NEW k, Fails(k) \/ NoFault
  PROVE  faults' \in Nat
BY DEF Fails, NoFault

LEMMA GoType ==
  ASSUME DispatcherTypeOK, NEW d \in Delivery, NEW p \in Phases, Go(d, p)
  PROVE  DispatcherTypeOK'
BY DEF DispatcherTypeOK, Go, workerVars

LEMMA GoFailType ==
  ASSUME DispatcherTypeOK, NEW d \in Delivery, NEW r \in Errors, GoFail(d, r)
  PROVE  DispatcherTypeOK'
BY DEF DispatcherTypeOK, GoFail, workerVars, Phases, InProgress

LEMMA TerminalType ==
  ASSUME NEW s
  PROVE  Terminal(s) \in {"ack", "ack_release"}
BY DEF Terminal

LEMMA AfterFailureType ==
  ASSUME NEW d
  PROVE  AfterFailure(d) \in {"ack", "ack_release"}
BY TerminalType DEF AfterFailure

\* The parts of the state a step leaves alone keep their type.
LEMMA UnchangedType ==
  ASSUME TypeOK
  PROVE  /\ UNCHANGED brokerVars => BrokerTypeOK'
         /\ UNCHANGED storeVars => StoreTypeOK'
         /\ UNCHANGED <<taskVars, workerVars>> => DispatcherTypeOK'
         /\ UNCHANGED apiVars => ApiTypeOK'
BY DEF TypeOK, BrokerTypeOK, StoreTypeOK, DispatcherTypeOK, ApiTypeOK,
       brokerVars, storeVars, taskVars, workerVars, apiVars

-----------------------------------------------------------------------------
(* The initial states are well typed. *)
LEMMA InitType == Init => TypeOK
<1> SUFFICES ASSUME Init PROVE TypeOK
  OBVIOUS
<1>1. BrokerTypeOK
  BY BrokerAssumption DEF Init, BrokerInit, BrokerTypeOK
<1>2. StoreTypeOK
  BY BrokerAssumption DEF Init, StoreInit, StoreTypeOK, Statuses, Errors
<1>3. faults \in Nat
  BY DEF Init, FaultsInit
<1>4. DispatcherTypeOK
  BY DEF Init, DispatcherInit, DispatcherTypeOK, Phases, Ended, Errors
<1>5. ApiTypeOK
  BY BrokerAssumption DEF Init, ApiInit, ApiTypeOK, StartPhases, DeletePhases
<1> QED BY <1>1, <1>2, <1>3, <1>4, <1>5 DEF TypeOK

\* The steps of a task before it reaches save_success or an answer.
LEMMA ReadType ==
  ASSUME TypeOK, NEW d \in Delivery, UNCHANGED apiVars,
         ReadRow(d) \/ ReadKey(d) \/ LoadFile(d) \/ LoadCrm(d) \/ StartSolve(d) \/ Solve(d)
  PROVE  TypeOK'
<1>1. UNCHANGED <<brokerVars, storeVars>>
  BY DEF ReadRow, ReadKey, LoadFile, LoadCrm, StartSolve, Solve
<1>2. faults' \in Nat
  BY FailsType DEF TypeOK, ReadRow, ReadKey, LoadFile, LoadCrm, StartSolve, Solve
<1>3. \/ \E p \in Phases : Go(d, p)
      \/ \E r \in Errors : GoFail(d, r)
  BY TerminalType DEF ReadRow, ReadKey, LoadFile, LoadCrm, StartSolve, Solve, Phases, InProgress, Answering, Errors
<1>4. DispatcherTypeOK'
  BY <1>3, GoType, GoFailType DEF TypeOK
<1> QED BY <1>1, <1>2, <1>4, UnchangedType DEF TypeOK

\* An audit entry extends the simulation's log.
LEMMA RecordType ==
  ASSUME StoreTypeOK, NEW s \in Sims, NEW a \in AuditActions, Record(s, a),
         UNCHANGED <<rowVars, objectVars>>
  PROVE  StoreTypeOK'
<1>1. Append(audit[s], a) \in Seq(AuditActions)
  BY DEF StoreTypeOK
<1> QED BY <1>1 DEF StoreTypeOK, Record, rowVars, objectVars

\* The steps of save_success.
LEMMA SaveSuccessType ==
  ASSUME TypeOK, NEW d \in Delivery, UNCHANGED apiVars,
         Claim(d) \/ Upload(d) \/ StaleUpload(d) \/ Commit(d) \/ ReportSuccess(d)
  PROVE  TypeOK'
<1>1. Sim(d) \in Sims /\ Count(d) \in 0..MaxDeliver /\ 0 \in 0..MaxDeliver
  BY DeliveryType, BrokerAssumption
<1>2. BrokerTypeOK' /\ ApiTypeOK'
  BY UnchangedType DEF Claim, Upload, StaleUpload, Commit, ReportSuccess
<1>3. faults' \in Nat
  BY FailsType DEF TypeOK, Claim, Upload, StaleUpload, Commit, ReportSuccess
<1>4. \E p \in Phases : Go(d, p)
  BY TerminalType DEF Claim, Upload, StaleUpload, Commit, ReportSuccess, Phases, InProgress, Answering
<1>5. DispatcherTypeOK'
  BY <1>4, GoType DEF TypeOK
<1>6. StoreTypeOK'
  <2>1. CASE Claim(d)
    BY <2>1, <1>1 DEF Claim, TypeOK, StoreTypeOK, rowVars, objectVars
  <2>2. CASE Upload(d)
    <3>1. result' \in [Sims -> 0..MaxDeliver]
      BY <2>2, <1>1 DEF Upload, TypeOK, StoreTypeOK
    <3>2. /\ status' = status /\ error' = error /\ totals' = totals
          /\ source' = source /\ audit' = audit
          /\ lock' \in [Sims -> 0..MaxDeliver]
      BY <2>2, <1>1 DEF Upload, TypeOK, StoreTypeOK, rowVars, UnlockRow
    <3> QED BY <3>1, <3>2 DEF TypeOK, StoreTypeOK
  <2>3. CASE StaleUpload(d)
    BY <2>3, <1>1 DEF StaleUpload, TypeOK, StoreTypeOK, rowVars
  <2>4. CASE Commit(d)
    <3>1. SucceedRow(Sim(d), Count(d)) \/ UnlockRow(Sim(d))
      BY <2>4 DEF Commit
    <3>2. UNCHANGED <<objectVars, audit>>
      BY <2>4 DEF Commit
    <3>3. status' \in [Sims -> Statuses] /\ error' \in [Sims -> Errors]
      BY <3>1 DEF TypeOK, StoreTypeOK, SucceedRow, UnlockRow, Statuses, Errors
    <3>4. totals' \in [Sims -> 0..MaxDeliver]
      BY <3>1, <1>1 DEF TypeOK, StoreTypeOK, SucceedRow, UnlockRow
    <3>5. lock' \in [Sims -> 0..MaxDeliver]
      BY <3>1, <1>1 DEF TypeOK, StoreTypeOK, SucceedRow, UnlockRow
    <3> QED BY <3>2, <3>3, <3>4, <3>5 DEF TypeOK, StoreTypeOK, objectVars
  <2>5. CASE ReportSuccess(d)
    <3>1. CASE UNCHANGED audit
      BY <2>5, <3>1 DEF ReportSuccess, TypeOK, StoreTypeOK, rowVars, objectVars
    <3>2. CASE Record(Sim(d), "SUCCEEDED")
      <4>1. UNCHANGED <<rowVars, objectVars>>
        BY <2>5 DEF ReportSuccess
      <4> QED BY <3>2, <4>1, <1>1, RecordType DEF TypeOK, AuditActions
    <3> QED BY <2>5, <3>1, <3>2 DEF ReportSuccess
  <2> QED BY <2>1, <2>2, <2>3, <2>4, <2>5
<1> QED BY <1>2, <1>3, <1>5, <1>6 DEF TypeOK

\* save_failure leaves the row as it is, or makes it FAILED.
LEMMA SaveFailureType ==
  ASSUME TypeOK, NEW d \in Delivery, UNCHANGED apiVars,
         NEW r \in Errors, NEW p \in Phases, NEW q \in Phases, NEW x \in Phases,
         SaveFailure(d, r, p, q, x)
  PROVE  TypeOK'
<1>1. BrokerTypeOK' /\ ApiTypeOK'
  BY UnchangedType DEF SaveFailure
<1>2. faults' \in Nat
  BY FailsType DEF TypeOK, SaveFailure
<1>3. Go(d, p) \/ Go(d, q) \/ Go(d, x)
  BY DEF SaveFailure
<1>4. DispatcherTypeOK'
  BY <1>3, GoType DEF TypeOK
<1>5. FailRow(Sim(d), r) \/ UNCHANGED rowVars
  BY DEF SaveFailure
<1>6. UNCHANGED <<objectVars, audit>>
  BY DEF SaveFailure
<1>7. StoreTypeOK'
  BY <1>5, <1>6, DeliveryType DEF TypeOK, StoreTypeOK, FailRow, rowVars, objectVars, Statuses
<1> QED BY <1>1, <1>2, <1>4, <1>7 DEF TypeOK

LEMMA ReportFailureType ==
  ASSUME TypeOK, NEW d \in Delivery, UNCHANGED apiVars,
         NEW p \in Phases, NEW q \in Phases, ReportFailure(d, p, q)
  PROVE  TypeOK'
<1>1. BrokerTypeOK' /\ ApiTypeOK'
  BY UnchangedType DEF ReportFailure
<1>2. faults' \in Nat
  BY FailsType DEF TypeOK, ReportFailure
<1>3. Go(d, p) \/ Go(d, q)
  BY DEF ReportFailure
<1>4. DispatcherTypeOK'
  BY <1>3, GoType DEF TypeOK
<1>5. UNCHANGED <<rowVars, objectVars>>
  BY DEF ReportFailure
<1>6. UNCHANGED audit \/ Record(Sim(d), "FAILED")
  BY DEF ReportFailure
<1>7. StoreTypeOK'
  BY <1>5, <1>6, DeliveryType, RecordType DEF TypeOK, StoreTypeOK, rowVars, objectVars, AuditActions
<1> QED BY <1>1, <1>2, <1>4, <1>7 DEF TypeOK

\* The failure paths and the answers.
LEMMA AnswerType ==
  ASSUME TypeOK, NEW d \in Delivery, UNCHANGED apiVars,
         Fail(d) \/ Unhandled(d) \/ Ack(d) \/ Release(d) \/ Nak(d)
  PROVE  TypeOK'
<1>1. Sim(d) \in Sims /\ why[d] \in Errors /\ AfterFailure(d) \in Phases
  BY DeliveryType, AfterFailureType DEF TypeOK, DispatcherTypeOK, Phases, Answering
<1>2. CASE Fail(d)
  <2>1. "report_failure" \in Phases /\ "unhandled" \in Phases
    BY DEF Phases, InProgress, Answering
  <2> QED BY <1>1, <1>2, <2>1, SaveFailureType, ReportFailureType DEF Fail
<1>3. CASE Unhandled(d)
  <2>1. /\ "report_unhandled" \in Phases /\ "ack" \in Phases /\ "dead" \in Phases
        /\ "unhandled" \in Errors
    BY DEF Phases, Answering, Ended, Errors
  <2> QED BY <1>3, <2>1, SaveFailureType, ReportFailureType DEF Unhandled
<1>4. CASE Ack(d) \/ Nak(d)
  <2>1. StoreTypeOK' /\ ApiTypeOK' /\ faults' \in Nat
    BY <1>4, UnchangedType DEF Ack, Nak, NoFault, TypeOK
  <2>2. \E p \in Phases : Go(d, p)
    BY <1>4 DEF Ack, Nak, Phases, Ended, Answering
  <2>3. DispatcherTypeOK'
    BY <2>2, GoType DEF TypeOK
  <2>4. UNCHANGED brokerVars \/ Settle(Sim(d)) \/ Return(Sim(d))
    BY <1>4 DEF Ack, Nak
  <2>5. BrokerTypeOK'
    BY <2>4, <1>1 DEF TypeOK, BrokerTypeOK, Settle, Return, brokerVars
  <2> QED BY <2>1, <2>3, <2>5 DEF TypeOK
<1>5. CASE Release(d)
  <2>1. BrokerTypeOK' /\ ApiTypeOK' /\ faults' \in Nat
    BY <1>5, UnchangedType, FailsType DEF Release, TypeOK
  <2>2. Go(d, "done") /\ "done" \in Phases
    BY <1>5 DEF Release, Phases, Ended
  <2>3. DispatcherTypeOK'
    BY <2>2, GoType DEF TypeOK
  <2>4. StoreTypeOK'
    BY <1>5, <1>1 DEF Release, TypeOK, StoreTypeOK, rowVars
  <2> QED BY <2>1, <2>3, <2>4 DEF TypeOK
<1> QED BY <1>2, <1>3, <1>4, <1>5

LEMMA TaskStepType ==
  ASSUME TypeOK, NEW d \in Delivery, UNCHANGED apiVars, TaskStep(d)
  PROVE  TypeOK'
BY ReadType, SaveSuccessType, AnswerType DEF TaskStep

\* The broker hands a message out, or takes it back.
LEMMA DeliverType ==
  ASSUME TypeOK, NEW s \in Sims, NEW w \in Workers, UNCHANGED apiVars, Deliver(s, w)
  PROVE  TypeOK'
<1> DEFINE d == <<s, delivered[s] + 1>>
<1>1. StoreTypeOK' /\ ApiTypeOK' /\ faults' \in Nat
  BY UnchangedType DEF Deliver, NoFault, TypeOK
<1>2. delivered[s] \in 0..MaxDeliver /\ delivered[s] < MaxDeliver
  BY DEF TypeOK, BrokerTypeOK, Deliver, HandOut, Deliverable
<1>3. delivered[s] + 1 \in 1..MaxDeliver /\ delivered[s] + 1 \in 0..MaxDeliver
  BY <1>2, BrokerAssumption
<1>4. BrokerTypeOK'
  BY <1>3 DEF TypeOK, BrokerTypeOK, Deliver, HandOut
<1>5. d \in Delivery
  BY <1>3 DEF Delivery
<1>6. "read_row" \in Phases
  BY DEF Phases, InProgress
<1>7. DispatcherTypeOK'
  <2>1. phase' = [phase EXCEPT ![d] = "read_row"] /\ home' = [home EXCEPT ![d] = w]
        /\ why' = why /\ mode' = mode /\ link' = link /\ drained' = drained
    BY DEF Deliver, workerVars
  <2> HIDE DEF d
  <2> QED BY <2>1, <1>5, <1>6 DEF TypeOK, DispatcherTypeOK
<1> QED BY <1>1, <1>4, <1>7 DEF TypeOK

LEMMA LapseType ==
  ASSUME TypeOK, NEW s \in Sims, UNCHANGED apiVars, Lapse(s)
  PROVE  TypeOK'
<1>1. StoreTypeOK' /\ ApiTypeOK' /\ DispatcherTypeOK'
  BY UnchangedType DEF Lapse
<1>2. BrokerTypeOK'
  BY DEF TypeOK, BrokerTypeOK, Lapse, Return
<1>3. faults' \in Nat
  BY FailsType DEF Lapse, TypeOK
<1> QED BY <1>1, <1>2, <1>3 DEF TypeOK

\* Killing tasks, whichever, keeps their kinds of phases and locks.
LEMMA KillType ==
  ASSUME TypeOK, NEW D \in SUBSET Delivery, Kill(D)
  PROVE  /\ BrokerTypeOK' /\ StoreTypeOK'
         /\ phase' \in [Delivery -> Phases]
         /\ home' = home /\ why' = why
<1>1. BrokerTypeOK'
  BY UnchangedType DEF Kill
<1>2. phase' \in [Delivery -> Phases]
  BY DEF Kill, TypeOK, DispatcherTypeOK, Phases, Ended
<1>3. lock' \in [Sims -> 0..MaxDeliver]
  BY BrokerAssumption DEF Kill, TypeOK, StoreTypeOK
<1>4. StoreTypeOK'
  BY <1>3 DEF Kill, TypeOK, StoreTypeOK, objectVars
<1> QED BY <1>1, <1>2, <1>4 DEF Kill

LEMMA WorkerStepType ==
  ASSUME TypeOK, NEW w \in Workers, UNCHANGED apiVars, WorkerStep(w)
  PROVE  TypeOK'
<1>1. ApiTypeOK' /\ faults' \in Nat
  BY UnchangedType, FailsType
     DEF WorkerStep, PoolBreaks, Crash, Restart, LoseLink, RegainLink, Shutdown, Close, Exit, TypeOK
<1>2. Live(w) \in SUBSET Delivery /\ drained[w] \in SUBSET Delivery
  BY DEF Live, TypeOK, DispatcherTypeOK
<1>3. CASE PoolBreaks(w)
  <2>1. BrokerTypeOK' /\ StoreTypeOK'
    BY <1>3, UnchangedType DEF PoolBreaks
  <2>2. "nak" \in Phases /\ "fail" \in Phases /\ "crashed" \in Errors
    BY DEF Phases, InProgress, Answering, Errors
  <2>3. phase' \in [Delivery -> Phases] /\ why' \in [Delivery -> Errors]
    BY <1>3, <2>2 DEF PoolBreaks, TypeOK, DispatcherTypeOK
  <2>4. UNCHANGED <<home, workerVars>>
    BY <1>3 DEF PoolBreaks
  <2> QED BY <1>1, <2>1, <2>3, <2>4 DEF TypeOK, DispatcherTypeOK, workerVars
<1>4. CASE Crash(w) \/ Close(w) \/ Exit(w)
  <2>1. PICK D \in SUBSET Delivery : Kill(D)
    BY <1>2, <1>4 DEF Crash, Close, Exit
  <2>2. /\ mode' \in [Workers -> {"running", "draining", "closing", "down"}]
        /\ drained' \in [Workers -> SUBSET Delivery]
        /\ link' = link
    BY <1>4 DEF Crash, Close, Exit, TypeOK, DispatcherTypeOK
  <2>3. DispatcherTypeOK'
    BY <2>1, <2>2, KillType DEF TypeOK, DispatcherTypeOK
  <2> QED BY <1>1, <2>1, <2>3, KillType DEF TypeOK
<1>5. CASE Restart(w) \/ LoseLink(w) \/ RegainLink(w) \/ Shutdown(w)
  <2>1. BrokerTypeOK' /\ StoreTypeOK'
    BY <1>5, UnchangedType DEF Restart, LoseLink, RegainLink, Shutdown
  <2>2. UNCHANGED taskVars
    BY <1>5 DEF Restart, LoseLink, RegainLink, Shutdown
  <2>3. /\ mode' \in [Workers -> {"running", "draining", "closing", "down"}]
        /\ link' \in [Workers -> {"up", "down"}]
        /\ drained' \in [Workers -> SUBSET Delivery]
    BY <1>5, <1>2 DEF Restart, LoseLink, RegainLink, Shutdown, TypeOK, DispatcherTypeOK
  <2> QED BY <1>1, <2>1, <2>2, <2>3 DEF TypeOK, DispatcherTypeOK, taskVars
<1> QED BY <1>3, <1>4, <1>5 DEF WorkerStep

LEMMA DispatcherNextType ==
  ASSUME TypeOK, UNCHANGED apiVars, DispatcherNext
  PROVE  TypeOK'
BY TaskStepType, DeliverType, LapseType, WorkerStepType DEF DispatcherNext

-----------------------------------------------------------------------------
(* The steps of the API. *)
LEMMA RequestType ==
  ASSUME ApiTypeOK, NEW s \in Sims, NEW p,
         \/ p \in StartPhases /\ (Start(s, p) \/ Respond(s, p))
         \/ p \in DeletePhases /\ Delete(s, p)
  PROVE  ApiTypeOK'
BY DEF ApiTypeOK, Start, Respond, Delete

\* Every step of the request that starts a simulation moves that request only.
LEMMA StartStepMoves ==
  ASSUME NEW s \in Sims, StartStep(s) \/ CrashStart(s)
  PROVE  \/ \E p \in StartPhases : Start(s, p) \/ Respond(s, p)
         \/ LogCreated(s)
<1>1. CASE Submit(s) \/ UploadSource(s) \/ InsertRow(s) \/ UndoUpload(s)
  BY <1>1 DEF Submit, UploadSource, InsertRow, UndoUpload, DropSource, StartPhases, StartEnded
<1>2. CASE PublishRun(s) \/ Unstore(s) \/ CrashStart(s)
  BY <1>2 DEF PublishRun, Unstore, DropSource, CrashStart, StartPhases, StartEnded
<1>3. CASE MarkFailedToQueue(s) \/ ReportMark(s)
  BY <1>3 DEF MarkFailedToQueue, ReportMark, AfterMark, StartPhases, StartEnded
<1> QED BY <1>1, <1>2, <1>3 DEF StartStep

LEMMA StartStepType ==
  ASSUME TypeOK, NEW s \in Sims, UNCHANGED <<taskVars, workerVars>>,
         StartStep(s) \/ CrashStart(s)
  PROVE  TypeOK'
<1>1. DispatcherTypeOK'
  BY UnchangedType
<1>2. faults' \in Nat
  <2>1. CASE Submit(s) \/ UploadSource(s) \/ InsertRow(s) \/ UndoUpload(s) \/ LogCreated(s)
    BY <2>1, FailsType DEF TypeOK, Submit, UploadSource, InsertRow, UndoUpload, DropSource, LogCreated
  <2>2. CASE PublishRun(s) \/ Unstore(s) \/ CrashStart(s)
    BY <2>2, FailsType DEF TypeOK, PublishRun, Unstore, DropSource, CrashStart
  <2>3. CASE MarkFailedToQueue(s) \/ ReportMark(s)
    BY <2>3, FailsType DEF TypeOK, MarkFailedToQueue, ReportMark
  <2> QED BY <2>1, <2>2, <2>3 DEF StartStep
<1>3. ApiTypeOK'
  <2>1. CASE LogCreated(s)
    BY <2>1 DEF LogCreated, TypeOK, ApiTypeOK, StartPhases
  <2> QED BY <2>1, StartStepMoves, RequestType DEF TypeOK
<1>4. BrokerTypeOK'
  <2>1. CASE PublishRun(s)
    BY <2>1 DEF PublishRun, Enqueue, brokerVars, TypeOK, BrokerTypeOK
  <2>2. CASE Submit(s) \/ UploadSource(s) \/ InsertRow(s) \/ UndoUpload(s) \/ LogCreated(s)
    BY <2>2, UnchangedType DEF Submit, UploadSource, InsertRow, UndoUpload, DropSource, LogCreated
  <2>3. CASE Unstore(s) \/ CrashStart(s) \/ MarkFailedToQueue(s) \/ ReportMark(s)
    BY <2>3, UnchangedType DEF Unstore, DropSource, CrashStart, MarkFailedToQueue, ReportMark
  <2> QED BY <2>1, <2>2, <2>3 DEF StartStep
<1>5. StoreTypeOK'
  <2>1. CASE Submit(s) \/ LogCreated(s) \/ PublishRun(s) \/ CrashStart(s)
    BY <2>1, UnchangedType DEF Submit, LogCreated, PublishRun, CrashStart
  <2>2. CASE UploadSource(s) \/ UndoUpload(s) \/ Unstore(s)
    BY <2>2 DEF UploadSource, UndoUpload, Unstore, DropSource, TypeOK, StoreTypeOK, rowVars
  <2>3. CASE InsertRow(s)
    BY <2>3 DEF InsertRow, TypeOK, StoreTypeOK, Statuses, objectVars
  <2>4. CASE MarkFailedToQueue(s)
    <3>1. UNCHANGED rowVars \/ FailRow(s, "queue")
      BY <2>4 DEF MarkFailedToQueue
    <3>2. UNCHANGED <<objectVars, audit>>
      BY <2>4 DEF MarkFailedToQueue
    <3> QED BY <3>1, <3>2 DEF TypeOK, StoreTypeOK, FailRow, rowVars, objectVars, Statuses, Errors
  <2>5. CASE ReportMark(s)
    <3>1. UNCHANGED <<rowVars, objectVars>>
      BY <2>5 DEF ReportMark
    <3>2. UNCHANGED audit \/ Record(s, "QUEUE_FAILED")
      BY <2>5 DEF ReportMark
    <3>3. "QUEUE_FAILED" \in AuditActions
      BY DEF AuditActions
    <3>4. UNCHANGED audit => StoreTypeOK'
      BY <3>1, UnchangedType DEF storeVars, rowVars, objectVars
    <3> QED BY <3>1, <3>2, <3>3, <3>4, RecordType DEF TypeOK
  <2> QED BY <2>1, <2>2, <2>3, <2>4, <2>5 DEF StartStep
<1> QED BY <1>1, <1>2, <1>3, <1>4, <1>5 DEF TypeOK

LEMMA DeleteStepType ==
  ASSUME TypeOK, NEW s \in Sims, UNCHANGED <<taskVars, workerVars>>,
         ReadForDelete(s) \/ DeleteStep(s) \/ CrashDelete(s)
  PROVE  TypeOK'
<1>1. DispatcherTypeOK'
  BY UnchangedType
<1>2. BrokerTypeOK'
  BY UnchangedType DEF ReadForDelete, DeleteStep, DeleteRow, DeleteFile, DeleteResult, CrashDelete
<1>3. faults' \in Nat
  BY FailsType DEF TypeOK, ReadForDelete, DeleteStep, DeleteRow, DeleteFile, DeleteResult, CrashDelete
<1>4. ApiTypeOK'
  <2>1. CASE ReadForDelete(s)
    BY <2>1 DEF ReadForDelete, TypeOK, ApiTypeOK, StoreTypeOK, DeletePhases
  <2>2. CASE DeleteStep(s) \/ CrashDelete(s)
    <3>1. \E p \in DeletePhases : Delete(s, p)
      BY <2>2 DEF DeleteStep, DeleteRow, DeleteFile, DeleteResult, CrashDelete, DeletePhases
    <3> QED BY <3>1, RequestType DEF TypeOK
  <2> QED BY <2>1, <2>2
<1>5. StoreTypeOK'
  <2>1. CASE ReadForDelete(s) \/ CrashDelete(s)
    BY <2>1, UnchangedType DEF ReadForDelete, CrashDelete
  <2>2. CASE DeleteRow(s)
    <3>1. 0 \in 0..MaxDeliver
      BY BrokerAssumption
    <3>2. UNCHANGED <<lock, source, result, audit>>
      BY <2>2 DEF DeleteRow, objectVars
    <3>3. status' \in [Sims -> Statuses] /\ error' \in [Sims -> Errors]
      BY <2>2 DEF DeleteRow, TypeOK, StoreTypeOK, Statuses, Errors
    <3>4. totals' \in [Sims -> 0..MaxDeliver]
      BY <2>2, <3>1 DEF DeleteRow, TypeOK, StoreTypeOK
    <3> QED BY <3>2, <3>3, <3>4 DEF TypeOK, StoreTypeOK
  <2>3. CASE DeleteFile(s) \/ DeleteResult(s)
    <3>1. 0 \in 0..MaxDeliver
      BY BrokerAssumption
    <3>2. UNCHANGED <<status, error, totals, lock, audit>>
      BY <2>3 DEF DeleteFile, DeleteResult, rowVars
    <3>3. source' \in [Sims -> BOOLEAN] /\ result' \in [Sims -> 0..MaxDeliver]
      BY <2>3, <3>1 DEF DeleteFile, DeleteResult, TypeOK, StoreTypeOK
    <3> QED BY <3>2, <3>3 DEF TypeOK, StoreTypeOK
  <2> QED BY <2>1, <2>2, <2>3 DEF DeleteStep
<1> QED BY <1>1, <1>2, <1>3, <1>4, <1>5 DEF TypeOK

-----------------------------------------------------------------------------
LEMMA NextType ==
  ASSUME TypeOK, [Next]_vars
  PROVE  TypeOK'
<1>1. CASE DispatcherNext /\ UNCHANGED apiVars
  BY <1>1, DispatcherNextType
<1>2. CASE ApiNext /\ UNCHANGED <<taskVars, workerVars>>
  BY <1>2, StartStepType, DeleteStepType DEF ApiNext
<1>3. CASE UNCHANGED vars
  <2>1. UNCHANGED <<brokerVars, storeVars, taskVars, workerVars, apiVars>> /\ UNCHANGED faults
    BY <1>3 DEF vars
  <2> QED BY <2>1, UnchangedType DEF TypeOK
<1> QED BY <1>1, <1>2, <1>3 DEF Next, Rest

\* Whatever faults happen, every variable keeps the kind of value the code
\* gives it: a row one of its three statuses, a delivery a count the consumer
\* allows, a task one of the awaits of _handle_message.
THEOREM TypeCorrect == Spec => []TypeOK
<1>1. Init => TypeOK
  BY InitType
<1>2. TypeOK /\ [Next]_vars => TypeOK'
  BY NextType
<1> QED BY <1>1, <1>2, PTL DEF Spec

-----------------------------------------------------------------------------
(***************************************************************************)
(* InStep is an invariant.                                                 *)
(***************************************************************************)

\* A delivery is the one of its simulation and its count.
LEMMA DeliveryDistinct ==
  ASSUME NEW d \in Delivery, NEW e \in Delivery, Sim(d) = Sim(e), Count(d) = Count(e)
  PROVE  d = e
BY DEF Delivery, Sim, Count

LEMMA CountPositive ==
  ASSUME NEW d \in Delivery
  PROVE  Count(d) # 0
BY BrokerAssumption DEF Delivery, Count

LEMMA InitInStep == Init => InStep
<1> SUFFICES ASSUME Init PROVE InStep
  OBVIOUS
<1>1. /\ \A s \in Sims : /\ msg[s] = "none" /\ status[s] = "absent" /\ lock[s] = 0
                         /\ req[s] = "none" /\ del[s] = "none"
      /\ \A d \in Delivery : phase[d] = "idle"
  BY DEF Init, BrokerInit, StoreInit, ApiInit, DispatcherInit
<1>2. \A d \in Delivery : Sim(d) \in Sims
  BY DeliveryType
<1>3. RowBeforeMessage
  BY <1>1 DEF RowBeforeMessage, RowFirst
<1>4. ClosedBeforeAck
  BY <1>1 DEF ClosedBeforeAck, Concluding
<1>5. LockKeepsPending
  BY <1>1 DEF LockKeepsPending
<1>6. SourceBeforeRow
  BY <1>1, StoreAssumption DEF SourceBeforeRow, SourceFirst
<1> QED BY <1>3, <1>4, <1>5, <1>6 DEF InStep

-----------------------------------------------------------------------------
(***************************************************************************)
(* The steps of the workers.  Whatever they do to the rows, the messages   *)
(* and the files has one shape.                                            *)
(***************************************************************************)

\* A worker step closes a row that is PENDING or leaves it as it is, settles
\* only messages of closed rows, and deletes only their files.
OnlyCloses ==
  \A s \in Sims :
    /\ \/ status'[s] = status[s]
       \/ status[s] = "PENDING" /\ status'[s] \in {"SUCCESS", "FAILED"}
    /\ msg'[s] = "none" <=> msg[s] = "none"
    /\ msg'[s] = "acked" => msg[s] = "acked" \/ Closed(s)
    /\ source'[s] = source[s] \/ Closed(s)

LEMMA OnlyClosesKeeps ==
  ASSUME InStep, OnlyCloses, UNCHANGED apiVars
  PROVE  /\ RowBeforeMessage' /\ SourceBeforeRow'
         /\ \A s \in Sims : /\ Closed(s) => Closed(s)'
                            /\ msg'[s] = "acked" => Closed(s)'
                            /\ msg[s] # "none" => msg'[s] # "none"
<1>1. \A s \in Sims : Closed(s) => Closed(s)'
  BY DEF OnlyCloses, Closed
<1>2. \A s \in Sims : msg'[s] = "acked" => Closed(s)'
  BY <1>1 DEF OnlyCloses, InStep, ClosedBeforeAck
<1>3. RowBeforeMessage'
  BY <1>1 DEF OnlyCloses, InStep, RowBeforeMessage, RowFirst, apiVars, Closed
<1>4. SourceBeforeRow'
  BY StoreAssumption DEF OnlyCloses, InStep, RowBeforeMessage, RowFirst, SourceBeforeRow, SourceFirst, apiVars, Closed
<1> QED BY <1>1, <1>2, <1>3, <1>4 DEF OnlyCloses

\* One task moves, to a phase that concludes only if its row is closed, and
\* the locks stay with the transactions that hold them.
LEMMA TaskMoveKeeps ==
  ASSUME TypeOK, InStep, OnlyCloses, UNCHANGED apiVars, NEW d \in Delivery, NEW p,
         phase' = [phase EXCEPT ![d] = p],
         msg'[Sim(d)] # "none",
         p \in Concluding => Closed(Sim(d))',
         LockKeepsPending'
  PROVE  InStep'
<1>1. Sim(d) \in Sims /\ \A e \in Delivery : Sim(e) \in Sims
  BY DeliveryType
<1>2. \A e \in Delivery : phase'[e] = IF e = d THEN p ELSE phase[e]
  BY DEF TypeOK, DispatcherTypeOK
<1>3. ClosedBeforeAck'
  BY <1>1, <1>2, OnlyClosesKeeps DEF InStep, ClosedBeforeAck
<1> QED BY <1>3, OnlyClosesKeeps DEF InStep

\* Steps of a task that change nothing but its phase and what is counted.
LEMMA ReadInStep ==
  ASSUME TypeOK, InStep, NEW d \in Delivery, UNCHANGED apiVars,
         ReadRow(d) \/ ReadKey(d) \/ LoadFile(d) \/ LoadCrm(d) \/ StartSolve(d) \/ Solve(d)
  PROVE  InStep'
<1>1. UNCHANGED <<msg, status, source, lock>>
  BY DEF ReadRow, ReadKey, LoadFile, LoadCrm, StartSolve, Solve, brokerVars, storeVars
<1>2. OnlyCloses
  BY <1>1 DEF OnlyCloses
<1>3. Sim(d) \in Sims /\ phase[d] # "idle" /\ msg[Sim(d)] # "none"
  BY DeliveryType DEF ReadRow, ReadKey, LoadFile, LoadCrm, StartSolve, Solve, InStep, ClosedBeforeAck
<1>4. status[Sim(d)] # "absent" /\ status[Sim(d)] \in Statuses
  BY <1>3 DEF InStep, RowBeforeMessage, RowFirst, TypeOK, StoreTypeOK
<1>5. PICK p \in Phases :
        /\ phase' = [phase EXCEPT ![d] = p]
        /\ p \notin {"upload", "commit"}
        /\ p \in Concluding => Closed(Sim(d))
  <2>1. CASE ReadRow(d)
    BY <2>1, <1>4, TerminalType
       DEF ReadRow, Go, GoFail, RowExists, Closed, Concluding, Statuses, Phases, InProgress, Answering
  <2>2. CASE ReadKey(d) \/ LoadFile(d) \/ LoadCrm(d) \/ StartSolve(d) \/ Solve(d)
    BY <2>2 DEF ReadKey, LoadFile, LoadCrm, StartSolve, Solve, Go, GoFail, Concluding,
                Phases, InProgress, Answering
  <2> QED BY <2>1, <2>2
<1>6. LockKeepsPending'
  BY <1>1, <1>5 DEF InStep, LockKeepsPending, TypeOK, DispatcherTypeOK
<1>7. Closed(Sim(d))' <=> Closed(Sim(d))
  BY <1>1 DEF Closed
<1> QED BY <1>1, <1>2, <1>3, <1>5, <1>6, <1>7, TaskMoveKeeps

\* save_success: the lock it takes is free, the one it gives back is its own.
LEMMA SaveSuccessInStep ==
  ASSUME TypeOK, InStep, NEW d \in Delivery, UNCHANGED apiVars,
         Claim(d) \/ Upload(d) \/ StaleUpload(d) \/ Commit(d) \/ ReportSuccess(d)
  PROVE  InStep'
<1>1. Sim(d) \in Sims /\ \A e \in Delivery : Sim(e) \in Sims
  BY DeliveryType
<1>2. UNCHANGED <<msg, source>>
  BY DEF Claim, Upload, StaleUpload, Commit, ReportSuccess, brokerVars, objectVars
<1>3. phase[d] # "idle" /\ msg[Sim(d)] # "none"
  BY DEF Claim, Upload, StaleUpload, Commit, ReportSuccess, InStep, ClosedBeforeAck
<1>4. status[Sim(d)] # "absent" /\ status[Sim(d)] \in Statuses
  BY <1>1, <1>3 DEF InStep, RowBeforeMessage, RowFirst, TypeOK, StoreTypeOK
<1>5. PICK p \in Phases : phase' = [phase EXCEPT ![d] = p]
  BY TerminalType DEF Claim, Upload, StaleUpload, Commit, ReportSuccess, Go,
                      Phases, InProgress, Answering
<1>6. \A e \in Delivery : phase'[e] = IF e = d THEN p ELSE phase[e]
  BY <1>5 DEF TypeOK, DispatcherTypeOK
<1>7. phase'[d] = p
  BY <1>6
<1>8. \A e \in Delivery : Sim(e) = Sim(d) /\ e # d => Count(e) # Count(d)
  BY DeliveryDistinct
<1>9. CASE Claim(d)
  <2>1. status' = status
    BY <1>9 DEF Claim, rowVars
  <2>2. OnlyCloses
    BY <1>2, <2>1 DEF OnlyCloses
  <2>3. p \in Concluding => Closed(Sim(d))'
    BY <1>9, <1>4, <1>7, <2>1
       DEF Claim, Go, Concluding, RowExists, Closed, Statuses, TypeOK, DispatcherTypeOK
  <2>4. ASSUME lock[Sim(d)] = 0, status[Sim(d)] = "PENDING", lock' = [lock EXCEPT ![Sim(d)] = Count(d)]
        PROVE  LockKeepsPending'
    BY <2>4, <2>1, <1>1, <1>6, <1>8, CountPositive DEF InStep, LockKeepsPending, TypeOK, StoreTypeOK
  <2>5. ASSUME lock' = lock, p \notin {"upload", "commit"}
        PROVE  LockKeepsPending'
    BY <2>5, <2>1, <1>6 DEF InStep, LockKeepsPending
  <2>6. \/ lock[Sim(d)] = 0 /\ status[Sim(d)] = "PENDING" /\ lock' = [lock EXCEPT ![Sim(d)] = Count(d)]
        \/ lock' = lock /\ p \notin {"upload", "commit"}
    BY <1>9, <1>7, TerminalType DEF Claim, Go, rowVars, RowFree, TypeOK, DispatcherTypeOK
  <2> QED BY <1>1, <1>2, <1>3, <1>5, <2>2, <2>3, <2>4, <2>5, <2>6, TaskMoveKeeps
<1>10. CASE Upload(d) \/ Commit(d)
  <2>1. lock[Sim(d)] = Count(d) /\ Count(d) # 0 /\ status[Sim(d)] = "PENDING"
    BY <1>10, <1>1, CountPositive DEF Upload, Commit, InStep, LockKeepsPending
  <2>2. \/ lock' = lock /\ status' = status /\ p = "commit"
        \/ /\ lock' = [lock EXCEPT ![Sim(d)] = 0]
           /\ status' = status /\ p \in {"nak", "stale_upload"}
        \/ /\ lock' = [lock EXCEPT ![Sim(d)] = 0]
           /\ status' = [status EXCEPT ![Sim(d)] = "SUCCESS"]
           /\ p \in {"nak", "report_success"}
    BY <1>10, <1>7 DEF Upload, Commit, UnlockRow, SucceedRow, rowVars, Go, TypeOK, DispatcherTypeOK
  <2>3. OnlyCloses
    BY <1>1, <1>2, <2>1, <2>2 DEF OnlyCloses, TypeOK, StoreTypeOK
  <2>4. p \in Concluding => Closed(Sim(d))'
    BY <1>1, <2>2 DEF Concluding, Closed, TypeOK, StoreTypeOK
  <2>5. \A e \in Delivery : phase'[e] \in {"upload", "commit"} => phase[e] \in {"upload", "commit"}
    BY <1>6, <1>10 DEF Upload, Commit
  <2>6. \A s \in Sims : lock'[s] = IF s = Sim(d) /\ lock' # lock THEN 0 ELSE lock[s]
    BY <1>1, <2>2 DEF TypeOK, StoreTypeOK
  <2>7. \A s \in Sims \ {Sim(d)} : status'[s] = status[s]
    BY <2>2 DEF TypeOK, StoreTypeOK
  <2>8. \A s \in Sims : lock'[s] # 0 => status'[s] = "PENDING"
    BY <1>1, <2>1, <2>2, <2>6, <2>7 DEF InStep, LockKeepsPending, TypeOK, StoreTypeOK
  <2>9. ASSUME NEW e \in Delivery, phase'[e] \in {"upload", "commit"}
        PROVE  lock'[Sim(e)] = Count(e)
    <3>1. lock[Sim(e)] = Count(e)
      BY <2>5, <2>9 DEF InStep, LockKeepsPending
    <3>2. CASE Sim(e) # Sim(d)
      BY <3>1, <3>2, <2>6, <1>1
    <3>3. CASE Sim(e) = Sim(d)
      <4>1. e = d
        BY <3>1, <3>3, <2>1, <1>8
      <4>2. lock' = lock
        BY <4>1, <2>9, <1>7, <2>2
      <4> QED BY <4>2, <3>1
    <3> QED BY <3>2, <3>3
  <2>10. LockKeepsPending'
    BY <2>8, <2>9 DEF LockKeepsPending
  <2> QED BY <1>1, <1>2, <1>3, <1>5, <2>3, <2>4, <2>10, TaskMoveKeeps
<1>11. CASE StaleUpload(d) \/ ReportSuccess(d)
  <2>1. UNCHANGED <<status, lock>>
    BY <1>11 DEF StaleUpload, ReportSuccess, rowVars
  <2>2. OnlyCloses
    BY <1>2, <2>1 DEF OnlyCloses
  <2>3. (p \in Concluding => Closed(Sim(d))') /\ p \notin {"upload", "commit"}
    BY <1>11, <1>7, <2>1, TerminalType
       DEF StaleUpload, ReportSuccess, Go, Concluding, Closed, InStep, ClosedBeforeAck, TypeOK, DispatcherTypeOK
  <2>4. LockKeepsPending'
    BY <1>6, <2>1, <2>3 DEF InStep, LockKeepsPending
  <2> QED BY <1>1, <1>2, <1>3, <1>5, <2>2, <2>3, <2>4, TaskMoveKeeps
<1> QED BY <1>9, <1>10, <1>11

\* save_failure writes to rows nobody holds.
LEMMA SaveFailureInStep ==
  ASSUME TypeOK, InStep, NEW d \in Delivery, UNCHANGED apiVars, phase[d] # "idle",
         NEW r, NEW p, NEW q, NEW x,
         SaveFailure(d, r, p, q, x),
         p \notin {"upload", "commit"}, q \notin {"upload", "commit"},
         x \notin {"upload", "commit"} \union Concluding
  PROVE  InStep'
<1>1. Sim(d) \in Sims
  BY DeliveryType
<1>2. msg[Sim(d)] # "none" /\ status[Sim(d)] # "absent" /\ status[Sim(d)] \in Statuses
  BY <1>1 DEF InStep, ClosedBeforeAck, RowBeforeMessage, RowFirst, TypeOK, StoreTypeOK
<1>3. msg' = msg /\ source' = source /\ lock' = lock
  BY DEF SaveFailure, brokerVars, objectVars, rowVars, FailRow
<1>4. \/ status' = status
      \/ lock[Sim(d)] = 0 /\ status[Sim(d)] = "PENDING" /\ status' = [status EXCEPT ![Sim(d)] = "FAILED"]
  BY DEF SaveFailure, rowVars, FailRow, RowFree
<1>5. OnlyCloses
  BY <1>1, <1>3, <1>4 DEF OnlyCloses, TypeOK, StoreTypeOK
<1>6. PICK y \in {p, q, x} : /\ phase' = [phase EXCEPT ![d] = y]
                             /\ y # x => Closed(Sim(d))'
  <2>1. CASE Go(d, x)
    BY <2>1 DEF Go
  <2>2. CASE Go(d, q) /\ ~RowExists(Sim(d)) /\ status' = status
    BY <2>2, <1>2 DEF Go, RowExists, Closed, Statuses
  <2>3. CASE Go(d, q) /\ RowExists(Sim(d)) /\ status[Sim(d)] # "PENDING" /\ status' = status
    BY <2>3 DEF Go, RowExists, Closed
  <2>4. CASE Go(d, p) /\ FailRow(Sim(d), r)
    BY <2>4, <1>1 DEF Go, FailRow, Closed, TypeOK, StoreTypeOK
  <2> QED BY <2>1, <2>2, <2>3, <2>4 DEF SaveFailure, rowVars
<1>7. \A e \in Delivery : phase'[e] \in {"upload", "commit"} => phase[e] \in {"upload", "commit"}
  BY <1>6 DEF TypeOK, DispatcherTypeOK
<1>8. LockKeepsPending'
  BY <1>1, <1>3, <1>4, <1>7 DEF InStep, LockKeepsPending, TypeOK, StoreTypeOK
<1> QED BY <1>2, <1>3, <1>5, <1>6, <1>8, TaskMoveKeeps

\* Its audit entry moves nothing but the task.
LEMMA ReportFailureInStep ==
  ASSUME TypeOK, InStep, NEW d \in Delivery, UNCHANGED apiVars,
         phase[d] # "idle", Closed(Sim(d)),
         NEW p, NEW x, ReportFailure(d, p, x),
         p \notin {"upload", "commit"}, x \notin {"upload", "commit"}
  PROVE  InStep'
<1>1. msg[Sim(d)] # "none"
  BY DeliveryType DEF InStep, ClosedBeforeAck
<1>2. msg' = msg /\ source' = source /\ lock' = lock /\ status' = status
  BY DEF ReportFailure, brokerVars, objectVars, rowVars
<1>3. OnlyCloses
  BY <1>2 DEF OnlyCloses
<1>4. PICK y \in {p, x} : phase' = [phase EXCEPT ![d] = y]
  BY DEF ReportFailure, Go
<1>5. Closed(Sim(d))'
  BY <1>2 DEF Closed
<1>6. LockKeepsPending'
  BY <1>2, <1>4 DEF InStep, LockKeepsPending, TypeOK, DispatcherTypeOK
<1> QED BY <1>1, <1>2, <1>3, <1>4, <1>5, <1>6, TaskMoveKeeps

LEMMA AnswerInStep ==
  ASSUME TypeOK, InStep, NEW d \in Delivery, UNCHANGED apiVars,
         Fail(d) \/ Unhandled(d) \/ Ack(d) \/ Release(d) \/ Nak(d)
  PROVE  InStep'
<1>1. Sim(d) \in Sims
  BY DeliveryType
<1>2. CASE Fail(d)
  <2>1. AfterFailure(d) \notin {"upload", "commit"}
    BY AfterFailureType
  <2>2. CASE phase[d] = "fail"
    BY <1>2, <2>1, <2>2, SaveFailureInStep DEF Fail, Concluding
  <2>3. CASE phase[d] = "report_failure"
    BY <1>2, <2>1, <2>3, ReportFailureInStep DEF Fail, InStep, ClosedBeforeAck, Concluding
  <2> QED BY <1>2, <2>2, <2>3 DEF Fail
<1>3. CASE Unhandled(d)
  <2>1. CASE phase[d] = "unhandled"
    BY <1>3, <2>1, SaveFailureInStep DEF Unhandled, Concluding
  <2>2. CASE phase[d] = "report_unhandled"
    BY <1>3, <2>2, ReportFailureInStep DEF Unhandled, InStep, ClosedBeforeAck, Concluding
  <2> QED BY <1>3, <2>1, <2>2 DEF Unhandled
<1>4. CASE Ack(d)
  <2>1. Closed(Sim(d)) /\ msg[Sim(d)] # "none"
    BY <1>4 DEF Ack, InStep, ClosedBeforeAck, Concluding
  <2>2. status' = status /\ source' = source /\ lock' = lock
    BY <1>4 DEF Ack, storeVars
  <2>3. \A s \in Sims : msg'[s] = msg[s] \/ (s = Sim(d) /\ msg'[s] = "acked")
    <3>1. msg' = msg \/ msg' = [msg EXCEPT ![Sim(d)] = "acked"]
      BY <1>4 DEF Ack, Settle, brokerVars
    <3> QED BY <3>1, <1>1 DEF TypeOK, BrokerTypeOK
  <2>4. OnlyCloses
    BY <2>1, <2>2, <2>3 DEF OnlyCloses
  <2>5. PICK p \in {"done", "release"} : phase' = [phase EXCEPT ![d] = p]
    BY <1>4 DEF Ack, Go
  <2>6. LockKeepsPending'
    BY <2>2, <2>5 DEF InStep, LockKeepsPending, TypeOK, DispatcherTypeOK
  <2>7. Closed(Sim(d))' /\ msg'[Sim(d)] # "none"
    BY <2>1, <2>2, <2>3, <1>1 DEF Closed
  <2> QED BY <2>4, <2>5, <2>6, <2>7, TaskMoveKeeps
<1>5. CASE Release(d) \/ Nak(d)
  <2>1. status' = status /\ lock' = lock
    BY <1>5 DEF Release, Nak, storeVars, rowVars
  <2>2. phase' = [phase EXCEPT ![d] = "done"]
    BY <1>5 DEF Release, Nak, Go
  <2>3. msg[Sim(d)] # "none" /\ (phase[d] = "release" => Closed(Sim(d)))
    BY <1>5 DEF Release, Nak, InStep, ClosedBeforeAck, Concluding
  <2>4. \A s \in Sims : msg'[s] = msg[s] \/ (msg[s] = "unacked" /\ msg'[s] = "ready")
    <3>1. UNCHANGED brokerVars \/ Return(Sim(d))
      BY <1>5 DEF Release, Nak
    <3>2. CASE UNCHANGED brokerVars
      BY <3>2 DEF brokerVars
    <3>3. CASE Return(Sim(d))
      BY <3>3, <1>1 DEF Return, TypeOK, BrokerTypeOK
    <3> QED BY <3>1, <3>2, <3>3
  <2>5. \A s \in Sims : source'[s] = source[s] \/ Closed(s)
    BY <1>5, <1>1, <2>3 DEF Release, Nak, storeVars, TypeOK, StoreTypeOK
  <2>6. OnlyCloses
    BY <2>1, <2>4, <2>5 DEF OnlyCloses
  <2>7. LockKeepsPending'
    BY <2>1, <2>2 DEF InStep, LockKeepsPending, TypeOK, DispatcherTypeOK
  <2>8. msg'[Sim(d)] # "none"
    BY <1>1, <2>3, <2>4
  <2> QED BY <2>2, <2>6, <2>7, <2>8, TaskMoveKeeps DEF Concluding
<1> QED BY <1>2, <1>3, <1>4, <1>5

LEMMA TaskStepInStep ==
  ASSUME TypeOK, InStep, NEW d \in Delivery, UNCHANGED apiVars, TaskStep(d)
  PROVE  InStep'
BY ReadInStep, SaveSuccessInStep, AnswerInStep DEF TaskStep

LEMMA DeliverInStep ==
  ASSUME TypeOK, InStep, NEW s \in Sims, NEW w \in Workers, UNCHANGED apiVars, Deliver(s, w)
  PROVE  InStep'
<1> DEFINE d == <<s, delivered[s] + 1>>
<1>1. delivered[s] + 1 \in 1..MaxDeliver
  BY BrokerAssumption DEF TypeOK, BrokerTypeOK, Deliver, HandOut, Deliverable
<1>2. d \in Delivery /\ Sim(d) = s
  BY <1>1 DEF Delivery, Sim
<1>3. /\ msg' = [msg EXCEPT ![s] = "unacked"] /\ msg[s] = "ready"
      /\ phase' = [phase EXCEPT ![d] = "read_row"]
      /\ status' = status /\ source' = source /\ lock' = lock
  BY DEF Deliver, HandOut, Deliverable, storeVars
<1> HIDE DEF d
<1>4. msg'[s] # "none" /\ OnlyCloses
  BY <1>3 DEF OnlyCloses, TypeOK, BrokerTypeOK
<1>5. LockKeepsPending'
  BY <1>2, <1>3 DEF InStep, LockKeepsPending, TypeOK, DispatcherTypeOK
<1> QED BY <1>2, <1>3, <1>4, <1>5, TaskMoveKeeps DEF Concluding

\* Steps that move no task to a new phase, except to end it or to put it
\* behind its solve.
LEMMA WorkerMoveKeeps ==
  ASSUME TypeOK, InStep, OnlyCloses, UNCHANGED apiVars,
         \A d \in Delivery : phase'[d] = phase[d] \/ (phase[d] # "idle" /\ phase'[d] \in {"dead", "nak", "fail"}),
         LockKeepsPending'
  PROVE  InStep'
<1>1. \A d \in Delivery : Sim(d) \in Sims
  BY DeliveryType
<1>2. ClosedBeforeAck'
  BY <1>1, OnlyClosesKeeps DEF InStep, ClosedBeforeAck, Concluding
<1> QED BY <1>2, OnlyClosesKeeps DEF InStep

LEMMA LapseInStep ==
  ASSUME TypeOK, InStep, NEW s \in Sims, UNCHANGED apiVars, Lapse(s)
  PROVE  InStep'
<1>1. msg' = [msg EXCEPT ![s] = "ready"] /\ msg[s] = "unacked"
  BY DEF Lapse, Return, TypeOK, BrokerTypeOK
<1>2. status' = status /\ source' = source /\ lock' = lock /\ phase' = phase
  BY DEF Lapse, storeVars, taskVars
<1>3. OnlyCloses
  BY <1>1, <1>2 DEF OnlyCloses, TypeOK, BrokerTypeOK
<1>4. LockKeepsPending'
  BY <1>2 DEF InStep, LockKeepsPending
<1> QED BY <1>2, <1>3, <1>4, WorkerMoveKeeps

\* A killed task gives up its own lock only.
LEMMA KillInStep ==
  ASSUME TypeOK, InStep, UNCHANGED apiVars, NEW D \in SUBSET Delivery, Kill(D),
         \A d \in D : phase[d] \notin Ended
  PROVE  InStep'
<1>1. msg' = msg /\ status' = status /\ source' = source
  BY DEF Kill, brokerVars, objectVars
<1>2. OnlyCloses
  BY <1>1 DEF OnlyCloses
<1>3. \A d \in Delivery : phase'[d] = IF d \in D THEN "dead" ELSE phase[d]
  BY DEF Kill
<1>4. \A s \in Sims : lock'[s] = IF \E d \in D : Sim(d) = s /\ Count(d) = lock[s] THEN 0 ELSE lock[s]
  BY DEF Kill
<1>5. LockKeepsPending'
  <2>1. \A s \in Sims : lock'[s] # 0 => status'[s] = "PENDING"
    BY <1>1, <1>4 DEF InStep, LockKeepsPending
  <2>2. ASSUME NEW e \in Delivery, phase'[e] \in {"upload", "commit"}
        PROVE  lock'[Sim(e)] = Count(e)
    <3>1. e \notin D /\ lock[Sim(e)] = Count(e) /\ Sim(e) \in Sims
      BY <2>2, <1>3, DeliveryType DEF InStep, LockKeepsPending
    <3>2. ~\E d \in D : Sim(d) = Sim(e) /\ Count(d) = lock[Sim(e)]
      BY <3>1, DeliveryDistinct
    <3> QED BY <3>1, <3>2, <1>4
  <2> QED BY <2>1, <2>2 DEF LockKeepsPending
<1> QED BY <1>2, <1>3, <1>5, WorkerMoveKeeps DEF Ended

LEMMA WorkerStepInStep ==
  ASSUME TypeOK, InStep, NEW w \in Workers, UNCHANGED apiVars, WorkerStep(w)
  PROVE  InStep'
<1>1. Live(w) \in SUBSET Delivery /\ \A d \in Live(w) : phase[d] \notin Ended
  BY DEF Live
<1>2. CASE Crash(w) \/ Exit(w)
  BY <1>1, <1>2, KillInStep DEF Crash, Exit
<1>3. CASE Close(w)
  BY <1>1, <1>3, KillInStep DEF Close
<1>4. CASE PoolBreaks(w)
  <2>1. msg' = msg /\ status' = status /\ source' = source /\ lock' = lock
    BY <1>4 DEF PoolBreaks, brokerVars, storeVars
  <2>2. OnlyCloses
    BY <2>1 DEF OnlyCloses
  <2>3. \A d \in Delivery : phase'[d] = phase[d] \/ (phase[d] = "solve" /\ phase'[d] \in {"nak", "fail"})
    BY <1>4 DEF PoolBreaks, Solving
  <2>4. LockKeepsPending'
    BY <2>1, <2>3 DEF InStep, LockKeepsPending
  <2> QED BY <2>2, <2>3, <2>4, WorkerMoveKeeps
<1>5. CASE Restart(w) \/ LoseLink(w) \/ RegainLink(w) \/ Shutdown(w)
  <2>1. msg' = msg /\ status' = status /\ source' = source /\ lock' = lock /\ phase' = phase
    BY <1>5 DEF Restart, LoseLink, RegainLink, Shutdown, brokerVars, storeVars, taskVars
  <2>2. OnlyCloses /\ LockKeepsPending'
    BY <2>1 DEF OnlyCloses, InStep, LockKeepsPending
  <2> QED BY <2>1, <2>2, WorkerMoveKeeps
<1> QED BY <1>2, <1>3, <1>4, <1>5 DEF WorkerStep

LEMMA DispatcherNextInStep ==
  ASSUME TypeOK, InStep, UNCHANGED apiVars, DispatcherNext
  PROVE  InStep'
BY TaskStepInStep, DeliverInStep, LapseInStep, WorkerStepInStep DEF DispatcherNext

-----------------------------------------------------------------------------
(***************************************************************************)
(* The steps of the API.  A request changes one simulation, and its row    *)
(* only while no worker holds it.                                          *)
(***************************************************************************)

OthersKept(s) ==
  \A r \in Sims \ {s} :
    /\ req'[r] = req[r] /\ del'[r] = del[r] /\ msg'[r] = msg[r]
    /\ status'[r] = status[r] /\ source'[r] = source[r]

LEMMA RequestKeeps ==
  ASSUME InStep, NEW s \in Sims, UNCHANGED taskVars, lock' = lock, OthersKept(s),
         status'[s] = status[s] \/ lock[s] = 0,
         Closed(s) => Closed(s)',
         msg'[s] = msg[s] \/ (msg[s] = "none" /\ msg'[s] = "ready"),
         RowFirst(s)', s \in FileSims => SourceFirst(s)'
  PROVE  InStep'
<1>1. phase' = phase /\ \A d \in Delivery : Sim(d) \in Sims
  BY DeliveryType DEF taskVars
<1>2. \A r \in Sims \ {s} : /\ RowFirst(r)' <=> RowFirst(r)
                            /\ SourceFirst(r)' <=> SourceFirst(r)
                            /\ Closed(r)' <=> Closed(r)
  BY DEF OthersKept, RowFirst, SourceFirst, Closed
<1>3. RowBeforeMessage' /\ SourceBeforeRow'
  BY <1>2, StoreAssumption DEF InStep, RowBeforeMessage, SourceBeforeRow
<1>4. \A r \in Sims : /\ Closed(r) => Closed(r)'
                      /\ msg[r] # "none" => msg'[r] # "none"
                      /\ msg'[r] = "acked" => msg[r] = "acked"
  BY <1>2 DEF OthersKept
<1>5. ClosedBeforeAck'
  BY <1>1, <1>4 DEF InStep, ClosedBeforeAck
<1>6. LockKeepsPending'
  BY <1>1 DEF InStep, LockKeepsPending, OthersKept
<1> QED BY <1>3, <1>5, <1>6 DEF InStep

\* What a request knows of its own simulation before a step of it.
LEMMA OwnRun ==
  ASSUME TypeOK, InStep, NEW s \in Sims
  PROVE  /\ RowFirst(s) /\ (s \in FileSims => SourceFirst(s))
         /\ lock[s] # 0 => status[s] = "PENDING"
         /\ status[s] \in Statuses
BY DEF TypeOK, StoreTypeOK, InStep, RowBeforeMessage, SourceBeforeRow, LockKeepsPending

\* The start of a simulation, up to its row.
LEMMA InsertInStep ==
  ASSUME TypeOK, InStep, NEW s \in Sims, UNCHANGED <<taskVars, workerVars>>,
         Submit(s) \/ UploadSource(s) \/ InsertRow(s) \/ UndoUpload(s) \/ LogCreated(s)
  PROVE  InStep'
<1> USE OwnRun DEF Start, Respond
<1>1. msg' = msg /\ lock' = lock /\ del' = del
  BY DEF Submit, UploadSource, InsertRow, UndoUpload, DropSource, LogCreated, brokerVars, storeVars, rowVars
<1>2. /\ \A r \in Sims \ {s} : req'[r] = req[r]
      /\ req' = [req EXCEPT ![s] = req'[s]]
  BY DEF Submit, UploadSource, InsertRow, UndoUpload, DropSource, LogCreated, TypeOK, ApiTypeOK
<1>3. CASE Submit(s) \/ LogCreated(s)
  <2>1. status' = status /\ source' = source
    BY <1>3 DEF Submit, LogCreated, storeVars
  <2>2. \/ req[s] = "none" /\ req'[s] \in {"upload", "refused"}
        \/ req[s] = "none" /\ req'[s] = "insert" /\ s \notin FileSims
        \/ req[s] = "log" /\ req'[s] = "publish"
    BY <1>3 DEF Submit, LogCreated, TypeOK, ApiTypeOK
  <2>3. RowFirst(s)' /\ (s \in FileSims => SourceFirst(s)')
    BY <1>1, <2>1, <2>2 DEF RowFirst, SourceFirst
  <2> QED BY <1>1, <1>2, <2>1, <2>3, RequestKeeps DEF OthersKept, Closed
<1>4. CASE UploadSource(s) \/ UndoUpload(s)
  <2>1. status' = status /\ \A r \in Sims \ {s} : source'[r] = source[r]
    BY <1>4 DEF UploadSource, UndoUpload, DropSource, rowVars, TypeOK, StoreTypeOK
  <2>2. \/ req[s] = "upload" /\ req'[s] = "insert" /\ source'[s]
        \/ req[s] \in {"upload", "undo"} /\ req'[s] = "refused"
    BY <1>4 DEF UploadSource, UndoUpload, DropSource, TypeOK, ApiTypeOK, StoreTypeOK
  <2>3. RowFirst(s)' /\ (s \in FileSims => SourceFirst(s)')
    BY <1>1, <2>1, <2>2 DEF RowFirst, SourceFirst
  <2> QED BY <1>1, <1>2, <2>1, <2>3, RequestKeeps DEF OthersKept, Closed
<1>5. CASE InsertRow(s)
  <2>1. source' = source /\ req[s] = "insert" /\ lock[s] = 0 /\ status[s] = "absent"
    BY <1>5 DEF InsertRow, objectVars, RowFirst
  <2>2. \/ req'[s] = "log" /\ status' = [status EXCEPT ![s] = "PENDING"]
        \/ req'[s] \in {"undo", "refused"} /\ status' = [status EXCEPT ![s] = "PENDING"]
        \/ req'[s] \in {"undo", "refused"} /\ status' = status
    BY <1>5 DEF InsertRow, TypeOK, ApiTypeOK
  <2>3. /\ \A r \in Sims \ {s} : status'[r] = status[r]
        /\ status'[s] = "PENDING" \/ (status'[s] = "absent" /\ req'[s] # "log")
    BY <2>1, <2>2 DEF TypeOK, StoreTypeOK
  <2>4. RowFirst(s)' /\ (s \in FileSims => SourceFirst(s)')
    BY <1>1, <2>1, <2>2, <2>3 DEF RowFirst, SourceFirst
  <2> QED BY <1>1, <1>2, <2>1, <2>3, <2>4, RequestKeeps DEF OthersKept, Closed
<1> QED BY <1>3, <1>4, <1>5

\* The publish, and what the request does when it raises.
LEMMA PublishInStep ==
  ASSUME TypeOK, InStep, NEW s \in Sims, UNCHANGED <<taskVars, workerVars>>,
         PublishRun(s) \/ MarkFailedToQueue(s) \/ ReportMark(s) \/ Unstore(s) \/ CrashStart(s)
  PROVE  InStep'
<1> USE OwnRun DEF Start, Respond, AfterMark
<1>1. lock' = lock /\ del' = del
  BY DEF PublishRun, MarkFailedToQueue, ReportMark, Unstore, DropSource, CrashStart, storeVars, rowVars, FailRow
<1>2. \A r \in Sims \ {s} : req'[r] = req[r]
  BY DEF PublishRun, MarkFailedToQueue, ReportMark, Unstore, DropSource, CrashStart, TypeOK, ApiTypeOK
<1>3. CASE PublishRun(s)
  <2>1. status' = status /\ source' = source /\ req[s] = "publish" /\ msg[s] = "none"
    BY <1>3 DEF PublishRun, storeVars, RowFirst
  <2>2. /\ \A r \in Sims \ {s} : msg'[r] = msg[r]
        /\ msg'[s] \in {"none", "ready"}
        /\ req'[s] \in {"accepted", "mark"}
    BY <1>3, <2>1 DEF PublishRun, Enqueue, brokerVars, TypeOK, BrokerTypeOK, ApiTypeOK
  <2>3. RowFirst(s)' /\ (s \in FileSims => SourceFirst(s)')
    BY <1>1, <2>1, <2>2 DEF RowFirst, SourceFirst, Closed
  <2> QED BY <1>1, <1>2, <2>1, <2>2, <2>3, RequestKeeps DEF OthersKept, Closed
<1>4. CASE MarkFailedToQueue(s)
  <2>1. msg' = msg /\ source' = source /\ req[s] = "mark" /\ status[s] # "absent"
    BY <1>4 DEF MarkFailedToQueue, brokerVars, objectVars, RowFirst
  <2>2. \/ ~RowExists(s) /\ status' = status /\ req'[s] \in {"unstore", "failed"}
        \/ lock[s] = 0 /\ status' = [status EXCEPT ![s] = "FAILED"] /\ req'[s] \in {"report_mark", "failed"}
        \/ status' = status /\ req'[s] = "failed"
    BY <1>4 DEF MarkFailedToQueue, rowVars, RowFree, FailRow, TypeOK, ApiTypeOK
  <2>3. /\ \A r \in Sims \ {s} : status'[r] = status[r]
        /\ status'[s] = status[s] \/ (lock[s] = 0 /\ status'[s] = "FAILED" /\ RowExists(s))
        /\ req'[s] \in {"unstore", "report_mark"} => Closed(s)'
    BY <1>4, <2>1, <2>2 DEF MarkFailedToQueue, rowVars, TypeOK, StoreTypeOK, RowExists, Closed, Statuses
  <2>4. RowFirst(s)' /\ (s \in FileSims => SourceFirst(s)')
    BY <1>1, <2>1, <2>2, <2>3 DEF RowFirst, SourceFirst, RowExists
  <2> QED BY <1>1, <1>2, <2>1, <2>3, <2>4, RequestKeeps DEF OthersKept, Closed
<1>5. CASE ReportMark(s) \/ Unstore(s) \/ CrashStart(s)
  <2>1. msg' = msg /\ status' = status /\ \A r \in Sims \ {s} : source'[r] = source[r]
    BY <1>5 DEF ReportMark, Unstore, DropSource, CrashStart, brokerVars, storeVars, rowVars, objectVars,
                TypeOK, StoreTypeOK
  <2>2. \/ req[s] = "report_mark" /\ req'[s] \in {"unstore", "failed"} /\ source' = source
        \/ req[s] = "unstore" /\ req'[s] = "failed"
        \/ req'[s] = "dead" /\ source' = source
    BY <1>5 DEF ReportMark, Unstore, DropSource, CrashStart, storeVars, objectVars, TypeOK, ApiTypeOK
  <2>3. RowFirst(s)' /\ (s \in FileSims => SourceFirst(s)')
    BY <1>1, <2>1, <2>2 DEF RowFirst, SourceFirst, Closed
  <2> QED BY <1>1, <1>2, <2>1, <2>3, RequestKeeps DEF OthersKept, Closed
<1> QED BY <1>3, <1>4, <1>5

\* The delete of a simulation: objects only after the row.
LEMMA DeleteInStep ==
  ASSUME TypeOK, InStep, NEW s \in Sims, UNCHANGED <<taskVars, workerVars>>,
         ReadForDelete(s) \/ DeleteStep(s) \/ CrashDelete(s)
  PROVE  InStep'
<1> USE OwnRun DEF Delete
<1>1. msg' = msg /\ lock' = lock /\ req' = req
  BY DEF ReadForDelete, DeleteStep, DeleteRow, DeleteFile, DeleteResult, CrashDelete, brokerVars, storeVars, rowVars
<1>2. \A r \in Sims \ {s} : del'[r] = del[r]
  BY DEF ReadForDelete, DeleteStep, DeleteRow, DeleteFile, DeleteResult, CrashDelete, TypeOK, ApiTypeOK
<1>3. CASE DeleteRow(s)
  <2>1. source' = source /\ \A r \in Sims \ {s} : status'[r] = status[r]
    BY <1>3 DEF DeleteRow, objectVars, TypeOK, StoreTypeOK
  <2>2. \/ lock[s] = 0 /\ status[s] # "absent" /\ status'[s] = "gone"
        \/ status' = status /\ del[s] = "row" /\ del'[s] = "done"
    BY <1>3 DEF DeleteRow, RowFree, RowFirst, TypeOK, StoreTypeOK, ApiTypeOK
  <2>3. CASE status' = status /\ del[s] = "row" /\ del'[s] = "done"
    <3>1. RowFirst(s)' /\ (s \in FileSims => SourceFirst(s)')
      BY <1>1, <2>1, <2>3 DEF RowFirst, SourceFirst, Closed
    <3> QED BY <1>1, <1>2, <2>1, <2>3, <3>1, RequestKeeps DEF OthersKept, Closed
  <2>4. CASE lock[s] = 0 /\ status[s] # "absent" /\ status'[s] = "gone"
    <3>1. RowFirst(s)' /\ (s \in FileSims => SourceFirst(s)')
      BY <1>1, <2>1, <2>4 DEF RowFirst, SourceFirst, Closed
    <3> QED BY <1>1, <1>2, <2>1, <2>4, <3>1, RequestKeeps DEF OthersKept, Closed
  <2> QED BY <2>2, <2>3, <2>4
<1>4. CASE ReadForDelete(s) \/ DeleteFile(s) \/ DeleteResult(s) \/ CrashDelete(s)
  <2>1. status' = status /\ \A r \in Sims \ {s} : source'[r] = source[r]
    BY <1>4 DEF ReadForDelete, DeleteFile, DeleteResult, CrashDelete, storeVars, rowVars, TypeOK, StoreTypeOK
  <2>2. /\ status[s] # "absent"
        /\ \/ source' = source /\ del'[s] \notin {"file", "result"}
           \/ status[s] = "gone"
    BY <1>4 DEF ReadForDelete, DeleteFile, DeleteResult, CrashDelete, storeVars, RowFirst, RowExists,
                TypeOK, ApiTypeOK
  <2>3. RowFirst(s)' /\ (s \in FileSims => SourceFirst(s)')
    BY <1>1, <2>1, <2>2 DEF RowFirst, SourceFirst, Closed
  <2> QED BY <1>1, <1>2, <2>1, <2>3, RequestKeeps DEF OthersKept, Closed
<1> QED BY <1>3, <1>4 DEF DeleteStep

-----------------------------------------------------------------------------
LEMMA NextInStep ==
  ASSUME TypeOK, InStep, [Next]_vars
  PROVE  InStep'
<1>1. CASE DispatcherNext /\ UNCHANGED apiVars
  BY <1>1, DispatcherNextInStep
<1>2. CASE ApiNext /\ UNCHANGED <<taskVars, workerVars>>
  BY <1>2, InsertInStep, PublishInStep, DeleteInStep DEF ApiNext, StartStep
<1>3. CASE UNCHANGED vars
  BY <1>3 DEF vars, brokerVars, storeVars, taskVars, apiVars, InStep, RowBeforeMessage, RowFirst,
              ClosedBeforeAck, LockKeepsPending, SourceBeforeRow, SourceFirst, Closed
<1> QED BY <1>1, <1>2, <1>3 DEF Next, Rest

\* Rows, messages, tasks and files stay in step under every fault.
THEOREM InStepHolds == Spec => []InStep
<1>1. Init => InStep
  BY InitInStep
<1>2. TypeOK /\ InStep /\ [Next]_vars => InStep'
  BY NextInStep
<1> QED BY <1>1, <1>2, TypeCorrect, PTL DEF Spec

\* No path of _handle_message acks a message whose run is still PENDING, for
\* any number of deliveries, workers and faults of any kind.
THEOREM AckedRunsAreSettled == Spec => []AckedIsSettled
<1>1. InStep => AckedIsSettled
  BY DEF InStep, ClosedBeforeAck, AckedIsSettled, Closed
<1> QED BY <1>1, InStepHolds, PTL

\* No cleanup of a worker, a failed publish or a delete takes the file of a
\* published run that is still PENDING.
THEOREM SourceOutlivesPending == Spec => []SourceKeptWhilePending
<1>1. InStep => SourceKeptWhilePending
  BY DEF InStep, SourceBeforeRow, SourceFirst, SourceKeptWhilePending
<1> QED BY <1>1, InStepHolds, PTL
=============================================================================
