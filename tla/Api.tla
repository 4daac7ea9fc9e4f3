-------------------------------- MODULE Api --------------------------------
(***************************************************************************)
(* The requests of api/simulation/service.py that change state: starting a *)
(* simulation, from an uploaded file or from CRM readings, and deleting    *)
(* one.  The requests that only read are not modelled here.                *)
(*                                                                         *)
(* Each simulation has one request that starts it and at most one that     *)
(* deletes it; a request's phase is the await it is at.                    *)
(***************************************************************************)
EXTENDS Store, Faults

CONSTANT Deletable   \* the simulations a user may delete

ASSUME ApiAssumption == Deletable \subseteq Sims

VARIABLES
  req,      \* req[s]: the phase of the request that starts s
  staged,   \* the simulations whose CREATED entry waits in the request's own
            \* CRM session
  del,      \* del[s]: the phase of the request that deletes s
  seen      \* seen[s]: the result the row named when that request read it

apiVars == <<req, staged, del, seen>>

StartEnded == {"accepted", "refused", "failed", "dead"}
StartPhases == {"none", "upload", "insert", "undo", "log", "publish",
                "mark", "report_mark", "unstore"} \union StartEnded
DeletePhases == {"none", "row", "file", "result", "done"}

ApiTypeOK ==
  /\ req \in [Sims -> StartPhases]
  /\ staged \in SUBSET Sims
  /\ del \in [Sims -> DeletePhases]
  /\ seen \in [Sims -> 0..MaxDeliver]

ApiInit ==
  /\ req = [s \in Sims |-> "none"]
  /\ staged = {}
  /\ del = [s \in Sims |-> "none"]
  /\ seen = [s \in Sims |-> 0]

-----------------------------------------------------------------------------
(***************************************************************************)
(* start_simulation and start_simulation_from_crm.                         *)
(***************************************************************************)

Start(s, p) ==
  /\ req' = [req EXCEPT ![s] = p]
  /\ UNCHANGED <<staged, del, seen>>

\* The request ends.  get_crm_session closes its session without a commit, so
\* an entry still staged on it is rolled back.
Respond(s, p) ==
  /\ req' = [req EXCEPT ![s] = p]
  /\ staged' = staged \ {s}
  /\ UNCHANGED <<del, seen>>

\* The checks: the key exists, the file is not empty and not too large, the
\* CRM pre-flight has no blocker.
Submit(s) ==
  /\ req[s] = "none"
  /\ \/ Start(s, IF s \in FileSims THEN "upload" ELSE "insert")
     \/ Respond(s, "refused")
  /\ NoFault
  /\ UNCHANGED <<brokerVars, storeVars>>

\* An upload that raises may have stored the object all the same.
UploadSource(s) ==
  /\ req[s] = "upload"
  /\ \/ /\ source' = [source EXCEPT ![s] = TRUE]
        /\ Start(s, "insert") /\ NoFault
     \/ /\ \E kept \in BOOLEAN : source' = [source EXCEPT ![s] = kept]
        /\ Respond(s, "refused") /\ Fails("storage")
  /\ UNCHANGED <<brokerVars, rowVars, result, audit>>

\* create_simulation and the commit.  On an error the uploaded file is deleted
\* again, whether or not the row was committed.
InsertRow(s) ==
  /\ req[s] = "insert"
  /\ LET raised == IF s \in FileSims THEN Start(s, "undo") ELSE Respond(s, "refused")
     IN \/ /\ status' = [status EXCEPT ![s] = "PENDING"]
           /\ \/ Start(s, "log") /\ NoFault
              \/ raised /\ Fails("commit_lost")
        \/ raised /\ Fails("local_db") /\ UNCHANGED status
  /\ UNCHANGED <<brokerVars, error, totals, lock, objectVars, audit>>

\* _best_effort_delete of the uploaded file, then the response.
DropSource(s, from, to) ==
  /\ req[s] = from
  /\ \/ source' = [source EXCEPT ![s] = FALSE] /\ NoFault
     \/ UNCHANGED source /\ Fails("delete_lost")
  /\ Respond(s, to)
  /\ UNCHANGED <<brokerVars, rowVars, result, audit>>

UndoUpload(s) == DropSource(s, "undo", "refused")

\* audit_log_service.log stages the entry on the request's CRM session.
LogCreated(s) ==
  /\ req[s] = "log"
  /\ req' = [req EXCEPT ![s] = "publish"]
  /\ staged' = staged \union {s}
  /\ NoFault
  /\ UNCHANGED <<del, seen, brokerVars, storeVars>>

\* send_event.  It also raises when the broker stored the message and its
\* answer is late or lost.
PublishRun(s) ==
  /\ req[s] = "publish"
  /\ \/ Enqueue(s) /\ Respond(s, "accepted") /\ NoFault
     \/ Enqueue(s) /\ Start(s, "mark") /\ Fails("publish_lost")
     \/ UNCHANGED brokerVars /\ Start(s, "mark") /\ Fails("publish")
  /\ UNCHANGED storeVars

\* After _mark_failed_to_queue: the uploaded file is deleted.
AfterMark(s) == IF s \in FileSims THEN Start(s, "unstore") ELSE Respond(s, "failed")

\* _mark_failed_to_queue writes the row whatever its status has become.
MarkFailedToQueue(s) ==
  /\ req[s] = "mark"
  /\ \/ /\ ~RowExists(s)
        /\ AfterMark(s)
        /\ NoFault /\ UNCHANGED rowVars
     \/ /\ RowExists(s) /\ RowFree(s)
        /\ FailRow(s, "queue")
        /\ \/ Start(s, "report_mark") /\ NoFault
           \/ Respond(s, "failed") /\ Fails("commit_lost")
     \/ /\ Respond(s, "failed")
        /\ Fails("local_db") /\ UNCHANGED rowVars
  /\ UNCHANGED <<brokerVars, objectVars, audit>>

ReportMark(s) ==
  /\ req[s] = "report_mark"
  /\ \/ /\ Record(s, "QUEUE_FAILED")
        /\ AfterMark(s) /\ NoFault
     \/ /\ AfterMark(s) \/ Respond(s, "failed")
        /\ Fails("crm") /\ UNCHANGED audit
  /\ UNCHANGED <<brokerVars, rowVars, objectVars>>

Unstore(s) == DropSource(s, "unstore", "failed")

CrashStart(s) ==
  /\ req[s] \notin StartEnded \union {"none"}
  /\ Respond(s, "dead")
  /\ Fails("api_crash")
  /\ UNCHANGED <<brokerVars, storeVars>>

-----------------------------------------------------------------------------
(***************************************************************************)
(* delete_simulation.                                                      *)
(***************************************************************************)

Delete(s, p) ==
  /\ del' = [del EXCEPT ![s] = p]
  /\ UNCHANGED <<req, staged, seen>>

\* The row is read, and with it the keys of the objects to delete.
ReadForDelete(s) ==
  /\ s \in Deletable /\ del[s] = "none" /\ RowExists(s)
  /\ del' = [del EXCEPT ![s] = "row"]
  /\ seen' = [seen EXCEPT ![s] = totals[s]]
  /\ NoFault
  /\ UNCHANGED <<req, staged, brokerVars, storeVars>>

\* The DELETE, which takes the result tree with it, and its commit.
DeleteRow(s) ==
  /\ del[s] = "row"
  /\ \/ /\ RowFree(s)
        /\ status' = [status EXCEPT ![s] = "gone"]
        /\ error' = [error EXCEPT ![s] = "none"]
        /\ totals' = [totals EXCEPT ![s] = 0]
        /\ \/ Delete(s, "file") /\ NoFault
           \/ Delete(s, "done") /\ Fails("commit_lost")
     \/ /\ Delete(s, "done") /\ Fails("local_db")
        /\ UNCHANGED <<status, error, totals>>
  /\ UNCHANGED <<lock, brokerVars, objectVars, audit>>

\* The uploaded file; a CRM simulation has none.  The DELETED entry that ends
\* the request is staged and dropped like CREATED.
DeleteFile(s) ==
  /\ del[s] = "file"
  /\ \/ source' = [source EXCEPT ![s] = FALSE] /\ NoFault
     \/ UNCHANGED source /\ Fails("delete_lost")
  /\ Delete(s, IF seen[s] # 0 THEN "result" ELSE "done")
  /\ UNCHANGED <<brokerVars, rowVars, result, audit>>

DeleteResult(s) ==
  /\ del[s] = "result"
  /\ \/ result' = [result EXCEPT ![s] = 0] /\ NoFault
     \/ UNCHANGED result /\ Fails("delete_lost")
  /\ Delete(s, "done")
  /\ UNCHANGED <<brokerVars, rowVars, source, audit>>

CrashDelete(s) ==
  /\ del[s] \notin {"none", "done"}
  /\ Delete(s, "done")
  /\ Fails("api_crash")
  /\ UNCHANGED <<brokerVars, storeVars>>

StartStep(s) ==
  \/ Submit(s) \/ UploadSource(s) \/ InsertRow(s) \/ UndoUpload(s)
  \/ LogCreated(s) \/ PublishRun(s)
  \/ MarkFailedToQueue(s) \/ ReportMark(s) \/ Unstore(s)

DeleteStep(s) ==
  \/ DeleteRow(s) \/ DeleteFile(s) \/ DeleteResult(s)

ApiNext ==
  \E s \in Sims :
    \/ StartStep(s) \/ CrashStart(s)
    \/ ReadForDelete(s) \/ DeleteStep(s) \/ CrashDelete(s)
=============================================================================
