------------------------------- MODULE Store -------------------------------
(***************************************************************************)
(* What the API and the workers share besides the queue: the simulation    *)
(* rows of the local database, the objects in storage, and the audit log   *)
(* kept in the CRM database.                                               *)
(*                                                                         *)
(* A successful run is stored twice: its totals as rows of the local       *)
(* database, its per-timestep series as one object under a deterministic   *)
(* key.  Each delivery of a simulation's message computes its own result   *)
(* (the key and the CRM readings may change in between), so both are named *)
(* by the delivery that produced them; 0 stands for none.                  *)
(***************************************************************************)
EXTENDS Broker, Sequences

CONSTANT FileSims   \* the simulations whose input is an uploaded file

ASSUME StoreAssumption == FileSims \subseteq Sims

VARIABLES
  status,   \* status[s]: the row's status, "absent" before it is committed
            \* and "gone" after it is deleted
  error,    \* error[s]: what the row's error_message says
  totals,   \* totals[s]: the run behind the row's totals; result_storage_key
            \* is set exactly when it is not 0
  lock,     \* lock[s]: the delivery whose open transaction updated the row
  source,   \* source[s]: the uploaded file is in storage
  result,   \* result[s]: the run whose series are in storage
  audit     \* audit[s]: the committed audit-log entries, in order

rowVars == <<status, error, totals, lock>>
objectVars == <<source, result>>
storeVars == <<status, error, totals, lock, source, result, audit>>

Statuses == {"absent", "PENDING", "SUCCESS", "FAILED", "gone"}
Errors == {"none", "rejected", "missing", "limit", "crashed", "unhandled",
           "not_submitted", "queue"}
AuditActions == {"CREATED", "SUCCEEDED", "FAILED", "QUEUE_FAILED"}

StoreTypeOK ==
  /\ status \in [Sims -> Statuses]
  /\ error \in [Sims -> Errors]
  /\ totals \in [Sims -> 0..MaxDeliver]
  /\ lock \in [Sims -> 0..MaxDeliver]
  /\ source \in [Sims -> BOOLEAN]
  /\ result \in [Sims -> 0..MaxDeliver]
  /\ audit \in [Sims -> Seq(AuditActions)]

StoreInit ==
  /\ status = [s \in Sims |-> "absent"]
  /\ error = [s \in Sims |-> "none"]
  /\ totals = [s \in Sims |-> 0]
  /\ lock = [s \in Sims |-> 0]
  /\ source = [s \in Sims |-> FALSE]
  /\ result = [s \in Sims |-> 0]
  /\ audit = [s \in Sims |-> <<>>]

RowExists(s) == status[s] \in {"PENDING", "SUCCESS", "FAILED"}

\* A write to a row waits while another transaction holds its lock.
RowFree(s) == lock[s] = 0

\* A mistaken one, its two values swapped.
FailRowSwapped(s, reason) ==
  /\ status' = [status EXCEPT ![s] = reason]
  /\ error' = [error EXCEPT ![s] = "FAILED"]
  /\ UNCHANGED <<totals, lock>>

\* status = FAILED with this error message, committed; what else the row
\* holds is left alone.
FailRow(s, reason) ==
  /\ status' = [status EXCEPT ![s] = "FAILED"]
  /\ error' = [error EXCEPT ![s] = reason]
  /\ UNCHANGED <<totals, lock>>

\* The claim committed with the result: status, key, totals in one commit.
SucceedRow(s, run) ==
  /\ status' = [status EXCEPT ![s] = "SUCCESS"]
  /\ error' = [error EXCEPT ![s] = "none"]
  /\ totals' = [totals EXCEPT ![s] = run]
  /\ lock' = [lock EXCEPT ![s] = 0]

UnlockRow(s) ==
  /\ lock' = [lock EXCEPT ![s] = 0]
  /\ UNCHANGED <<status, error, totals>>

Record(s, action) == audit' = [audit EXCEPT ![s] = Append(@, action)]
=============================================================================
