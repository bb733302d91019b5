----------------------------- MODULE ReceiptJob -----------------------------
(***************************************************************************)
(* What one receipt-parsing task promises to whoever polls it: the life of *)
(* a single row of processing_tasks as GET /tasks/{id} and GET /receipts   *)
(* show it.  It says nothing of the worker, of Ollama or of the clock.     *)
(* TaskWorker and ReceiptIntake are shown to implement it, task by task.   *)
(***************************************************************************)
EXTENDS Naturals

CONSTANT MaxRetries      \* settings.task_max_retry_count

VARIABLES status,        \* TaskStatus, or "absent" before the row exists
          retries,       \* retry_count
          error          \* what error_message says, or "none"

jobVars == <<status, retries, error>>

Errors == {"validation", "unexpected", "connection_lost", "retry_limit"}

Settled == status \in {"completed", "failed"}

JobInit == status = "absent" /\ retries = 0 /\ error = "none"

Accept ==
  /\ status = "absent"
  /\ status' = "pending"
  /\ UNCHANGED <<retries, error>>

Start ==
  /\ status = "pending"
  /\ status' = "processing"
  /\ UNCHANGED <<retries, error>>

\* Ollama went away: the task waits for it and the attempt costs nothing.
PutBack ==
  /\ status = "processing"
  /\ status' = "pending"
  /\ UNCHANGED <<retries, error>>

\* The worker went away: the attempt is charged to the task.
Retry ==
  /\ status = "processing"
  /\ retries < MaxRetries
  /\ status' = "pending"
  /\ retries' = retries + 1
  /\ UNCHANGED error

Complete ==
  /\ status = "processing"
  /\ status' = "completed"
  /\ UNCHANGED <<retries, error>>

Reject(e) ==
  /\ status = "processing"
  /\ e = "retry_limit" => retries = MaxRetries
  /\ status' = "failed"
  /\ error' = e
  /\ UNCHANGED retries

JobNext == Accept \/ Start \/ PutBack \/ Retry \/ Complete \/ \E e \in Errors : Reject(e)

JobSpec == JobInit /\ [][JobNext]_jobVars
=============================================================================
