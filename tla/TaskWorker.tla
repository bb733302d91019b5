----------------------------- MODULE TaskWorker -----------------------------
(***************************************************************************)
(* The background worker of the FastAPI process                            *)
(* (src/src/services/task_worker.py): one asyncio task that every poll     *)
(* interval recovers stale tasks, asks Ollama whether it is there, lists   *)
(* the pending receipt_parse tasks and parses them one after the other.    *)
(* Its state is partly in the table processing_tasks, which survives the   *)
(* process, and partly in local variables, which do not.                   *)
(*                                                                         *)
(* A commit is one atomic write of the database or an exception.  After a  *)
(* failed flush SQLAlchemy wants a rollback that no handler of this module *)
(* performs, so the handler's own commit raises too and the whole          *)
(* iteration is given up, the task being left as the database has it.      *)
(***************************************************************************)
EXTENDS Naturals

CONSTANTS Tasks,       \* the receipts that may be submitted
          Slow,        \* those whose inference exceeds the read timeout
          NoTask,
          Instants,    \* values of created_at, which has a resolution of 1s
          Timeout,     \* task_processing_timeout_seconds, in ticks
          MaxRetries,  \* settings.task_max_retry_count
          MaxAttempts, \* OllamaClient.MAX_RETRIES + 1
          MaxFaults    \* bound: stops, failed commits and Ollama outages

ASSUME WorkerAssumption ==
  /\ Slow \subseteq Tasks
  /\ NoTask \notin Tasks
  /\ Instants \subseteq Nat
  /\ Timeout \in Nat
  /\ MaxRetries \in Nat
  /\ MaxAttempts \in Nat \ {0}
  /\ MaxFaults \in Nat

VARIABLES
  status,   \* processing_tasks: status, "absent" before the row exists
  age,      \* ticks since processing_started_at, capped once it is stale
  retries,  \* retry_count
  error,    \* what error_message says, "none" when it is null
  created,  \* created_at
  pc,       \* where the worker is, "down" when the process does not run
  batch,    \* the tasks of pending_tasks the for loop has still to visit
  cur,      \* the task process_receipt_task works on
  attempt,  \* validation failures so far in OllamaClient.complete
  ollama,   \* is the Ollama service up?
  faults,   \* faults so far, up to MaxFaults
  lost      \* history: how often the worker left a task without a verdict

rows   == <<status, age, retries, error, created>>
locals == <<pc, batch, cur, attempt>>
vars   == <<rows, locals, ollama, faults, lost>>

Statuses  == {"absent", "pending", "processing", "completed", "failed"}
Errors    == {"none", "validation", "unexpected", "connection_lost", "retry_limit"}
StaleAge  == Timeout + 1
NotYet    == StaleAge + 1     \* processing_started_at is null
Pending   == {t \in Tasks : status[t] = "pending"}

\* Mutant: the query forgets the status and relies on processing_started_at.
StaleAnyStatus == {t \in Tasks : age[t] = StaleAge}

Stale     == {t \in Tasks : status[t] = "processing" /\ age[t] = StaleAge}
Submitted == {t \in Tasks : status[t] # "absent"}

Fault == faults < MaxFaults /\ faults' = faults + 1

Init ==
  /\ status  = [t \in Tasks |-> "absent"]
  /\ age     = [t \in Tasks |-> NotYet]
  /\ retries = [t \in Tasks |-> 0]
  /\ error   = [t \in Tasks |-> "none"]
  /\ created = [t \in Tasks |-> 0]
  /\ pc = "idle" /\ batch = {} /\ cur = NoTask /\ attempt = 0
  /\ ollama = "up"
  /\ faults = 0
  /\ lost = [t \in Tasks |-> 0]

-----------------------------------------------------------------------------
(* The API and the surroundings.                                           *)

\* submit_receipt inserts the row; created_at never goes back but may repeat.
Submit(t) ==
  /\ pc # "down"
  /\ status[t] = "absent"
  /\ status' = [status EXCEPT ![t] = "pending"]
  /\ \E now \in Instants :
       /\ \A u \in Submitted : created[u] <= now
       /\ created' = [created EXCEPT ![t] = now]
  /\ UNCHANGED <<age, retries, error, locals, ollama, faults, lost>>

Tick ==
  /\ age' = [t \in Tasks |-> IF status[t] = "processing" /\ age[t] < StaleAge
                             THEN age[t] + 1 ELSE age[t]]
  /\ age' # age
  /\ UNCHANGED <<status, retries, error, created, locals, ollama, faults, lost>>

OllamaDown ==
  /\ ollama = "up"
  /\ ollama' = "down"
  /\ Fault
  /\ UNCHANGED <<rows, locals, lost>>

OllamaUp ==
  /\ ollama = "down"
  /\ ollama' = "up"
  /\ UNCHANGED <<rows, locals, faults, lost>>

-----------------------------------------------------------------------------
(* One iteration of process_pending_tasks.                                 *)

ToSleep == pc' = "idle" /\ batch' = {} /\ cur' = NoTask /\ attempt' = 0

\* The in-flight task, if there is one, stays "processing" with no verdict.
LoseCurrent ==
  lost' = IF pc = "calling" THEN [lost EXCEPT ![cur] = @ + 1] ELSE lost

\* Each of the tasks S is retried, or given up if it has no retry left.
RecoverAll(S, limit) ==
  /\ status'  = [t \in Tasks |-> IF t \notin S THEN status[t]
                                 ELSE IF retries[t] >= limit THEN "failed"
                                 ELSE "pending"]
  /\ error'   = [t \in Tasks |-> IF t \in S /\ retries[t] >= limit
                                 THEN "retry_limit" ELSE error[t]]
  /\ age'     = [t \in Tasks |-> IF t \in S /\ retries[t] < limit
                                 THEN NotYet ELSE age[t]]
  /\ retries' = [t \in Tasks |-> IF t \in S /\ retries[t] < limit
                                 THEN retries[t] + 1 ELSE retries[t]]
  /\ UNCHANGED <<created, batch, cur, attempt, ollama, faults, lost>>

\* Mutant: the recovery is a periodic job of its own.
RecoverStaleAlongside ==
  /\ pc # "down"
  /\ RecoverAll(Stale, MaxRetries)
  /\ pc' = IF pc = "idle" THEN "recovered" ELSE pc

\* Mutant: one retry too few.
RecoverStaleEarly ==
  /\ pc = "idle"
  /\ RecoverAll(Stale, MaxRetries - 1)
  /\ pc' = "recovered"

\* Mutant: the availability check comes before the recovery.
RecoverStaleIfUp ==
  /\ pc = "idle"
  /\ RecoverAll(IF ollama = "up" THEN Stale ELSE {}, MaxRetries)
  /\ pc' = "recovered"

\* recover_stale_tasks, one commit for all stale tasks.
RecoverStale ==
  /\ pc = "idle"
  /\ RecoverAll(Stale, MaxRetries)
  /\ pc' = "recovered"

\* is_available: GET /api/tags
CheckOllama ==
  /\ pc = "recovered"
  /\ pc' = IF ollama = "up" THEN "listing" ELSE "idle"
  /\ UNCHANGED <<rows, batch, cur, attempt, ollama, faults, lost>>

\* The list is read once: what is submitted later waits for the next poll.
ListPending ==
  /\ pc = "listing"
  /\ batch' = Pending
  /\ pc' = IF Pending = {} THEN "idle" ELSE "next"
  /\ UNCHANGED <<rows, cur, attempt, ollama, faults, lost>>

\* Mutant: the list is in no particular order.
TakeNextUnordered(t) ==
  /\ pc = "next"
  /\ t \in batch
  /\ status' = [status EXCEPT ![t] = "processing"]
  /\ age' = [age EXCEPT ![t] = 0]
  /\ batch' = batch \ {t}
  /\ cur' = t
  /\ pc' = "calling"
  /\ UNCHANGED <<retries, error, created, attempt, ollama, faults, lost>>

\* ORDER BY created_at leaves the order of equal instants open.
TakeNext(t) ==
  /\ pc = "next"
  /\ t \in batch
  /\ \A u \in batch : created[t] <= created[u]
  /\ status' = [status EXCEPT ![t] = "processing"]
  /\ age' = [age EXCEPT ![t] = 0]
  /\ batch' = batch \ {t}
  /\ cur' = t
  /\ pc' = "calling"
  /\ UNCHANGED <<retries, error, created, attempt, ollama, faults, lost>>

\* The verdict on the task is committed and the loop goes on.
Settle(verdict) ==
  /\ status' = [status EXCEPT ![cur] = verdict]
  /\ cur' = NoTask
  /\ attempt' = 0
  /\ pc' = IF batch = {} THEN "idle" ELSE "next"
  /\ UNCHANGED <<age, retries, created, batch, ollama, faults, lost>>

Fail(e) ==
  /\ Settle("failed")
  /\ error' = [error EXCEPT ![cur] = e]

Answers == pc = "calling" /\ ollama = "up" /\ cur \notin Slow

ValidReply == Answers /\ Settle("completed") /\ UNCHANGED error

\* Mutant: one attempt too many.
InvalidReplyOnceMore ==
  /\ Answers
  /\ attempt < MaxAttempts
  /\ attempt' = attempt + 1
  /\ UNCHANGED <<rows, pc, batch, cur, ollama, faults, lost>>

\* The reply does not fit ReceiptParseResult and is asked for once more.
InvalidReply ==
  /\ Answers
  /\ attempt + 1 < MaxAttempts
  /\ attempt' = attempt + 1
  /\ UNCHANGED <<rows, pc, batch, cur, ollama, faults, lost>>

\* LLMResponseError
LastInvalidReply ==
  /\ Answers
  /\ attempt + 1 = MaxAttempts
  /\ Fail("validation")

\* Mutant: "continue" where the code has "break".
UnavailableContinues ==
  /\ pc = "calling"
  /\ ollama = "down" \/ cur \in Slow
  /\ Settle("pending")
  /\ UNCHANGED error

\* Mutant: an outage is charged to the task.
UnavailableCharged ==
  /\ pc = "calling"
  /\ ollama = "down" \/ cur \in Slow
  /\ status' = [status EXCEPT ![cur] = "pending"]
  /\ age' = [age EXCEPT ![cur] = NotYet]
  /\ retries' = [retries EXCEPT ![cur] = IF @ < MaxRetries THEN @ + 1 ELSE @]
  /\ ToSleep
  /\ UNCHANGED <<error, created, ollama, faults, lost>>

\* LLMUnavailableError: the task is put back, what is left of the batch skipped.
Unavailable ==
  /\ pc = "calling"
  /\ ollama = "down" \/ cur \in Slow
  /\ status' = [status EXCEPT ![cur] = "pending"]
  /\ age' = [age EXCEPT ![cur] = NotYet]
  /\ ToSleep
  /\ UNCHANGED <<retries, error, created, ollama, faults, lost>>

\* The connection breaks during the reply (httpx.ReadError): no clause of
\* complete catches that, so it is an unexpected error like any other.
ConnectionLost ==
  /\ pc = "calling"
  /\ ollama = "down"
  /\ Fail("connection_lost")

\* An input the sanitizer rejects, two stores of that name, a body that is
\* not JSON.
Unexpected ==
  /\ pc = "calling"
  /\ Fail("unexpected")

\* A commit of the iteration fails: mark, verdict, put back or recovery.
CommitFails ==
  /\ \/ pc \in {"next", "calling"}
     \/ pc = "idle" /\ Stale # {}
  /\ Fault
  /\ LoseCurrent
  /\ ToSleep
  /\ UNCHANGED <<rows, ollama>>

-----------------------------------------------------------------------------
(* The process.                                                            *)

\* A crash, or the cancellation of a clean shutdown, which does the same.
Stop ==
  /\ pc # "down"
  /\ Fault
  /\ LoseCurrent
  /\ pc' = "down" /\ batch' = {} /\ cur' = NoTask /\ attempt' = 0
  /\ UNCHANGED <<rows, ollama>>

Restart ==
  /\ pc = "down"
  /\ pc' = "idle"
  /\ UNCHANGED <<rows, batch, cur, attempt, ollama, faults, lost>>

Worker ==
  \/ RecoverStale
  \/ CheckOllama
  \/ ListPending
  \/ \E t \in Tasks : TakeNext(t)
  \/ ValidReply
  \/ InvalidReply
  \/ LastInvalidReply
  \/ Unavailable
  \/ ConnectionLost
  \/ Unexpected

Next ==
  \/ \E t \in Tasks : Submit(t)
  \/ Tick
  \/ OllamaDown
  \/ OllamaUp
  \/ Worker
  \/ CommitFails
  \/ Stop
  \/ Restart

Spec == Init /\ [][Next]_vars

\* The event loop runs the worker, the container is restarted, time passes.
Fairness == WF_vars(Worker) /\ WF_vars(Restart) /\ WF_vars(Tick)

FairSpec == Spec /\ Fairness
-----------------------------------------------------------------------------
(* Properties.                                                             *)

TypeOK ==
  /\ status \in [Tasks -> Statuses]
  /\ age \in [Tasks -> 0..NotYet]
  /\ retries \in [Tasks -> 0..MaxRetries]
  /\ error \in [Tasks -> Errors]
  /\ created \in [Tasks -> Nat]
  /\ pc \in {"down", "idle", "recovered", "listing", "next", "calling"}
  /\ batch \in SUBSET Tasks
  /\ cur \in Tasks \cup {NoTask}
  /\ attempt \in 0..(MaxAttempts - 1)
  /\ ollama \in {"up", "down"}
  /\ faults \in 0..MaxFaults
  /\ lost \in [Tasks -> Nat]

InFlight(t) == pc = "calling" /\ cur = t
Orphan(t)   == status[t] = "processing" /\ ~InFlight(t)

\* The list of an iteration is a snapshot, yet it never goes stale: whatever
\* the API, the clock and the recovery do, the task being parsed is still the
\* worker's ("processing" in the table, even once it is older than the
\* timeout) and those still to be visited are still pending.
SnapshotHolds ==
  /\ pc = "calling" => cur \in Tasks /\ status[cur] = "processing" /\ cur \notin batch
  /\ \A t \in batch : status[t] = "pending"

\* Receipts are parsed oldest first: while one is with Ollama none that was
\* created before it is waiting, through stops, put-backs and recoveries.
OldestFirst ==
  pc = "calling" =>
    \A t \in Tasks : status[t] = "pending" => created[cur] <= created[t]

\* retry_count counts exactly the times the worker went away over a task:
\* outages of Ollama are not charged to it, a clean shutdown is.
RetryAccounting ==
  \A t \in Tasks :
    lost[t] = retries[t] + (IF Orphan(t) \/ error[t] = "retry_limit" THEN 1 ELSE 0)

\* A task that takes the worker down every time does so at most
\* task_max_retry_count + 1 times, and is given up only then.
CrashLoopsEnd ==
  \A t \in Tasks :
    /\ lost[t] <= MaxRetries + 1
    /\ error[t] = "retry_limit" => lost[t] = MaxRetries + 1

\* A verdict is final: no recovery, retry or late commit changes it.
VerdictsAreFinal ==
  [][\A t \in Tasks : status[t] \in {"completed", "failed"} =>
        status'[t] = status[t] /\ error'[t] = error[t]]_vars

\* The inductive invariant behind the safety properties: besides them, the
\* batch is empty outside the loop, nothing pending outside the batch is older
\* than what is in it, and "retry_limit" is the verdict of a task at its limit.
BatchOnlyInLoop == pc \notin {"next", "calling"} => batch = {}

BatchIsOldest ==
  \A t \in batch : \A u \in Pending \ batch : created[t] <= created[u]

GivenUpAtLimit ==
  \A t \in Tasks : error[t] = "retry_limit" =>
                     status[t] = "failed" /\ retries[t] = MaxRetries

IInv ==
  /\ TypeOK
  /\ SnapshotHolds
  /\ BatchOnlyInLoop
  /\ OldestFirst
  /\ BatchIsOldest
  /\ GivenUpAtLimit
  /\ RetryAccounting

\* Each row lives the life ReceiptJob promises.
Job(t) == INSTANCE ReceiptJob
            WITH status <- status[t], retries <- retries[t], error <- error[t]

ImplementsJobs ==
  /\ \A t \in Tasks : Job(t)!JobInit
  /\ [][\A t \in Tasks : [Job(t)!JobNext]_(Job(t)!jobVars)]_vars

\* A task the worker abandoned does not stay "processing", even if Ollama
\* never comes back.
OrphansAreRecovered ==
  \A t \in Tasks : Orphan(t) ~> status[t] # "processing"

Settled(t) == status[t] \in {"completed", "failed"}
Waiting(t) == status[t] \in {"pending", "processing"}

\* A receipt Ollama can answer in time gets a verdict once the faults are over,
\* unless Ollama stays away for good or a receipt it cannot answer in time, and
\* that was submitted no later, waits for ever: that one is put back and tried
\* first at every poll, and the break behind it starves what is younger.  A slow
\* receipt that is younger, or that gets a verdict, holds up nobody.
EveryTaskSettles ==
  \/ <>[](ollama = "down")
  \/ \A t \in Tasks \ Slow :
       \/ status[t] = "pending" ~> Settled(t)
       \/ \E s \in Slow : <>[](Waiting(s) /\ created[s] <= created[t])
=============================================================================
