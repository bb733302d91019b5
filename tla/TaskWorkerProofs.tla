-------------------------- MODULE TaskWorkerProofs --------------------------
(***************************************************************************)
(* Theorems about TaskWorker, for any receipts, retry limit, timeout and   *)
(* number of faults.  All follow from the inductive invariant IInv.        *)
(***************************************************************************)
EXTENDS TaskWorker, TLAPS

USE WorkerAssumption

LEMMA InitIInv == Init => IInv
  BY DEF Init, IInv, TypeOK, SnapshotHolds, BatchOnlyInLoop, OldestFirst,
         BatchIsOldest, GivenUpAtLimit, RetryAccounting,
         Pending, Orphan, InFlight, Statuses, Errors, NotYet, StaleAge

-----------------------------------------------------------------------------
(* Type correctness is inductive by itself.                                *)

LEMMA NoLocalsType ==
  batch' = {} /\ cur' = NoTask /\ attempt' = 0 =>
    /\ batch' \in SUBSET Tasks
    /\ cur' \in Tasks \cup {NoTask}
    /\ attempt' \in 0..(MaxAttempts - 1)
  OBVIOUS

LEMMA LostType == TypeOK /\ LoseCurrent => lost' \in [Tasks -> Nat]
  <1> SUFFICES ASSUME TypeOK, LoseCurrent PROVE lost' \in [Tasks -> Nat]
    OBVIOUS
  <1> HIDE WorkerAssumption
  <1>1. lost \in [Tasks -> Nat]
    BY DEF TypeOK
  <1>2. \A t \in Tasks : lost[t] + 1 \in Nat
    BY <1>1
  <1>3. [lost EXCEPT ![cur] = @ + 1] \in [Tasks -> Nat]
    BY <1>1, <1>2
  <1> QED
    BY <1>1, <1>3 DEF LoseCurrent

LEMMA TypeStep == TypeOK /\ [Next]_vars => TypeOK'
<1> SUFFICES ASSUME TypeOK, [Next]_vars PROVE TypeOK'
  OBVIOUS
<1> USE DEF TypeOK, Statuses, Errors, NotYet, StaleAge, rows, locals
<1>1. ASSUME NEW t \in Tasks, Submit(t) PROVE TypeOK'
  BY <1>1 DEF Submit
<1>2. CASE Tick
  BY <1>2 DEF Tick
<1>3. CASE OllamaDown \/ OllamaUp
  BY <1>3 DEF OllamaDown, OllamaUp, Fault
<1>4. CASE RecoverStale
  BY <1>4 DEF RecoverStale, RecoverAll, Stale
<1>5. CASE CheckOllama \/ ListPending
  BY <1>5 DEF CheckOllama, ListPending, Pending
<1>6. ASSUME NEW t \in Tasks, TakeNext(t) PROVE TypeOK'
  BY <1>6 DEF TakeNext
<1>7. CASE ValidReply
  <2>1. status' \in [Tasks -> Statuses]
    BY <1>7 DEF ValidReply, Settle
  <2> QED
    BY <1>7, <2>1 DEF ValidReply, Settle
<1>8. CASE InvalidReply
  BY <1>8 DEF InvalidReply
<1>9. CASE Unavailable
  <2>1. status' \in [Tasks -> Statuses]
    BY <1>9 DEF Unavailable
  <2>2. age' \in [Tasks -> 0..NotYet]
    <3>1. age \in [Tasks -> 0..NotYet] /\ NotYet \in 0..NotYet
      OBVIOUS
    <3> QED
      BY <1>9, <3>1 DEF Unavailable
  <2> QED
    BY <1>9, <2>1, <2>2, NoLocalsType DEF Unavailable, ToSleep
<1>10. ASSUME NEW e \in Errors, Fail(e) PROVE TypeOK'
  <2>1. status' \in [Tasks -> Statuses] /\ error' \in [Tasks -> Errors]
    BY <1>10 DEF Fail, Settle
  <2> QED
    BY <1>10, <2>1 DEF Fail, Settle
<1>11. CASE LastInvalidReply
  BY <1>11, <1>10 DEF LastInvalidReply
<1>12. CASE ConnectionLost \/ Unexpected
  BY <1>12, <1>10 DEF ConnectionLost, Unexpected
<1>13. CASE CommitFails
  <2>1. lost' \in [Tasks -> Nat]
    BY <1>13, LostType DEF CommitFails
  <2> QED
    BY <1>13, <2>1, NoLocalsType DEF CommitFails, Fault, ToSleep
<1>14. CASE Stop
  <2>1. lost' \in [Tasks -> Nat]
    BY <1>14, LostType DEF Stop
  <2> QED
    BY <1>14, <2>1, NoLocalsType DEF Stop, Fault
<1>15. CASE Restart
  BY <1>15 DEF Restart
<1>16. CASE UNCHANGED vars
  BY <1>16 DEF vars
<1> QED
  BY <1>1, <1>2, <1>3, <1>4, <1>5, <1>6, <1>7, <1>8, <1>9, <1>11, <1>12,
     <1>13, <1>14, <1>15, <1>16 DEF Next, Worker

(* Every variable of the worker, the table and the surroundings has its    *)
(* type in every reachable state.                                          *)
THEOREM TypeCorrect == Spec => []TypeOK
<1>1. Init => TypeOK
  BY InitIInv DEF IInv
<1> QED
  BY <1>1, TypeStep, PTL DEF Spec

-----------------------------------------------------------------------------
(* Nobody but the worker changes the status of a row the worker holds.     *)

LEMMA SnapshotStep ==
  IInv /\ [Next]_vars => SnapshotHolds' /\ BatchOnlyInLoop'
<1> SUFFICES ASSUME IInv, [Next]_vars
             PROVE  SnapshotHolds' /\ BatchOnlyInLoop'
  OBVIOUS
<1> USE DEF SnapshotHolds, BatchOnlyInLoop, rows, locals
<1> HIDE WorkerAssumption
<1>0. TypeOK /\ SnapshotHolds /\ BatchOnlyInLoop
  BY DEF IInv
<1>t. status \in [Tasks -> Statuses] /\ batch \subseteq Tasks
  BY <1>0 DEF TypeOK
<1>1. ASSUME NEW t \in Tasks, Submit(t)
      PROVE  SnapshotHolds' /\ BatchOnlyInLoop'
  BY <1>0, <1>t, <1>1 DEF Submit
<1>2. CASE Tick \/ OllamaDown \/ OllamaUp
  BY <1>0, <1>2 DEF Tick, OllamaDown, OllamaUp
<1>3. CASE RecoverStale
  BY <1>0, <1>3 DEF RecoverStale, RecoverAll
<1>4. CASE CheckOllama \/ Restart
  BY <1>0, <1>4 DEF CheckOllama, Restart
<1>5. CASE ListPending
  BY <1>0, <1>5 DEF ListPending, Pending
<1>6. ASSUME NEW t \in Tasks, TakeNext(t)
      PROVE  SnapshotHolds' /\ BatchOnlyInLoop'
  BY <1>0, <1>t, <1>6 DEF TakeNext
<1>7. ASSUME NEW v \in {"completed", "failed"}, pc = "calling", Settle(v)
      PROVE  SnapshotHolds' /\ BatchOnlyInLoop'
  BY <1>0, <1>t, <1>7 DEF Settle
<1>8. CASE ValidReply \/ LastInvalidReply \/ ConnectionLost \/ Unexpected
  BY <1>7, <1>8 DEF ValidReply, LastInvalidReply, ConnectionLost, Unexpected,
                    Answers, Fail
<1>9. CASE InvalidReply
  BY <1>0, <1>9 DEF InvalidReply
<1>10. CASE Unavailable \/ CommitFails
  BY <1>10 DEF Unavailable, CommitFails, ToSleep
<1>11. CASE Stop
  BY <1>11 DEF Stop
<1>12. CASE UNCHANGED vars
  BY <1>0, <1>12 DEF vars
<1> QED
  BY <1>1, <1>2, <1>3, <1>4, <1>5, <1>6, <1>8, <1>9, <1>10, <1>11, <1>12
  DEF Next, Worker

-----------------------------------------------------------------------------
(* A new row is the youngest, and a task the loop puts back ends the loop. *)

LEMMA OrderStep ==
  IInv /\ [Next]_vars => OldestFirst' /\ BatchIsOldest'
<1> SUFFICES ASSUME IInv, [Next]_vars
             PROVE  OldestFirst' /\ BatchIsOldest'
  OBVIOUS
<1> USE DEF OldestFirst, BatchIsOldest, Pending, rows, locals
<1> HIDE WorkerAssumption
<1>0. SnapshotHolds /\ BatchOnlyInLoop /\ OldestFirst /\ BatchIsOldest
  BY DEF IInv
<1>t. /\ status \in [Tasks -> Statuses] /\ batch \subseteq Tasks
      /\ created \in [Tasks -> Nat]
      /\ Instants \subseteq Nat
  BY WorkerAssumption DEF IInv, TypeOK
<1>1. ASSUME NEW t \in Tasks, Submit(t)
      PROVE  OldestFirst' /\ BatchIsOldest'
  <2>1. PICK now \in Instants : /\ \A u \in Submitted : created[u] <= now
                               /\ created' = [created EXCEPT ![t] = now]
    BY <1>1 DEF Submit
  <2>2. UNCHANGED <<pc, batch, cur>> /\ status[t] = "absent"
        /\ status' = [status EXCEPT ![t] = "pending"]
    BY <1>1 DEF Submit
  <2>3. \A u \in Tasks \ {t} : status'[u] = status[u] /\ created'[u] = created[u]
    BY <1>t, <2>1, <2>2
  <2>4. created'[t] = now
    BY <1>t, <2>1
  <2>5. t \notin batch /\ \A u \in batch : created[u] <= now
    BY <1>0, <1>t, <2>1, <2>2 DEF SnapshotHolds, Submitted
  <2>6. pc = "calling" => cur # t /\ cur \in Tasks /\ created[cur] <= now
    BY <1>0, <2>1, <2>2 DEF SnapshotHolds, Submitted
  <2>7. OldestFirst'
    BY <1>0, <2>2, <2>3, <2>4, <2>6
  <2>8. BatchIsOldest'
    BY <1>0, <1>t, <2>2, <2>3, <2>4, <2>5
  <2> QED
    BY <2>7, <2>8
<1>2. CASE Tick \/ OllamaDown \/ OllamaUp
  BY <1>0, <1>2 DEF Tick, OllamaDown, OllamaUp
<1>3. CASE RecoverStale
  BY <1>0, <1>3 DEF RecoverStale, RecoverAll, BatchOnlyInLoop
<1>4. CASE CheckOllama \/ Restart
  BY <1>0, <1>4 DEF CheckOllama, Restart, BatchOnlyInLoop
<1>5. CASE ListPending
  BY <1>5 DEF ListPending
<1>6. ASSUME NEW t \in Tasks, TakeNext(t)
      PROVE  OldestFirst' /\ BatchIsOldest'
  <2>1. status' = [status EXCEPT ![t] = "processing"] /\ created' = created
        /\ batch' = batch \ {t} /\ cur' = t /\ t \in batch
        /\ \A u \in batch : created[t] <= created[u]
    BY <1>6 DEF TakeNext
  <2>2. \A u \in Tasks : status'[u] = "pending" => status[u] = "pending" /\ u # t
    BY <1>t, <2>1
  <2> QED
    BY <1>0, <1>t, <2>1, <2>2
<1>7. ASSUME NEW v \in {"completed", "failed"}, pc = "calling", Settle(v)
      PROVE  OldestFirst' /\ BatchIsOldest'
  <2>1. /\ status' = [status EXCEPT ![cur] = v]
        /\ UNCHANGED <<batch, created>> /\ pc' # "calling"
    BY <1>7 DEF Settle
  <2>2. \A u \in Tasks : status'[u] = "pending" => status[u] = "pending"
    BY <1>t, <2>1
  <2> QED
    BY <1>0, <2>1, <2>2
<1>8. CASE ValidReply \/ LastInvalidReply \/ ConnectionLost \/ Unexpected
  BY <1>7, <1>8 DEF ValidReply, LastInvalidReply, ConnectionLost, Unexpected,
                    Answers, Fail
<1>9. CASE InvalidReply
  BY <1>0, <1>9 DEF InvalidReply
<1>10. CASE Unavailable \/ CommitFails
  BY <1>10 DEF Unavailable, CommitFails, ToSleep
<1>11. CASE Stop
  BY <1>11 DEF Stop
<1>12. CASE UNCHANGED vars
  BY <1>0, <1>12 DEF vars
<1> QED
  BY <1>1, <1>2, <1>3, <1>4, <1>5, <1>6, <1>8, <1>9, <1>10, <1>11, <1>12
  DEF Next, Worker

-----------------------------------------------------------------------------
(* retry_count against the times the worker went away.                     *)

LEMMA AccountingStep ==
  IInv /\ [Next]_vars => GivenUpAtLimit' /\ RetryAccounting'
<1> SUFFICES ASSUME IInv, [Next]_vars
             PROVE  GivenUpAtLimit' /\ RetryAccounting'
  OBVIOUS
<1> USE DEF GivenUpAtLimit, RetryAccounting, Orphan, InFlight, rows, locals
<1> HIDE WorkerAssumption
<1>0. SnapshotHolds /\ GivenUpAtLimit /\ RetryAccounting
  BY DEF IInv
<1>t. /\ status \in [Tasks -> Statuses] /\ error \in [Tasks -> Errors]
      /\ retries \in [Tasks -> 0..MaxRetries] /\ lost \in [Tasks -> Nat]
      /\ MaxRetries \in Nat /\ batch \subseteq Tasks
  BY WorkerAssumption DEF IInv, TypeOK
<1>1. ASSUME NEW t \in Tasks, Submit(t)
      PROVE  GivenUpAtLimit' /\ RetryAccounting'
  BY <1>0, <1>t, <1>1 DEF Submit
<1>2. CASE Tick \/ OllamaDown \/ OllamaUp
  BY <1>0, <1>2 DEF Tick, OllamaDown, OllamaUp
<1>3. CASE RecoverStale
  <2> SUFFICES ASSUME NEW t \in Tasks
               PROVE  /\ error'[t] = "retry_limit" =>
                           status'[t] = "failed" /\ retries'[t] = MaxRetries
                      /\ lost'[t] = retries'[t] +
                           (IF Orphan(t)' \/ error'[t] = "retry_limit" THEN 1 ELSE 0)
    OBVIOUS
  <2>1. pc = "idle" /\ pc' = "recovered" /\ lost'[t] = lost[t]
    BY <1>3 DEF RecoverStale, RecoverAll
  <2>2. retries[t] \in 0..MaxRetries /\ lost[t] \in Nat
    BY <1>t
  <2>3. CASE t \notin Stale
    BY <1>0, <1>3, <2>1, <2>3 DEF RecoverStale, RecoverAll
  <2>4. CASE t \in Stale /\ retries[t] >= MaxRetries
    <3>1. status'[t] = "failed" /\ error'[t] = "retry_limit" /\ retries'[t] = retries[t]
      BY <1>t, <1>3, <2>2, <2>4 DEF RecoverStale, RecoverAll
    <3>2. lost[t] = retries[t] + 1
      BY <1>0, <2>1, <2>4 DEF Stale
    <3> QED
      BY <1>t, <2>1, <2>2, <2>4, <3>1, <3>2
  <2>5. CASE t \in Stale /\ ~(retries[t] >= MaxRetries)
    <3>1. status'[t] = "pending" /\ error'[t] = error[t] /\ retries'[t] = retries[t] + 1
      BY <1>t, <1>3, <2>2, <2>5 DEF RecoverStale, RecoverAll
    <3>2. lost[t] = retries[t] + 1 /\ error[t] # "retry_limit"
      BY <1>0, <2>1, <2>5 DEF Stale
    <3> QED
      BY <2>1, <2>2, <3>1, <3>2
  <2> QED
    BY <2>3, <2>4, <2>5
<1>4. CASE CheckOllama \/ ListPending \/ Restart
  BY <1>0, <1>4 DEF CheckOllama, ListPending, Restart
<1>5. ASSUME NEW t \in Tasks, TakeNext(t)
      PROVE  GivenUpAtLimit' /\ RetryAccounting'
  <2>1. status[t] = "pending" /\ pc # "calling"
    BY <1>0, <1>5 DEF TakeNext, SnapshotHolds
  <2> QED
    BY <1>0, <1>t, <1>5, <2>1 DEF TakeNext
<1>6. ASSUME NEW v \in {"completed", "failed"}, NEW e \in Errors \ {"retry_limit"},
             pc = "calling", Settle(v),
             error' = [error EXCEPT ![cur] = e] \/ error' = error
      PROVE  GivenUpAtLimit' /\ RetryAccounting'
  <2>1. cur \in Tasks /\ status[cur] = "processing" /\ error[cur] # "retry_limit"
    BY <1>0, <1>6 DEF SnapshotHolds
  <2>2. error'[cur] # "retry_limit" /\ \A t \in Tasks \ {cur} : error'[t] = error[t]
    BY <1>t, <1>6, <2>1
  <2> QED
    BY <1>0, <1>t, <1>6, <2>1, <2>2 DEF Settle
<1>7. CASE ValidReply \/ LastInvalidReply \/ ConnectionLost \/ Unexpected
  BY <1>6, <1>7 DEF ValidReply, LastInvalidReply, ConnectionLost, Unexpected,
                    Answers, Fail, Errors
<1>8. CASE InvalidReply
  BY <1>0, <1>8 DEF InvalidReply
<1>9. CASE Unavailable
  <2>1. cur \in Tasks /\ status[cur] = "processing" /\ error[cur] # "retry_limit"
    BY <1>0, <1>9 DEF SnapshotHolds, Unavailable
  <2> QED
    BY <1>0, <1>t, <1>9, <2>1 DEF Unavailable, ToSleep
<1>10. CASE CommitFails \/ Stop
  <2>1. pc' # "calling" /\ UNCHANGED <<status, error, retries>> /\ LoseCurrent
    BY <1>10 DEF CommitFails, Stop, ToSleep
  <2>2. CASE pc = "calling"
    <3>1. cur \in Tasks /\ status[cur] = "processing" /\ error[cur] # "retry_limit"
      BY <1>0, <2>2 DEF SnapshotHolds
    <3>2. lost' = [lost EXCEPT ![cur] = @ + 1]
      BY <2>1, <2>2 DEF LoseCurrent
    <3>3. lost'[cur] = lost[cur] + 1 /\ \A t \in Tasks \ {cur} : lost'[t] = lost[t]
      BY <1>t, <3>1, <3>2
    <3>4. lost[cur] = retries[cur]
      BY <1>0, <1>t, <2>2, <3>1
    <3>5. ASSUME NEW t \in Tasks
          PROVE  lost'[t] = retries'[t] +
                   (IF Orphan(t)' \/ error'[t] = "retry_limit" THEN 1 ELSE 0)
      <4>1. CASE t = cur
        BY <2>1, <3>1, <3>3, <3>4, <4>1
      <4>2. CASE t # cur
        BY <1>0, <2>1, <3>3, <4>2
      <4> QED
        BY <4>1, <4>2
    <3> QED
      BY <1>0, <2>1, <3>5
  <2>3. CASE pc # "calling"
    BY <1>0, <2>1, <2>3 DEF LoseCurrent
  <2> QED
    BY <2>2, <2>3
<1>11. CASE UNCHANGED vars
  BY <1>0, <1>11 DEF vars
<1> QED
  BY <1>1, <1>2, <1>3, <1>4, <1>5, <1>7, <1>8, <1>9, <1>10, <1>11 DEF Next, Worker

-----------------------------------------------------------------------------
(* The theorems.                                                           *)

LEMMA Inductive == Spec => []IInv
<1>1. IInv /\ [Next]_vars => IInv'
  BY TypeStep, SnapshotStep, OrderStep, AccountingStep DEF IInv
<1> QED
  BY InitIInv, <1>1, PTL DEF Spec

(* The snapshot an iteration works from never goes stale: the task with    *)
(* Ollama is the worker's own, those still to be visited are pending.      *)
THEOREM SnapshotTheorem == Spec => []SnapshotHolds
<1>1. IInv => SnapshotHolds
  BY DEF IInv
<1> QED
  BY Inductive, <1>1, PTL

(* Receipts are parsed oldest first, through put-backs and recoveries.     *)
THEOREM OldestFirstTheorem == Spec => []OldestFirst
<1>1. IInv => OldestFirst
  BY DEF IInv
<1> QED
  BY Inductive, <1>1, PTL

(* retry_count is exactly the number of times the worker went away over    *)
(* the task, as far as the recovery has seen it.                           *)
THEOREM RetryAccountingTheorem == Spec => []RetryAccounting
<1>1. IInv => RetryAccounting
  BY DEF IInv
<1> QED
  BY Inductive, <1>1, PTL

(* A task can take the worker down task_max_retry_count + 1 times and no   *)
(* more, and it is given up only after that many.                          *)
THEOREM CrashLoopTheorem == Spec => []CrashLoopsEnd
<1>1. IInv => CrashLoopsEnd
  <2> SUFFICES ASSUME IInv, NEW t \in Tasks
               PROVE  /\ lost[t] <= MaxRetries + 1
                      /\ error[t] = "retry_limit" => lost[t] = MaxRetries + 1
    BY DEF CrashLoopsEnd
  <2>1. retries[t] \in 0..MaxRetries
    BY DEF IInv, TypeOK
  <2>2. lost[t] = retries[t] + (IF Orphan(t) \/ error[t] = "retry_limit" THEN 1 ELSE 0)
    BY DEF IInv, RetryAccounting
  <2>3. error[t] = "retry_limit" => retries[t] = MaxRetries
    BY DEF IInv, GivenUpAtLimit
  <2> QED
    BY <2>1, <2>2, <2>3
<1> QED
  BY Inductive, <1>1, PTL

(* A verdict, once committed, is never changed.                            *)
LEMMA VerdictStep ==
  ASSUME IInv, [Next]_vars, NEW t \in Tasks, status[t] \in {"completed", "failed"}
  PROVE  status'[t] = status[t] /\ error'[t] = error[t]
<1> USE DEF rows, locals
<1> HIDE WorkerAssumption
<1>0. SnapshotHolds /\ status \in [Tasks -> Statuses] /\ error \in [Tasks -> Errors]
  BY DEF IInv, TypeOK
<1>1. ASSUME NEW u \in Tasks, Submit(u) \/ TakeNext(u)
      PROVE  status'[t] = status[t] /\ error'[t] = error[t]
  BY <1>0, <1>1 DEF Submit, TakeNext, SnapshotHolds
<1>2. CASE Tick \/ OllamaDown \/ OllamaUp \/ CheckOllama \/ ListPending
           \/ InvalidReply \/ CommitFails \/ Stop \/ Restart \/ UNCHANGED vars
  BY <1>2 DEF Tick, OllamaDown, OllamaUp, CheckOllama, ListPending, InvalidReply,
              CommitFails, Stop, Restart, vars
<1>3. CASE RecoverStale
  BY <1>3 DEF RecoverStale, RecoverAll, Stale
<1>4. CASE ValidReply \/ LastInvalidReply \/ ConnectionLost \/ Unexpected \/ Unavailable
  <2>1. pc = "calling" /\ cur # t
    BY <1>0, <1>4 DEF SnapshotHolds, ValidReply, LastInvalidReply, ConnectionLost,
                      Unexpected, Unavailable, Answers
  <2> QED
    BY <1>0, <1>4, <2>1 DEF ValidReply, LastInvalidReply, ConnectionLost,
                            Unexpected, Unavailable, Settle, Fail
<1> QED
  BY <1>1, <1>2, <1>3, <1>4 DEF Next, Worker

(* No recovery, retry or late commit changes a committed verdict.          *)
THEOREM VerdictTheorem == Spec => VerdictsAreFinal
<1>1. IInv /\ [Next]_vars =>
        [\A t \in Tasks : status[t] \in {"completed", "failed"} =>
            status'[t] = status[t] /\ error'[t] = error[t]]_vars
  BY VerdictStep
<1> QED
  BY Inductive, <1>1, PTL DEF Spec, VerdictsAreFinal

-----------------------------------------------------------------------------
(* Each step of the worker is, for each row, a step of ReceiptJob or none. *)

LEMMA JobStep ==
  ASSUME IInv, [Next]_vars, NEW t \in Tasks
  PROVE  [Job(t)!JobNext]_(Job(t)!jobVars)
<1> USE DEF Job!JobNext, Job!jobVars, Job!Accept, Job!Start, Job!PutBack, Job!Retry,
            Job!Complete, Job!Reject, Job!Errors, rows, locals
<1> HIDE WorkerAssumption
<1>0. SnapshotHolds /\ GivenUpAtLimit
  BY DEF IInv
<1>t. /\ status \in [Tasks -> Statuses] /\ error \in [Tasks -> Errors]
      /\ retries \in [Tasks -> 0..MaxRetries] /\ MaxRetries \in Nat
  BY WorkerAssumption DEF IInv, TypeOK
<1>1. ASSUME NEW u \in Tasks, Submit(u)
      PROVE  [Job(t)!JobNext]_(Job(t)!jobVars)
  BY <1>t, <1>1 DEF Submit
<1>2. CASE Tick \/ OllamaDown \/ OllamaUp \/ CheckOllama \/ ListPending
           \/ InvalidReply \/ CommitFails \/ Stop \/ Restart \/ UNCHANGED vars
  BY <1>2 DEF Tick, OllamaDown, OllamaUp, CheckOllama, ListPending, InvalidReply,
              CommitFails, Stop, Restart, vars
<1>3. CASE RecoverStale
  <2>0. retries[t] \in 0..MaxRetries
    BY <1>t
  <2>1. CASE t \notin Stale
    BY <1>3, <2>1 DEF RecoverStale, RecoverAll
  <2>2. CASE t \in Stale /\ retries[t] >= MaxRetries
    <3>1. /\ status[t] = "processing" /\ status'[t] = "failed"
          /\ error'[t] = "retry_limit" /\ retries'[t] = retries[t]
          /\ retries[t] = MaxRetries
      BY <1>t, <1>3, <2>0, <2>2 DEF RecoverStale, RecoverAll, Stale
    <3> QED
      BY <3>1
  <2>3. CASE t \in Stale /\ ~(retries[t] >= MaxRetries)
    <3>1. /\ status[t] = "processing" /\ status'[t] = "pending"
          /\ error'[t] = error[t] /\ retries'[t] = retries[t] + 1
          /\ retries[t] < MaxRetries
      BY <1>t, <1>3, <2>0, <2>3 DEF RecoverStale, RecoverAll, Stale
    <3> QED
      BY <3>1
  <2> QED
    BY <2>1, <2>2, <2>3
<1>4. ASSUME NEW u \in Tasks, TakeNext(u)
      PROVE  [Job(t)!JobNext]_(Job(t)!jobVars)
  BY <1>0, <1>t, <1>4 DEF TakeNext, SnapshotHolds
<1>5. CASE ValidReply
  BY <1>0, <1>t, <1>5 DEF ValidReply, Answers, Settle, SnapshotHolds
<1>6. ASSUME NEW e \in {"validation", "unexpected", "connection_lost"},
             pc = "calling", Fail(e)
      PROVE  [Job(t)!JobNext]_(Job(t)!jobVars)
  <2>1. CASE t = cur
    <3>1. status[t] = "processing" /\ status'[t] = "failed" /\ error'[t] = e
          /\ retries'[t] = retries[t]
      BY <1>0, <1>t, <1>6, <2>1 DEF Fail, Settle, SnapshotHolds
    <3> QED
      BY <3>1
  <2>2. CASE t # cur
    BY <1>t, <1>6, <2>2 DEF Fail, Settle
  <2> QED
    BY <2>1, <2>2
<1>7. CASE LastInvalidReply \/ ConnectionLost \/ Unexpected
  BY <1>6, <1>7 DEF LastInvalidReply, ConnectionLost, Unexpected, Answers
<1>8. CASE Unavailable
  BY <1>0, <1>t, <1>8 DEF Unavailable, SnapshotHolds
<1> QED
  BY <1>1, <1>2, <1>3, <1>4, <1>5, <1>7, <1>8 DEF Next, Worker

(* The worker implements ReceiptJob, row by row: whatever the number of    *)
(* receipts, stops, failed commits and outages, who polls a task sees the  *)
(* life that ReceiptJob promises.                                          *)
THEOREM RefinementTheorem == Spec => ImplementsJobs
<1>1. Init => \A t \in Tasks : Job(t)!JobInit
  BY DEF Init, Job!JobInit
<1>2. IInv /\ [Next]_vars =>
        [\A t \in Tasks : [Job(t)!JobNext]_(Job(t)!jobVars)]_vars
  BY JobStep
<1> QED
  BY Inductive, <1>1, <1>2, PTL DEF Spec, ImplementsJobs
=============================================================================
