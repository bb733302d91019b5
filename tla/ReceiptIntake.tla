--------------------------- MODULE ReceiptIntake ---------------------------
(***************************************************************************)
(* How receipts come in and go out (src/src/routers/receipts.py and        *)
(* src/src/services/receipt_service.py): the upload of a photo writes to   *)
(* two stores, MinIO and the database, with no transaction around them;    *)
(* the confirmation of a parsed receipt turns it into inventory.  Between  *)
(* any two of these steps the worker may move the task on; all that is     *)
(* assumed of it is what ReceiptJob promises and TaskWorker implements.    *)
(***************************************************************************)
EXTENDS Naturals

CONSTANTS Photos,      \* receipts uploaded as an image
          Texts,       \* receipts submitted as text
          MaxRetries,  \* settings.task_max_retry_count
          MaxConfirms, \* bound: confirmations of one receipt
          MaxFaults    \* bound: failed calls of MinIO or the database, crashes

ASSUME IntakeAssumption ==
  /\ Photos \cap Texts = {}
  /\ MaxRetries \in Nat
  /\ MaxConfirms \in Nat
  /\ MaxFaults \in Nat

Receipts == Photos \cup Texts

VARIABLES
  status, retries, error,  \* processing_tasks, as in ReceiptJob
  link,        \* does task_metadata name the image?
  object,      \* the image in MinIO: "none" or "stored"
  pc,          \* where the handler of the submission is
  reply,       \* what it has answered
  confirming,  \* handlers between the check and the commit of a confirmation
  stocked,     \* confirmations that have created inventory items
  excused,     \* history: uploads hit by a fault that is not compensated
  faults       \* faults so far, up to MaxFaults

row  == <<status, retries, error>>
vars == <<row, link, object, pc, reply, confirming, stocked, excused, faults>>

Statuses == {"absent", "pending", "processing", "completed", "failed"}
Errors   == {"none", "validation", "unexpected", "connection_lost", "retry_limit"}
Steps    == {"new", "stored", "inserted", "linked", "over"}

Job(u) == INSTANCE ReceiptJob
            WITH status <- status[u], retries <- retries[u], error <- error[u]

Busy == {u \in Receipts : pc[u] \in {"stored", "inserted", "linked"}}

Faults(n) == faults + n <= MaxFaults /\ faults' = faults + n

Init ==
  /\ status  = [u \in Receipts |-> "absent"]
  /\ retries = [u \in Receipts |-> 0]
  /\ error   = [u \in Receipts |-> "none"]
  /\ link    = [u \in Receipts |-> FALSE]
  /\ object  = [u \in Receipts |-> "none"]
  /\ pc      = [u \in Receipts |-> "new"]
  /\ reply   = [u \in Receipts |-> "none"]
  /\ confirming = [u \in Receipts |-> 0]
  /\ stocked = [u \in Receipts |-> 0]
  /\ excused = {}
  /\ faults  = 0

-----------------------------------------------------------------------------
(* upload_receipt_image.                                                   *)

Goto(u, step) == pc' = [pc EXCEPT ![u] = step]

Answer(u, code) == Goto(u, "over") /\ reply' = [reply EXCEPT ![u] = code]

\* _cleanup_minio_object; its own failure is logged and otherwise ignored.
\* n counts the faults that led here.
CleanUp(u, n) ==
  \/ /\ object' = [object EXCEPT ![u] = "none"]
     /\ Faults(n)
     /\ UNCHANGED excused
  \/ /\ Faults(n + 1)
     /\ excused' = excused \cup {u}
     /\ UNCHANGED object

PutObject(u) ==
  /\ u \in Photos
  /\ pc[u] = "new"
  /\ object' = [object EXCEPT ![u] = "stored"]
  /\ Goto(u, "stored")
  /\ UNCHANGED <<row, link, reply, confirming, stocked, excused, faults>>

\* "no cleanup needed - upload failed", be the image stored or not.
PutFails(u) ==
  /\ u \in Photos
  /\ pc[u] = "new"
  /\ Faults(1)
  /\ \E o \in {"none", "stored"} : object' = [object EXCEPT ![u] = o]
  /\ excused' = excused \cup {u}
  /\ Answer(u, "rejected")
  /\ UNCHANGED <<row, link, confirming, stocked>>

\* Mutant: the check on the text of the image answers without cleaning up.
UnreadableStays(u) ==
  /\ pc[u] = "stored"
  /\ Answer(u, "rejected")
  /\ UNCHANGED <<row, link, object, confirming, stocked, excused, faults>>

\* The OCR finds no text, or not enough of it.
Unreadable(u) ==
  /\ pc[u] = "stored"
  /\ CleanUp(u, 0)
  /\ Answer(u, "rejected")
  /\ UNCHANGED <<row, link, confirming, stocked>>

\* The commit of submit_receipt: from here on the worker sees the task.
InsertTask(u) ==
  /\ pc[u] = "stored"
  /\ status' = [status EXCEPT ![u] = "pending"]
  /\ Goto(u, "inserted")
  /\ UNCHANGED <<retries, error, link, object, reply, confirming, stocked, excused, faults>>

\* Mutant: the handler saves the whole task as it has first seen it.
LinkImageAndStatus(u) ==
  /\ pc[u] = "inserted"
  /\ link' = [link EXCEPT ![u] = TRUE]
  /\ status' = [status EXCEPT ![u] = "pending"]
  /\ Goto(u, "linked")
  /\ UNCHANGED <<retries, error, object, reply, confirming, stocked, excused, faults>>

\* The second commit writes task_metadata and no other column.
LinkImage(u) ==
  /\ pc[u] = "inserted"
  /\ link' = [link EXCEPT ![u] = TRUE]
  /\ Goto(u, "linked")
  /\ UNCHANGED <<row, object, reply, confirming, stocked, excused, faults>>

\* Mutant: the answer is given before the image is linked.
AnswerEarly(u) ==
  /\ pc[u] = "inserted"
  /\ Answer(u, "accepted")
  /\ UNCHANGED <<row, link, object, confirming, stocked, excused, faults>>

AnswerUpload(u) ==
  /\ pc[u] = "linked"
  /\ Answer(u, "accepted")
  /\ UNCHANGED <<row, link, object, confirming, stocked, excused, faults>>

\* A commit, or reading the row back after one, fails: the image is removed
\* and the client told so, but what has been committed stays.
UploadFails(u) ==
  /\ u \in Busy
  /\ CleanUp(u, 1)
  /\ Answer(u, "rejected")
  /\ UNCHANGED <<row, link, confirming, stocked>>

-----------------------------------------------------------------------------
(* submit_receipt_for_processing, confirm_receipt and the worker.          *)

SubmitText(u) ==
  /\ u \in Texts
  /\ pc[u] = "new"
  /\ status' = [status EXCEPT ![u] = "pending"]
  /\ \/ Answer(u, "accepted") /\ UNCHANGED faults
     \/ Answer(u, "rejected") /\ Faults(1)    \* the refresh after the commit
  /\ UNCHANGED <<retries, error, link, object, confirming, stocked, excused>>

SubmitTextFails(u) ==
  /\ u \in Texts
  /\ pc[u] = "new"
  /\ Answer(u, "rejected")
  /\ Faults(1)
  /\ UNCHANGED <<row, link, object, confirming, stocked, excused>>

\* Mutant: what a task has reached does not matter as long as it is there.
ConfirmAny(u) ==
  /\ status[u] # "absent"
  /\ confirming[u] + stocked[u] < MaxConfirms
  /\ confirming' = [confirming EXCEPT ![u] = @ + 1]
  /\ UNCHANGED <<row, link, object, pc, reply, stocked, excused, faults>>

\* confirm_receipt_items up to its commit.
Confirm(u) ==
  /\ status[u] = "completed"
  /\ confirming[u] + stocked[u] < MaxConfirms
  /\ confirming' = [confirming EXCEPT ![u] = @ + 1]
  /\ UNCHANGED <<row, link, object, pc, reply, stocked, excused, faults>>

\* Mutant: a failed refresh makes the service create the items once more.
CreateItemsTwice(u) ==
  /\ confirming[u] > 0
  /\ confirming' = [confirming EXCEPT ![u] = @ - 1]
  /\ stocked' = [stocked EXCEPT ![u] = @ + 2]
  /\ UNCHANGED <<row, link, object, pc, reply, excused, faults>>

\* create_inventory_items_bulk: all items in one commit.
CreateItems(u) ==
  /\ confirming[u] > 0
  /\ confirming' = [confirming EXCEPT ![u] = @ - 1]
  /\ stocked' = [stocked EXCEPT ![u] = @ + 1]
  /\ UNCHANGED <<row, link, object, pc, reply, excused, faults>>

ConfirmFails(u) ==
  /\ confirming[u] > 0
  /\ Faults(1)
  /\ confirming' = [confirming EXCEPT ![u] = @ - 1]
  /\ UNCHANGED <<row, link, object, pc, reply, stocked, excused>>

\* Whatever the worker does to a task.
WorkOn(u) ==
  /\ status[u] # "absent"
  /\ \E s \in Statuses : status' = [status EXCEPT ![u] = s]
  /\ \E n \in 0..MaxRetries : retries' = [retries EXCEPT ![u] = n]
  /\ \E e \in Errors : error' = [error EXCEPT ![u] = e]
  /\ Job(u)!JobNext
  /\ UNCHANGED <<link, object, pc, reply, confirming, stocked, excused, faults>>

\* The process goes down with the handlers in it; what was being parsed is left
\* to the recovery of the worker.
Crash ==
  /\ Faults(1)
  /\ pc' = [u \in Receipts |-> IF u \in Busy THEN "over" ELSE pc[u]]
  /\ excused' = excused \cup Busy
  /\ confirming' = [u \in Receipts |-> 0]
  /\ UNCHANGED <<row, link, object, reply, stocked>>

Next ==
  \/ \E u \in Receipts :
       \/ PutObject(u)
       \/ PutFails(u)
       \/ Unreadable(u)
       \/ InsertTask(u)
       \/ LinkImage(u)
       \/ AnswerUpload(u)
       \/ UploadFails(u)
       \/ SubmitText(u)
       \/ SubmitTextFails(u)
       \/ Confirm(u)
       \/ CreateItems(u)
       \/ ConfirmFails(u)
       \/ WorkOn(u)
  \/ Crash

Spec == Init /\ [][Next]_vars

-----------------------------------------------------------------------------
(* Properties.                                                             *)

TypeOK ==
  /\ status \in [Receipts -> Statuses]
  /\ retries \in [Receipts -> 0..MaxRetries]
  /\ error \in [Receipts -> Errors]
  /\ link \in [Receipts -> BOOLEAN]
  /\ object \in [Receipts -> {"none", "stored"}]
  /\ pc \in [Receipts -> Steps]
  /\ reply \in [Receipts -> {"none", "accepted", "rejected"}]
  /\ confirming \in [Receipts -> 0..MaxConfirms]
  /\ stocked \in [Receipts -> 0..MaxConfirms]
  /\ excused \in SUBSET Receipts
  /\ faults \in 0..MaxFaults

\* The submission handlers and the worker write the same rows, and still every
\* row lives the life ReceiptJob promises: the commit with which an upload
\* links its image never undoes what the worker has done since the first one.
RowsAreJobs ==
  [][\A u \in Receipts : [Job(u)!JobNext]_(Job(u)!jobVars)]_vars

\* A client that got 202 for a photo has a task, linked to an image that is and
\* stays in MinIO; for a text it has a task.
AcceptedIsKept ==
  \A u \in Receipts : reply[u] = "accepted" =>
    /\ status[u] # "absent"
    /\ u \in Photos => link[u] /\ object[u] = "stored"

\* The compensation leaves no orphan: an image that no task refers to once its
\* upload is over is there because the process died in between, MinIO stored it
\* and reported an error, or the clean-up itself failed.
OrphansAreExcused ==
  \A u \in Photos :
    object[u] = "stored" /\ pc[u] = "over" /\ ~link[u] => u \in excused

\* Inventory is only ever made of receipts that were parsed: a confirmation
\* checks the status in one transaction and creates the items in another, and
\* no crash, recovery or retry of the worker in between invalidates the check.
StockIsParsed ==
  \A u \in Receipts : confirming[u] + stocked[u] > 0 => status[u] = "completed"

\* The inductive invariant behind these: what the position of a handler says of
\* its row and its image, and that the bound on confirmations is kept.
StepsAgree ==
  \A u \in Receipts :
    /\ pc[u] \in {"new", "stored"} => status[u] = "absent"
    /\ pc[u] \in {"inserted", "linked"} => status[u] # "absent"
    /\ u \in Busy => u \in Photos /\ object[u] = "stored"
    /\ pc[u] = "linked" => link[u]
    /\ reply[u] # "none" => pc[u] = "over"

ConfirmsBounded == \A u \in Receipts : confirming[u] + stocked[u] <= MaxConfirms

IInv ==
  /\ TypeOK
  /\ StepsAgree
  /\ ConfirmsBounded
  /\ AcceptedIsKept
  /\ OrphansAreExcused
  /\ StockIsParsed
=============================================================================
