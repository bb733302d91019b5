------------------------ MODULE ReceiptIntakeProofs ------------------------
(***************************************************************************)
(* What ReceiptIntake promises to clients and to the worker, for any       *)
(* number of receipts, confirmations and faults.                           *)
(***************************************************************************)
EXTENDS ReceiptIntake, TLAPS

LEMMA ReceiptSets == Photos \subseteq Receipts /\ Texts \subseteq Receipts
  BY DEF Receipts

LEMMA InitIInv == Init => IInv
  <1> SUFFICES ASSUME Init PROVE IInv
    OBVIOUS
  <1>1. TypeOK
    BY IntakeAssumption DEF Init, TypeOK, Statuses, Errors, Steps
  <1>2. StepsAgree /\ ConfirmsBounded
    BY IntakeAssumption DEF Init, StepsAgree, ConfirmsBounded, Busy
  <1>3. AcceptedIsKept /\ OrphansAreExcused /\ StockIsParsed
    BY ReceiptSets DEF Init, AcceptedIsKept, OrphansAreExcused, StockIsParsed
  <1> QED
    BY <1>1, <1>2, <1>3 DEF IInv

\* All that is assumed of the worker: it moves an existing row on, one at a
\* time, as ReceiptJob allows, and a verdict is final.
LEMMA WorkerStep ==
  ASSUME TypeOK, NEW u \in Receipts, WorkOn(u)
  PROVE  /\ status' \in [Receipts -> Statuses]
         /\ retries' \in [Receipts -> 0..MaxRetries]
         /\ error' \in [Receipts -> Errors]
         /\ \A v \in Receipts \ {u} :
              status'[v] = status[v] /\ retries'[v] = retries[v] /\ error'[v] = error[v]
         /\ status[u] # "absent" /\ status'[u] # "absent"
         /\ status[u] = "completed" => status'[u] = "completed"
  <1>1. PICK s \in Statuses : status' = [status EXCEPT ![u] = s]
    BY DEF WorkOn
  <1>2. PICK n \in 0..MaxRetries : retries' = [retries EXCEPT ![u] = n]
    BY DEF WorkOn
  <1>3. PICK e \in Errors : error' = [error EXCEPT ![u] = e]
    BY DEF WorkOn
  <1>4. /\ status' \in [Receipts -> Statuses]
        /\ \A v \in Receipts \ {u} : status'[v] = status[v]
    BY <1>1 DEF TypeOK
  <1>5. /\ retries' \in [Receipts -> 0..MaxRetries]
        /\ \A v \in Receipts \ {u} : retries'[v] = retries[v]
    BY <1>2 DEF TypeOK
  <1>6. /\ error' \in [Receipts -> Errors]
        /\ \A v \in Receipts \ {u} : error'[v] = error[v]
    BY <1>3 DEF TypeOK
  <1>7. status[u] # "absent" /\ Job(u)!JobNext
    BY DEF WorkOn
  <1>8. status'[u] # "absent" /\ (status[u] = "completed" => status'[u] = "completed")
    BY <1>7 DEF Job!JobNext, Job!Accept, Job!Start, Job!PutBack, Job!Retry,
                Job!Complete, Job!Reject
  <1> QED
    BY <1>4, <1>5, <1>6, <1>7, <1>8

\* Every step keeps the types.
LEMMA TypeStep ==
  TypeOK /\ StepsAgree /\ ConfirmsBounded /\ [Next]_vars => TypeOK' /\ ConfirmsBounded'
  <1> SUFFICES ASSUME TypeOK, StepsAgree, ConfirmsBounded, [Next]_vars
               PROVE  TypeOK' /\ ConfirmsBounded'
    OBVIOUS
  <1> USE IntakeAssumption DEF TypeOK, ConfirmsBounded, Steps, row
  <1>1. ASSUME NEW u \in Receipts, PutObject(u) PROVE TypeOK' /\ ConfirmsBounded'
    BY <1>1 DEF PutObject, Goto
  <1>2. ASSUME NEW u \in Receipts, PutFails(u) PROVE TypeOK' /\ ConfirmsBounded'
    BY <1>2 DEF PutFails, Answer, Goto, Faults
  <1>3. ASSUME NEW u \in Receipts, Unreadable(u) PROVE TypeOK' /\ ConfirmsBounded'
    BY <1>3 DEF Unreadable, CleanUp, Answer, Goto, Faults
  <1>4. ASSUME NEW u \in Receipts, InsertTask(u) PROVE TypeOK' /\ ConfirmsBounded'
    BY <1>4 DEF InsertTask, Goto, Statuses
  <1>5. ASSUME NEW u \in Receipts, LinkImage(u) PROVE TypeOK' /\ ConfirmsBounded'
    BY <1>5 DEF LinkImage, Goto
  <1>6. ASSUME NEW u \in Receipts, AnswerUpload(u) PROVE TypeOK' /\ ConfirmsBounded'
    BY <1>6 DEF AnswerUpload, Answer, Goto
  <1>7. ASSUME NEW u \in Receipts, UploadFails(u) PROVE TypeOK' /\ ConfirmsBounded'
    BY <1>7 DEF UploadFails, CleanUp, Answer, Goto, Faults
  <1>8. ASSUME NEW u \in Receipts, SubmitText(u) PROVE TypeOK' /\ ConfirmsBounded'
    BY <1>8 DEF SubmitText, Answer, Goto, Faults, Statuses
  <1>9. ASSUME NEW u \in Receipts, SubmitTextFails(u) PROVE TypeOK' /\ ConfirmsBounded'
    BY <1>9 DEF SubmitTextFails, Answer, Goto, Faults
  <1>10. ASSUME NEW u \in Receipts, Confirm(u) PROVE TypeOK' /\ ConfirmsBounded'
    BY <1>10 DEF Confirm
  <1>11. ASSUME NEW u \in Receipts, CreateItems(u) PROVE TypeOK' /\ ConfirmsBounded'
    BY <1>11 DEF CreateItems
  <1>12. ASSUME NEW u \in Receipts, ConfirmFails(u) PROVE TypeOK' /\ ConfirmsBounded'
    BY <1>12 DEF ConfirmFails, Faults
  <1>13. ASSUME NEW u \in Receipts, WorkOn(u) PROVE TypeOK' /\ ConfirmsBounded'
    BY <1>13, WorkerStep DEF WorkOn
  <1>14. CASE Crash
    BY <1>14 DEF Crash, Faults, Busy
  <1>15. CASE UNCHANGED vars
    BY <1>15 DEF vars, row
  <1> QED
    BY <1>1, <1>2, <1>3, <1>4, <1>5, <1>6, <1>7, <1>8, <1>9, <1>10, <1>11,
       <1>12, <1>13, <1>14, <1>15 DEF Next

\* What a handler's position says of its row and its image.
LEMMA StepsStep == TypeOK /\ StepsAgree /\ [Next]_vars => StepsAgree'
  <1> SUFFICES ASSUME TypeOK, StepsAgree, [Next]_vars PROVE StepsAgree'
    OBVIOUS
  <1> USE IntakeAssumption, ReceiptSets DEF TypeOK, StepsAgree, Busy, row
  <1>1. ASSUME NEW u \in Receipts, PutObject(u) PROVE StepsAgree'
    BY <1>1 DEF PutObject, Goto
  <1>2. ASSUME NEW u \in Receipts, PutFails(u) PROVE StepsAgree'
    BY <1>2 DEF PutFails, Answer, Goto, Faults
  <1>3. ASSUME NEW u \in Receipts, Unreadable(u) PROVE StepsAgree'
    BY <1>3 DEF Unreadable, CleanUp, Answer, Goto, Faults
  <1>4. ASSUME NEW u \in Receipts, InsertTask(u) PROVE StepsAgree'
    BY <1>4 DEF InsertTask, Goto
  <1>5. ASSUME NEW u \in Receipts, LinkImage(u) PROVE StepsAgree'
    BY <1>5 DEF LinkImage, Goto
  <1>6. ASSUME NEW u \in Receipts, AnswerUpload(u) PROVE StepsAgree'
    BY <1>6 DEF AnswerUpload, Answer, Goto
  <1>7. ASSUME NEW u \in Receipts, UploadFails(u) PROVE StepsAgree'
    BY <1>7 DEF UploadFails, CleanUp, Answer, Goto, Faults
  <1>8. ASSUME NEW u \in Receipts, SubmitText(u) PROVE StepsAgree'
    BY <1>8 DEF SubmitText, Answer, Goto, Faults
  <1>9. ASSUME NEW u \in Receipts, SubmitTextFails(u) PROVE StepsAgree'
    BY <1>9 DEF SubmitTextFails, Answer, Goto, Faults
  <1>10. ASSUME NEW u \in Receipts, Confirm(u) PROVE StepsAgree'
    BY <1>10 DEF Confirm
  <1>11. ASSUME NEW u \in Receipts, CreateItems(u) PROVE StepsAgree'
    BY <1>11 DEF CreateItems
  <1>12. ASSUME NEW u \in Receipts, ConfirmFails(u) PROVE StepsAgree'
    BY <1>12 DEF ConfirmFails, Faults
  <1>13. ASSUME NEW u \in Receipts, WorkOn(u) PROVE StepsAgree'
    BY <1>13, WorkerStep, ZenonT(60) DEF WorkOn
  <1>14. CASE Crash
    BY <1>14 DEF Crash, Faults, Busy
  <1>15. CASE UNCHANGED vars
    BY <1>15 DEF vars, row
  <1> QED
    BY <1>1, <1>2, <1>3, <1>4, <1>5, <1>6, <1>7, <1>8, <1>9, <1>10, <1>11,
       <1>12, <1>13, <1>14, <1>15 DEF Next

\* An accepted receipt keeps its task, its link and its image.
LEMMA AcceptedStep ==
  TypeOK /\ StepsAgree /\ AcceptedIsKept /\ [Next]_vars => AcceptedIsKept'
  <1> SUFFICES ASSUME TypeOK, StepsAgree, AcceptedIsKept, [Next]_vars PROVE AcceptedIsKept'
    OBVIOUS
  <1> USE IntakeAssumption, ReceiptSets DEF TypeOK, StepsAgree, AcceptedIsKept, Busy, row
  <1>1. ASSUME NEW u \in Receipts, PutObject(u) PROVE AcceptedIsKept'
    BY <1>1 DEF PutObject, Goto
  <1>2. ASSUME NEW u \in Receipts, PutFails(u) PROVE AcceptedIsKept'
    BY <1>2 DEF PutFails, Answer, Goto, Faults
  <1>3. ASSUME NEW u \in Receipts, Unreadable(u) PROVE AcceptedIsKept'
    BY <1>3 DEF Unreadable, CleanUp, Answer, Goto, Faults
  <1>4. ASSUME NEW u \in Receipts, InsertTask(u) PROVE AcceptedIsKept'
    BY <1>4 DEF InsertTask, Goto
  <1>5. ASSUME NEW u \in Receipts, LinkImage(u) PROVE AcceptedIsKept'
    BY <1>5 DEF LinkImage, Goto
  <1>6. ASSUME NEW u \in Receipts, AnswerUpload(u) PROVE AcceptedIsKept'
    BY <1>6 DEF AnswerUpload, Answer, Goto
  <1>7. ASSUME NEW u \in Receipts, UploadFails(u) PROVE AcceptedIsKept'
    BY <1>7 DEF UploadFails, CleanUp, Answer, Goto, Faults
  <1>8. ASSUME NEW u \in Receipts, SubmitText(u) PROVE AcceptedIsKept'
    BY <1>8 DEF SubmitText, Answer, Goto, Faults
  <1>9. ASSUME NEW u \in Receipts, SubmitTextFails(u) PROVE AcceptedIsKept'
    BY <1>9 DEF SubmitTextFails, Answer, Goto, Faults
  <1>10. ASSUME NEW u \in Receipts, Confirm(u) PROVE AcceptedIsKept'
    BY <1>10 DEF Confirm
  <1>11. ASSUME NEW u \in Receipts, CreateItems(u) PROVE AcceptedIsKept'
    BY <1>11 DEF CreateItems
  <1>12. ASSUME NEW u \in Receipts, ConfirmFails(u) PROVE AcceptedIsKept'
    BY <1>12 DEF ConfirmFails, Faults
  <1>13. ASSUME NEW u \in Receipts, WorkOn(u) PROVE AcceptedIsKept'
    BY <1>13, WorkerStep, ZenonT(60) DEF WorkOn
  <1>14. CASE Crash
    BY <1>14 DEF Crash, Faults, Busy
  <1>15. CASE UNCHANGED vars
    BY <1>15 DEF vars, row
  <1> QED
    BY <1>1, <1>2, <1>3, <1>4, <1>5, <1>6, <1>7, <1>8, <1>9, <1>10, <1>11,
       <1>12, <1>13, <1>14, <1>15 DEF Next

\* An orphan image is always excused by a fault.
LEMMA OrphansStep ==
  TypeOK /\ StepsAgree /\ OrphansAreExcused /\ [Next]_vars => OrphansAreExcused'
  <1> SUFFICES ASSUME TypeOK, StepsAgree, OrphansAreExcused, [Next]_vars
               PROVE  OrphansAreExcused'
    OBVIOUS
  <1> USE IntakeAssumption, ReceiptSets DEF TypeOK, StepsAgree, OrphansAreExcused, Busy, row
  <1>1. ASSUME NEW u \in Receipts, PutObject(u) PROVE OrphansAreExcused'
    BY <1>1 DEF PutObject, Goto
  <1>2. ASSUME NEW u \in Receipts, PutFails(u) PROVE OrphansAreExcused'
    BY <1>2 DEF PutFails, Answer, Goto, Faults
  <1>3. ASSUME NEW u \in Receipts, Unreadable(u) PROVE OrphansAreExcused'
    BY <1>3 DEF Unreadable, CleanUp, Answer, Goto, Faults
  <1>4. ASSUME NEW u \in Receipts, InsertTask(u) PROVE OrphansAreExcused'
    BY <1>4 DEF InsertTask, Goto
  <1>5. ASSUME NEW u \in Receipts, LinkImage(u) PROVE OrphansAreExcused'
    BY <1>5 DEF LinkImage, Goto
  <1>6. ASSUME NEW u \in Receipts, AnswerUpload(u) PROVE OrphansAreExcused'
    BY <1>6 DEF AnswerUpload, Answer, Goto
  <1>7. ASSUME NEW u \in Receipts, UploadFails(u) PROVE OrphansAreExcused'
    BY <1>7 DEF UploadFails, CleanUp, Answer, Goto, Faults
  <1>8. ASSUME NEW u \in Receipts, SubmitText(u) PROVE OrphansAreExcused'
    BY <1>8 DEF SubmitText, Answer, Goto, Faults
  <1>9. ASSUME NEW u \in Receipts, SubmitTextFails(u) PROVE OrphansAreExcused'
    BY <1>9 DEF SubmitTextFails, Answer, Goto, Faults
  <1>10. ASSUME NEW u \in Receipts, Confirm(u) PROVE OrphansAreExcused'
    BY <1>10 DEF Confirm
  <1>11. ASSUME NEW u \in Receipts, CreateItems(u) PROVE OrphansAreExcused'
    BY <1>11 DEF CreateItems
  <1>12. ASSUME NEW u \in Receipts, ConfirmFails(u) PROVE OrphansAreExcused'
    BY <1>12 DEF ConfirmFails, Faults
  <1>13. ASSUME NEW u \in Receipts, WorkOn(u) PROVE OrphansAreExcused'
    BY <1>13, WorkerStep DEF WorkOn
  <1>14. CASE Crash
    BY <1>14 DEF Crash, Faults, Busy
  <1>15. CASE UNCHANGED vars
    BY <1>15 DEF vars, row
  <1> QED
    BY <1>1, <1>2, <1>3, <1>4, <1>5, <1>6, <1>7, <1>8, <1>9, <1>10, <1>11,
       <1>12, <1>13, <1>14, <1>15 DEF Next

\* Stock is only made of receipts that were parsed.
LEMMA StockStep ==
  TypeOK /\ StepsAgree /\ StockIsParsed /\ [Next]_vars => StockIsParsed'
  <1> SUFFICES ASSUME TypeOK, StepsAgree, StockIsParsed, [Next]_vars PROVE StockIsParsed'
    OBVIOUS
  <1> USE IntakeAssumption, ReceiptSets DEF TypeOK, StepsAgree, StockIsParsed, Busy, row
  <1>1. ASSUME NEW u \in Receipts, PutObject(u) PROVE StockIsParsed'
    BY <1>1 DEF PutObject, Goto
  <1>2. ASSUME NEW u \in Receipts, PutFails(u) PROVE StockIsParsed'
    BY <1>2 DEF PutFails, Answer, Goto, Faults
  <1>3. ASSUME NEW u \in Receipts, Unreadable(u) PROVE StockIsParsed'
    BY <1>3 DEF Unreadable, CleanUp, Answer, Goto, Faults
  <1>4. ASSUME NEW u \in Receipts, InsertTask(u) PROVE StockIsParsed'
    BY <1>4 DEF InsertTask, Goto
  <1>5. ASSUME NEW u \in Receipts, LinkImage(u) PROVE StockIsParsed'
    BY <1>5 DEF LinkImage, Goto
  <1>6. ASSUME NEW u \in Receipts, AnswerUpload(u) PROVE StockIsParsed'
    BY <1>6 DEF AnswerUpload, Answer, Goto
  <1>7. ASSUME NEW u \in Receipts, UploadFails(u) PROVE StockIsParsed'
    BY <1>7 DEF UploadFails, CleanUp, Answer, Goto, Faults
  <1>8. ASSUME NEW u \in Receipts, SubmitText(u) PROVE StockIsParsed'
    BY <1>8 DEF SubmitText, Answer, Goto, Faults
  <1>9. ASSUME NEW u \in Receipts, SubmitTextFails(u) PROVE StockIsParsed'
    BY <1>9 DEF SubmitTextFails, Answer, Goto, Faults
  <1>10. ASSUME NEW u \in Receipts, Confirm(u) PROVE StockIsParsed'
    BY <1>10 DEF Confirm
  <1>11. ASSUME NEW u \in Receipts, CreateItems(u) PROVE StockIsParsed'
    BY <1>11 DEF CreateItems
  <1>12. ASSUME NEW u \in Receipts, ConfirmFails(u) PROVE StockIsParsed'
    BY <1>12 DEF ConfirmFails, Faults
  <1>13. ASSUME NEW u \in Receipts, WorkOn(u) PROVE StockIsParsed'
    BY <1>13, WorkerStep DEF WorkOn
  <1>14. CASE Crash
    BY <1>14 DEF Crash, Faults, Busy
  <1>15. CASE UNCHANGED vars
    BY <1>15 DEF vars, row
  <1> QED
    BY <1>1, <1>2, <1>3, <1>4, <1>5, <1>6, <1>7, <1>8, <1>9, <1>10, <1>11,
       <1>12, <1>13, <1>14, <1>15 DEF Next

\* The invariant is inductive.
LEMMA Inductive == IInv /\ [Next]_vars => IInv'
  BY TypeStep, StepsStep, AcceptedStep, OrphansStep, StockStep DEF IInv

LEMMA Invariance == Spec => []IInv
  BY InitIInv, Inductive, PTL DEF Spec

-----------------------------------------------------------------------------

\* Type correctness of rows, images, handlers and counters.
THEOREM TypeCorrect == Spec => []TypeOK
  <1>1. IInv => TypeOK
    BY DEF IInv
  <1> QED
    BY <1>1, Invariance, PTL

\* A client that got 202 has a task and, for a photo, its image in MinIO.
THEOREM AcceptedTheorem == Spec => []AcceptedIsKept
  <1>1. IInv => AcceptedIsKept
    BY DEF IInv
  <1> QED
    BY <1>1, Invariance, PTL

\* The compensation of upload_receipt_image leaves only excused orphans.
THEOREM OrphanTheorem == Spec => []OrphansAreExcused
  <1>1. IInv => OrphansAreExcused
    BY DEF IInv
  <1> QED
    BY <1>1, Invariance, PTL

\* confirm_receipt_items makes inventory of parsed receipts only, although its
\* check and its commit are separate transactions.
THEOREM StockTheorem == Spec => []StockIsParsed
  <1>1. IInv => StockIsParsed
    BY DEF IInv
  <1> QED
    BY <1>1, Invariance, PTL

\* One step moves each row as ReceiptJob allows, or leaves it alone.
LEMMA RowsStep ==
  IInv /\ [Next]_vars => \A u \in Receipts : [Job(u)!JobNext]_(Job(u)!jobVars)
  <1> DEFINE Lives == \A v \in Receipts : [Job(v)!JobNext]_(Job(v)!jobVars)
  <1>1. ASSUME UNCHANGED row PROVE Lives
    BY <1>1 DEF row, Job!jobVars
  <1>2. ASSUME TypeOK, NEW u \in Receipts, status[u] = "absent",
               status' = [status EXCEPT ![u] = "pending"], UNCHANGED <<retries, error>>
        PROVE  Lives
    BY <1>2 DEF TypeOK, Job!JobNext, Job!Accept, Job!jobVars
  <1>3. ASSUME TypeOK, NEW u \in Receipts, WorkOn(u) PROVE Lives
    <2>1. Job(u)!JobNext
      BY <1>3 DEF WorkOn
    <2>2. \A v \in Receipts \ {u} : UNCHANGED Job(v)!jobVars
      BY <1>3, WorkerStep DEF Job!jobVars
    <2> QED
      BY <2>1, <2>2
  <1>4. IInv /\ [Next]_vars => Lives
    <2> SUFFICES ASSUME IInv, [Next]_vars PROVE Lives
      OBVIOUS
    <2>1. TypeOK /\ StepsAgree
      BY DEF IInv
    <2>2. ASSUME NEW u \in Receipts, InsertTask(u) PROVE Lives
      <3>1. status[u] = "absent"
        BY <2>1, <2>2 DEF InsertTask, StepsAgree
      <3> QED
        BY <1>2, <2>1, <2>2, <3>1 DEF InsertTask
    <2>3. ASSUME NEW u \in Receipts, SubmitText(u) PROVE Lives
      <3>1. status[u] = "absent"
        BY <2>1, <2>3 DEF SubmitText, StepsAgree
      <3> QED
        BY <1>2, <2>1, <2>3, <3>1 DEF SubmitText
    <2>4. CASE UNCHANGED row
      BY <1>1, <2>4
    <2>5. \/ \E u \in Receipts : InsertTask(u) \/ SubmitText(u) \/ WorkOn(u)
          \/ UNCHANGED row
      BY DEF Next, vars, PutObject, PutFails, Unreadable, LinkImage, AnswerUpload,
             UploadFails, SubmitTextFails, Confirm, CreateItems, ConfirmFails, Crash
    <2> QED
      BY <1>3, <2>1, <2>2, <2>3, <2>4, <2>5
  <1> QED
    BY <1>4

\* Submissions and the worker together still let every row live the life of
\* ReceiptJob; with RefinementTheorem of TaskWorkerProofs the contract between
\* the two parts is kept from both sides.
THEOREM RowsTheorem == Spec => RowsAreJobs
<1>1. IInv /\ [Next]_vars =>
        [\A u \in Receipts : [Job(u)!JobNext]_(Job(u)!jobVars)]_vars
  BY RowsStep
<1> QED
  BY Invariance, <1>1, PTL DEF Spec, RowsAreJobs
=============================================================================
