-------------------------- MODULE UploadSyncProofs --------------------------
(***************************************************************************)
(* Proofs about UploadSync, for any set of scans, calls and requests.      *)
(***************************************************************************)
EXTENDS UploadSync, TLAPS

-----------------------------------------------------------------------------
(* Type correctness *)

LEMMA ResultType ==
    /\ Duplicate \in Result
    /\ Failure \in Result
    /\ \A i \in Nat : Created(i) \in Result
    /\ AllFailed \in [Scans -> Result]
BY DEF Duplicate, Failure, Created, AllFailed, Result

LEMMA IdleJobType == IdleJob \in Job /\ IdleJob.kind = "idle"
BY ResultType DEF IdleJob, Job, JobKind

LEMMA FreeRequestType == FreeRequest \in Request
BY ResultType DEF FreeRequest, Request, Progress, HttpStatus

\* The records the actions make of the job in hand ...
LEMMA JobStepType ==
    ASSUME NEW j \in Job, NEW k \in {0, 1, 2}
    PROVE  [j EXCEPT !.step = k] \in Job
BY DEF Job

LEMMA JobLeftType ==
    ASSUME NEW j \in Job, NEW L \in SUBSET Scans
    PROVE  [j EXCEPT !.left = L, !.step = 0] \in Job
BY DEF Job

LEMMA NewJob ==
    ASSUME NEW k \in JobKind, NEW L \in SUBSET Scans
    PROVE  /\ [IdleJob EXCEPT !.kind = k, !.left = L] \in Job
           /\ [IdleJob EXCEPT !.kind = k, !.left = L].kind = k
           /\ \A c \in Calls : [IdleJob EXCEPT !.kind = k, !.call = c, !.left = L] \in Job
<1>1. ASSUME NEW c \in Calls
      PROVE  [IdleJob EXCEPT !.kind = k, !.call = c, !.left = L] \in Job
  BY IdleJobType DEF Job
<1>2. [IdleJob EXCEPT !.kind = k, !.left = L] \in Job
  BY IdleJobType DEF Job
<1> QED
  BY <1>1, <1>2, IdleJobType DEF Job

LEMMA NewApply ==
    ASSUME NEW L \in SUBSET Scans, NEW f \in [Scans -> Result]
    PROVE  /\ [IdleJob EXCEPT !.kind = "apply", !.left = L, !.results = f] \in Job
           /\ [IdleJob EXCEPT !.kind = "apply", !.left = L, !.results = f].kind = "apply"
BY IdleJobType DEF Job, JobKind

\* ... and of an open request.
LEMMA RequestAt ==
    ASSUME NEW q \in Request, NEW w \in Progress
    PROVE  /\ [q EXCEPT !.at = w] \in Request
           /\ \A h \in HttpStatus : [q EXCEPT !.at = w, !.http = h] \in Request
BY DEF Request

LEMMA RequestWork ==
    ASSUME NEW q \in Request, NEW w \in Progress, NEW L \in SUBSET Scans
    PROVE  /\ [q EXCEPT !.at = w, !.left = L] \in Request
           /\ \A f \in [Scans -> Result] :
                  [q EXCEPT !.at = w, !.left = L, !.results = f] \in Request
BY DEF Request

LEMMA RequestCall ==
    ASSUME NEW q \in Request, NEW c \in Calls \cup {NoCall}
    PROVE  /\ \A w \in Progress, L \in SUBSET Scans :
                  [q EXCEPT !.at = w, !.call = c, !.rows = L] \in Request
           /\ \A f \in [Scans -> Result] : [q EXCEPT !.call = c, !.results = f] \in Request
BY DEF Request

LEMMA RequestFields ==
    ASSUME NEW q \in Request
    PROVE  /\ q.call \in Calls \cup {NoCall}
           /\ q.rows \in SUBSET Scans
           /\ q.left \in SUBSET Scans
           /\ q.results \in [Scans -> Result]
BY DEF Request

LEMMA AbandonType == ASSUME NEW q \in Request PROVE Abandon(q) \in Request
BY FreeRequestType, RequestCall, ResultType DEF Abandon

LEMMA RepliedType ==
    ASSUME NEW q \in Request, NEW h \in HttpStatus PROVE Replied(q, h) \in Request
<1>1. [q EXCEPT !.at = "answered", !.http = h] \in Request
  BY RequestAt DEF Progress
<1> QED
  BY <1>1, FreeRequestType DEF Replied

LEMMA SettledType ==
    ASSUME NEW q \in Request, NEW s \in Scans, NEW x \in Result
    PROVE  Settled(q, s, x) \in Request
<1> DEFINE f == IF q.call = NoCall THEN q.results ELSE [q.results EXCEPT ![s] = x]
<1>1. f \in [Scans -> Result] /\ q.left \ {s} \in SUBSET Scans
  BY RequestFields
<1>2. "find" \in Progress
  BY DEF Progress
<1>3. [q EXCEPT !.at = "find", !.left = q.left \ {s}, !.results = f] \in Request
  BY <1>1, <1>2, RequestWork
<1> QED
  BY <1>3 DEF Settled

\* One request is replaced by another.
LEMMA OneRequest ==
    ASSUME req \in [Requests -> Request], NEW r \in Requests, NEW q \in Request
    PROVE  [req EXCEPT ![r] = q] \in [Requests -> Request]
OBVIOUS

\* Each action of the phone and of the server keeps the variables in their types.
LEMMA TypeStep == TypeOK /\ [Next]_vars => TypeOK'
<1> SUFFICES ASSUME TypeOK, [Next]_vars PROVE TypeOK'
  OBVIOUS
<1> USE DEF phoneDb, serverDb
<1>1. ASSUME NEW s \in Scans, EnqueueUpload(s) PROVE TypeOK'
  BY <1>1, IdleJobType DEF EnqueueUpload, TypeOK, QueueStatus
<1>2. ASSUME NEW s \in Scans, MarkInFlight(s) PROVE TypeOK'
  BY <1>2 DEF MarkInFlight, UpdateQueueStatus, TypeOK, QueueStatus, Job
<1>3. ASSUME NEW s \in Scans, MarkScanUploaded(s) PROVE TypeOK'
  <2>1. job' \in Job
    BY <1>3, JobStepType DEF MarkScanUploaded, TypeOK
  <2>2. job.results[s].sid \in Nat
    BY DEF TypeOK, Job, Result
  <2>3. job'.kind = "apply"
    BY <1>3 DEF MarkScanUploaded, TypeOK, Job
  <2> QED
    BY <1>3, <2>1, <2>2, <2>3 DEF MarkScanUploaded, TypeOK
<1>4. ASSUME NEW s \in Scans, MarkDone(s) PROVE TypeOK'
  BY <1>4 DEF MarkDone, UpdateQueueStatus, TypeOK, QueueStatus, Job
<1>5. ASSUME NEW s \in Scans, job.kind = "apply", NextResult(s)
      PROVE  job' \in Job /\ job'.kind # "mark"
  <2>1. job.left \ {s} \in SUBSET Scans
    BY DEF TypeOK, Job
  <2>2. job' \in Job
    BY <1>5, <2>1, IdleJobType, JobLeftType DEF NextResult, TypeOK
  <2>3. job'.kind # "mark"
    BY <1>5, IdleJobType DEF NextResult, TypeOK, Job
  <2> QED
    BY <2>2, <2>3
<1>6. ASSUME NEW s \in Scans, RemoveQueueRow(s) PROVE TypeOK'
  BY <1>5, <1>6 DEF RemoveQueueRow, TypeOK, QueueStatus
<1>7. ASSUME NEW s \in Scans, MarkFailed(s) PROVE TypeOK'
  BY <1>5, <1>7 DEF MarkFailed, UpdateQueueStatus, TypeOK, QueueStatus
<1>8. ASSUME NEW r \in Requests, SendRequest(r) PROVE TypeOK'
  <2>1. job.call \in Calls
    BY <1>8 DEF SendRequest, TypeOK
  <2> DEFINE q == [FreeRequest EXCEPT !.at = "transit", !.call = job.call,
                                      !.rows = call[job.call]]
  <2>2. q \in Request
    BY <2>1, FreeRequestType, RequestCall DEF TypeOK, Progress
  <2>3. req' \in [Requests -> Request]
    BY <1>8, <2>2, OneRequest DEF SendRequest, TypeOK
  <2> QED
    BY <1>8, <2>3, IdleJobType DEF SendRequest, TypeOK
<1>9. ASSUME NEW s \in Scans, PersistScan(s) PROVE TypeOK'
  <2>1. job' \in Job /\ job'.kind = "enqueue"
    BY <1>9, NewJob DEF PersistScan, JobKind
  <2> QED
    BY <1>9, <2>1 DEF PersistScan, TypeOK
<1>10. ASSUME NEW s \in Scans, HandleDelete(s) PROVE TypeOK'
  BY <1>10 DEF HandleDelete, TypeOK, QueueStatus
<1>11. ASSUME NEW c \in Calls, NEW T \in SUBSET Scans, StartCall(c, T) PROVE TypeOK'
  <2>1. job' \in Job
    BY <1>11, NewJob DEF StartCall, JobKind
  <2>2. job'.call \in Calls
    BY <1>11, IdleJobType DEF StartCall, Job
  <2> QED
    BY <1>11, <2>1, <2>2 DEF StartCall, TypeOK
<1>12. ASSUME NEW c \in Calls, GiveUp(c) PROVE TypeOK'
  <2>1. job' \in Job /\ job'.kind = "apply"
    BY <1>12, NewJob DEF GiveUp, TypeOK, JobKind
  <2>2. req' \in [Requests -> Request]
    BY <1>12, AbandonType DEF GiveUp, TypeOK
  <2> QED
    BY <1>12, <2>1, <2>2 DEF GiveUp, TypeOK
<1>13. ASSUME NEW r \in Requests, ReceiveAnswer(r) PROVE TypeOK'
  <2>1. job' \in Job /\ job'.kind = "apply"
    <3>1. req[r].rows \in SUBSET Scans /\ req[r].results \in [Scans -> Result]
      BY RequestFields DEF TypeOK
    <3> QED
      BY <1>13, <3>1, NewApply DEF ReceiveAnswer
  <2>2. req' \in [Requests -> Request]
    BY <1>13, FreeRequestType, OneRequest DEF ReceiveAnswer, TypeOK
  <2> QED
    BY <1>13, <2>1, <2>2 DEF ReceiveAnswer, TypeOK
<1>14. ASSUME NEW r \in Requests, NEW h \in HttpStatus, Reply(r, h)
       PROVE  req' \in [Requests -> Request]
  BY <1>14, RepliedType, OneRequest DEF Reply, TypeOK
<1>15. ASSUME NEW r \in Requests, NEW s \in Scans, NEW x \in Result, Settle(r, s, x)
       PROVE  req' \in [Requests -> Request]
  BY <1>15, SettledType, OneRequest DEF Settle, TypeOK
<1>16. ASSUME NEW r \in Requests, Refuse(r) \/ Answer(r) PROVE TypeOK'
  BY <1>14, <1>16 DEF Refuse, Answer, TypeOK, HttpStatus
<1>17. ASSUME NEW r \in Requests, Validate(r) PROVE TypeOK'
  <2>1. [req[r] EXCEPT !.at = "find", !.left = req[r].rows] \in Request
    BY RequestFields, RequestWork DEF TypeOK, Progress
  <2>2. req' \in [Requests -> Request]
    BY <1>14, <1>17, <2>1, OneRequest DEF Validate, TypeOK, HttpStatus
  <2> QED
    BY <1>17, <2>2 DEF Validate, TypeOK
<1>18. ASSUME NEW r \in Requests, NEW s \in Scans, FindDuplicate(r, s) PROVE TypeOK'
  <2>1. [req[r] EXCEPT !.at = "save"] \in Request
    <3>1. req[r] \in Request /\ "save" \in Progress
      BY DEF TypeOK, Progress
    <3> QED
      BY <3>1, RequestAt
  <2>2. req' \in [Requests -> Request]
    BY <1>15, <1>18, <2>1, OneRequest, ResultType DEF FindDuplicate, TypeOK
  <2> QED
    BY <1>18, <2>2 DEF FindDuplicate, TypeOK
<1>19. ASSUME NEW r \in Requests, NEW s \in Scans, SaveScan(r, s) PROVE TypeOK'
  <2>1. req' \in [Requests -> Request]
    BY <1>15, <1>19, ResultType DEF SaveScan, InsertRow, TypeOK
  <2>2. scanRows' \subseteq ScanRow /\ nextSid' \in Nat \ {0}
    BY <1>19 DEF SaveScan, InsertRow, TypeOK, ScanRow
  <2> QED
    BY <1>19, <2>1, <2>2 DEF SaveScan, InsertRow, TypeOK
<1>20. ASSUME NEW r \in Requests, NEW s \in Scans, DatabaseError(r, s) PROVE TypeOK'
  <2>1. req' \in [Requests -> Request]
    BY <1>15, <1>20, ResultType DEF DatabaseError
  <2> QED
    BY <1>20, <2>1 DEF DatabaseError, TypeOK
<1>21. ASSUME NEW r \in Requests, LoseRequest(r) PROVE TypeOK'
  <2>1. req' \in [Requests -> Request]
    BY <1>21, FreeRequestType, OneRequest DEF LoseRequest, TypeOK
  <2> QED
    BY <1>21, <2>1 DEF LoseRequest, TypeOK
<1>22. CASE AppDies
  BY <1>22, IdleJobType, AbandonType DEF AppDies, TypeOK
<1>23. CASE UNCHANGED vars
  BY <1>23 DEF vars, TypeOK
<1> QED
  BY <1>1, <1>2, <1>3, <1>4, <1>6, <1>7, <1>8, <1>9, <1>10, <1>11, <1>12, <1>13,
     <1>16, <1>17, <1>18, <1>19, <1>20, <1>21, <1>22, <1>23
  DEF Next, JobStep, ServerStep, SyncPending, SyncSingle

\* Every variable of phone and server keeps its type, whatever is lost on the way.
THEOREM TypeCorrect == Spec => []TypeOK
<1>1. Init => TypeOK
  BY IdleJobType, FreeRequestType DEF Init, TypeOK, QueueStatus
<1> QED
  BY <1>1, TypeStep, PTL DEF Spec

-----------------------------------------------------------------------------
(* What the phone is told is true: StoreInv is inductive *)

LEMMA JobFields ==
    /\ IdleJob.kind = "idle" /\ IdleJob.step = 0 /\ IdleJob.results = AllFailed
    /\ IdleJob.left = {}
BY DEF IdleJob

LEMMA SettledFields ==
    ASSUME NEW q \in Request, NEW s \in Scans, NEW x \in Result
    PROVE  /\ Settled(q, s, x).at = "find"
           /\ Settled(q, s, x).call = q.call
           /\ Settled(q, s, x).rows = q.rows
           /\ \A t \in Scans : Settled(q, s, x).results[t] = q.results[t]
                               \/ (t = s /\ Settled(q, s, x).results[t] = x)
BY DEF Settled, Request

LEMMA AbandonFields ==
    ASSUME NEW q \in Request
    PROVE  /\ Abandon(q).call = NoCall
           /\ Abandon(q).at # "answered"
           /\ Abandon(q).results = AllFailed
BY DEF Abandon, Request, FreeRequest

LEMMA RepliedFields ==
    ASSUME NEW q \in Request, NEW h \in HttpStatus
    PROVE  \/ Replied(q, h) = FreeRequest /\ q.call = NoCall
           \/ /\ q.call # NoCall
              /\ Replied(q, h).call = q.call
              /\ Replied(q, h).rows = q.rows
              /\ Replied(q, h).results = q.results
BY DEF Replied, Request

LEMMA FailedHonest == Honest(AllFailed)
BY DEF Honest, AllFailed, Failure

\* Only save writes the server's table: it adds a row, under a new id.
LEMMA RowsStep ==
    ASSUME TypeOK, SidsBelow, StoredOnce, [Next]_vars
    PROVE  SidsBelow' /\ StoredOnce' /\ scanRows \subseteq scanRows'
<1> USE DEF serverDb
<1>1. ASSUME NEW r \in Requests, NEW s \in Scans, SaveScan(r, s)
      PROVE  SidsBelow' /\ StoredOnce' /\ scanRows \subseteq scanRows'
  <2>1. CASE Stored(s)
    BY <1>1, <2>1 DEF SaveScan, InsertRow, SidsBelow, StoredOnce
  <2>2. CASE ~Stored(s)
    BY <1>1, <2>2 DEF SaveScan, InsertRow, SidsBelow, StoredOnce, Stored, TypeOK, ScanRow
  <2> QED
    BY <2>1, <2>2
<1>2. CASE UNCHANGED serverDb
  BY <1>2 DEF SidsBelow, StoredOnce
<1>3. ASSUME NEW s \in Scans
      PROVE  EnqueueUpload(s) \/ MarkInFlight(s) \/ MarkScanUploaded(s) \/ MarkDone(s)
             \/ RemoveQueueRow(s) \/ MarkFailed(s) \/ PersistScan(s) \/ HandleDelete(s)
             => UNCHANGED serverDb
  BY DEF EnqueueUpload, MarkInFlight, MarkScanUploaded, MarkDone, RemoveQueueRow,
         MarkFailed, PersistScan, HandleDelete
<1>4. ASSUME NEW r \in Requests
      PROVE  SendRequest(r) \/ ReceiveAnswer(r) \/ Refuse(r) \/ Validate(r) \/ Answer(r)
             \/ LoseRequest(r)
             \/ (\E s \in Scans : FindDuplicate(r, s) \/ DatabaseError(r, s))
             => UNCHANGED serverDb
  BY DEF SendRequest, ReceiveAnswer, Refuse, Validate, Answer, LoseRequest,
         FindDuplicate, DatabaseError
<1>5. ASSUME NEW c \in Calls
      PROVE  SyncPending(c) \/ GiveUp(c) \/ (\E s \in Scans : SyncSingle(c, s))
             => UNCHANGED serverDb
  BY DEF SyncPending, SyncSingle, StartCall, GiveUp
<1>6. AppDies \/ UNCHANGED vars => UNCHANGED serverDb
  BY DEF AppDies, vars
<1> QED
  BY <1>1, <1>2, <1>3, <1>4, <1>5, <1>6 DEF Next, JobStep, ServerStep

\* The results in the phone's hands are failures or those of a request.
LEMMA JobResults ==
    ASSUME TypeOK, [Next]_vars
    PROVE  \/ job'.results = job.results
           \/ job'.results = AllFailed
           \/ \E r \in Requests : job'.results = req[r].results
<1> DEFINE P == \/ job'.results = job.results
                \/ job'.results = AllFailed
                \/ \E r \in Requests : job'.results = req[r].results
<1>1. ASSUME NEW s \in Scans, EnqueueUpload(s) \/ PersistScan(s) PROVE P
  BY <1>1, JobFields DEF EnqueueUpload, PersistScan, IdleJob
<1>2. ASSUME NEW s \in Scans, MarkInFlight(s) \/ MarkScanUploaded(s) \/ MarkDone(s) PROVE P
  BY <1>2 DEF MarkInFlight, MarkScanUploaded, MarkDone, TypeOK, Job
<1>3. ASSUME NEW s \in Scans, RemoveQueueRow(s) \/ MarkFailed(s) PROVE P
  BY <1>3, JobFields DEF RemoveQueueRow, MarkFailed, NextResult, TypeOK, Job
<1>4. ASSUME NEW r \in Requests, SendRequest(r) \/ ReceiveAnswer(r) PROVE P
  <2>1. CASE SendRequest(r)
    BY <2>1, JobFields DEF SendRequest
  <2>2. CASE ReceiveAnswer(r)
    <3>1. job'.results = req[r].results
      BY <2>2 DEF ReceiveAnswer, IdleJob
    <3> QED
      BY <3>1
  <2> QED
    BY <1>4, <2>1, <2>2
<1>5. ASSUME NEW c \in Calls,
             GiveUp(c) \/ SyncPending(c) \/ (\E s \in Scans : SyncSingle(c, s))
      PROVE  P
  BY <1>5 DEF GiveUp, SyncPending, SyncSingle, StartCall, IdleJob
<1>6. ASSUME NEW r \in Requests, ServerStep(r) \/ LoseRequest(r) PROVE P
  BY <1>6 DEF ServerStep, Refuse, Validate, Answer, FindDuplicate, SaveScan, InsertRow,
              DatabaseError, LoseRequest
<1>7. ASSUME NEW s \in Scans, HandleDelete(s) PROVE P
  BY <1>7 DEF HandleDelete
<1>8. CASE AppDies \/ UNCHANGED vars
  BY <1>8, JobFields DEF AppDies, vars
<1> QED
  BY <1>1, <1>2, <1>3, <1>4, <1>5, <1>6, <1>7, <1>8 DEF Next, JobStep

\* The results of a request stay, are given up, or gain the answer for one scan.
LEMMA RequestResults ==
    ASSUME TypeOK, [Next]_vars, NEW r \in Requests
    PROVE  \/ req'[r].results = req[r].results
           \/ req'[r].results = AllFailed
           \/ \E s \in Scans, x \in Result :
                  /\ \A t \in Scans : req'[r].results[t] = req[r].results[t]
                                      \/ (t = s /\ req'[r].results[t] = x)
                  /\ x.status = "CREATED" => [client |-> s, sid |-> x.sid] \in scanRows'
<1> DEFINE P == \/ req'[r].results = req[r].results
                \/ req'[r].results = AllFailed
                \/ \E s \in Scans, x \in Result :
                       /\ \A t \in Scans : req'[r].results[t] = req[r].results[t]
                                           \/ (t = s /\ req'[r].results[t] = x)
                       /\ x.status = "CREATED" => [client |-> s, sid |-> x.sid] \in scanRows'
<1>0. req[r] \in Request /\ FreeRequest.results = AllFailed
  BY DEF TypeOK, FreeRequest
<1>1. ASSUME NEW q \in Requests, NEW h \in HttpStatus, Reply(q, h) PROVE P
  BY <1>0, <1>1, RepliedFields DEF Reply, TypeOK
<1>2. ASSUME NEW q \in Requests, NEW s \in Scans, NEW x \in Result, Settle(q, s, x),
             x.status = "CREATED" => [client |-> s, sid |-> x.sid] \in scanRows'
      PROVE  P
  <2>1. CASE q = r
    <3>1. req'[r] = Settled(req[r], s, x)
      BY <1>2, <2>1 DEF Settle, TypeOK
    <3>2. \A t \in Scans : Settled(req[r], s, x).results[t] = req[r].results[t]
                          \/ (t = s /\ Settled(req[r], s, x).results[t] = x)
      BY <1>0, SettledFields
    <3> QED
      BY <1>2, <3>1, <3>2
  <2>2. CASE q # r
    BY <1>2, <2>2 DEF Settle, TypeOK
  <2> QED
    BY <2>1, <2>2
<1>3. ASSUME NEW q \in Requests, Refuse(q) \/ Answer(q) PROVE P
  BY <1>1, <1>3 DEF Refuse, Answer, HttpStatus
<1>4. ASSUME NEW q \in Requests, Validate(q) PROVE P
  <2>1. CASE Reply(q, 422)
    BY <1>1, <2>1 DEF HttpStatus
  <2>2. CASE req' = [req EXCEPT ![q] = [@ EXCEPT !.at = "find", !.left = req[q].rows]]
    BY <1>0, <2>2 DEF TypeOK, Request
  <2> QED
    BY <1>4, <2>1, <2>2 DEF Validate
<1>5. ASSUME NEW q \in Requests, NEW s \in Scans, FindDuplicate(q, s) PROVE P
  <2>1. CASE Settle(q, s, Duplicate)
    BY <1>2, <2>1, ResultType DEF Duplicate
  <2>2. CASE req' = [req EXCEPT ![q] = [@ EXCEPT !.at = "save"]]
    BY <1>0, <2>2 DEF TypeOK, Request
  <2> QED
    BY <1>5, <2>1, <2>2 DEF FindDuplicate
<1>6. ASSUME NEW q \in Requests, NEW s \in Scans, SaveScan(q, s) PROVE P
  <2>1. CASE Settle(q, s, Failure)
    BY <1>2, <2>1, ResultType DEF Failure
  <2>2. CASE /\ Settle(q, s, Created(nextSid))
             /\ scanRows' = scanRows \cup {[client |-> s, sid |-> nextSid]}
    <3>1. Created(nextSid) \in Result /\ Created(nextSid).sid = nextSid
      BY ResultType DEF Created, TypeOK
    <3> QED
      BY <1>2, <2>2, <3>1
  <2> QED
    BY <1>6, <2>1, <2>2 DEF SaveScan, InsertRow
<1>7. ASSUME NEW q \in Requests, NEW s \in Scans, DatabaseError(q, s) PROVE P
  BY <1>2, <1>7, ResultType DEF DatabaseError, Failure
<1>8. ASSUME NEW q \in Requests, LoseRequest(q) \/ ReceiveAnswer(q) PROVE P
  BY <1>0, <1>8 DEF LoseRequest, ReceiveAnswer, TypeOK
<1>9. ASSUME NEW q \in Requests, SendRequest(q) PROVE P
  <2>1. CASE q = r
    BY <1>9, <2>1 DEF SendRequest, TypeOK, FreeRequest
  <2>2. CASE q # r
    BY <1>9, <2>2 DEF SendRequest, TypeOK
  <2> QED
    BY <2>1, <2>2
<1>10. ASSUME NEW c \in Calls, GiveUp(c) PROVE P
  BY <1>0, <1>10, AbandonFields DEF GiveUp
<1>11. CASE AppDies
  BY <1>0, <1>11, AbandonFields DEF AppDies
<1>12. ASSUME NEW s \in Scans,
              EnqueueUpload(s) \/ MarkInFlight(s) \/ MarkScanUploaded(s) \/ MarkDone(s)
              \/ RemoveQueueRow(s) \/ MarkFailed(s) \/ PersistScan(s) \/ HandleDelete(s)
       PROVE  P
  BY <1>12 DEF EnqueueUpload, MarkInFlight, MarkScanUploaded, MarkDone, RemoveQueueRow,
               MarkFailed, PersistScan, HandleDelete
<1>13. ASSUME NEW c \in Calls, SyncPending(c) \/ (\E s \in Scans : SyncSingle(c, s))
       PROVE  P
  BY <1>13 DEF SyncPending, SyncSingle, StartCall
<1>14. CASE UNCHANGED vars
  BY <1>14 DEF vars
<1> QED
  BY <1>3, <1>4, <1>5, <1>6, <1>7, <1>8, <1>9, <1>10, <1>11, <1>12, <1>13, <1>14
  DEF Next, JobStep, ServerStep

LEMMA ResultsHonestStep ==
    ASSUME TypeOK, ResultsHonest, scanRows \subseteq scanRows', [Next]_vars
    PROVE  ResultsHonest'
<1>1. Honest(job.results)'
  BY JobResults, FailedHonest DEF ResultsHonest, Honest
<1>2. ASSUME NEW r \in Requests PROVE Honest(req[r].results)'
  BY RequestResults, FailedHonest DEF ResultsHonest, Honest
<1> QED
  BY <1>1, <1>2 DEF ResultsHonest

\* markScanUploaded alone writes server_scan_id, with the id of a CREATED result.
LEMMA UploadedStep ==
    ASSUME TypeOK, [Next]_vars
    PROVE  \/ uploaded' = uploaded
           \/ \E s \in Scans : MarkScanUploaded(s)
<1>1. ASSUME NEW s \in Scans
      PROVE  EnqueueUpload(s) \/ MarkInFlight(s) \/ MarkDone(s) \/ RemoveQueueRow(s)
             \/ MarkFailed(s) \/ PersistScan(s) \/ HandleDelete(s)
             => uploaded' = uploaded
  BY DEF EnqueueUpload, MarkInFlight, MarkDone, RemoveQueueRow, MarkFailed, PersistScan,
         HandleDelete
<1>2. ASSUME NEW r \in Requests
      PROVE  SendRequest(r) \/ ReceiveAnswer(r) \/ ServerStep(r) \/ LoseRequest(r)
             => uploaded' = uploaded
  BY DEF SendRequest, ReceiveAnswer, ServerStep, Refuse, Validate, Answer, FindDuplicate,
         SaveScan, InsertRow, DatabaseError, LoseRequest, phoneDb
<1>3. ASSUME NEW c \in Calls
      PROVE  SyncPending(c) \/ GiveUp(c) \/ (\E s \in Scans : SyncSingle(c, s))
             => uploaded' = uploaded
  BY DEF SyncPending, SyncSingle, StartCall, GiveUp, phoneDb
<1>4. AppDies \/ UNCHANGED vars => uploaded' = uploaded
  BY DEF AppDies, vars, phoneDb
<1> QED
  BY <1>1, <1>2, <1>3, <1>4 DEF Next, JobStep

LEMMA MarkEffect ==
    ASSUME TypeOK, ResultsHonest, NEW s \in Scans, MarkScanUploaded(s)
    PROVE  /\ uploaded'[s] # 0
           /\ [client |-> s, sid |-> uploaded'[s]] \in scanRows
           /\ \A t \in Scans \ {s} : uploaded'[t] = uploaded[t]
<1>1. /\ uploaded'[s] = job.results[s].sid
      /\ \A t \in Scans \ {s} : uploaded'[t] = uploaded[t]
  BY DEF MarkScanUploaded, TypeOK
<1>2. [client |-> s, sid |-> job.results[s].sid] \in scanRows
  BY DEF MarkScanUploaded, ResultsHonest, Honest
<1>3. job.results[s].sid # 0
  BY <1>2 DEF TypeOK, ScanRow
<1> QED
  BY <1>1, <1>2, <1>3

LEMMA UploadedIsStoredStep ==
    ASSUME TypeOK, ResultsHonest, UploadedIsStored, scanRows \subseteq scanRows', [Next]_vars
    PROVE  UploadedIsStored'
<1>1. CASE uploaded' = uploaded
  BY <1>1 DEF UploadedIsStored
<1>2. ASSUME NEW s \in Scans, MarkScanUploaded(s) PROVE UploadedIsStored'
  BY <1>2, MarkEffect DEF UploadedIsStored
<1> QED
  BY <1>1, <1>2, UploadedStep

\* The job gets past its first write of a result by that write alone.
LEMMA MarkedFirstStep ==
    ASSUME TypeOK, ResultsHonest, MarkedFirst, [Next]_vars
    PROVE  MarkedFirst'
<1>1. ASSUME NEW s \in Scans, MarkScanUploaded(s) PROVE MarkedFirst'
  <2>1. job'.left = job.left
    BY <1>1 DEF MarkScanUploaded, TypeOK, Job
  <2>2. ASSUME NEW t \in Scans, Oldest(t, job'.left) PROVE t = s
    BY <1>1, <2>1, <2>2, ConstantsAssumption DEF MarkScanUploaded, Oldest
  <2> QED
    BY <1>1, <2>2, MarkEffect DEF MarkedFirst, Oldest
<1>2. ASSUME NEW s \in Scans, MarkDone(s) PROVE MarkedFirst'
  <2>1. job'.left = job.left
    BY <1>2 DEF MarkDone, TypeOK, Job
  <2> QED
    BY <1>2, <2>1 DEF MarkDone, MarkedFirst, Oldest
<1>3. ASSUME job'.step = 0 \/ job'.kind # "apply" PROVE MarkedFirst'
  BY <1>3 DEF MarkedFirst
<1>4. ASSUME job' = job, uploaded' = uploaded PROVE MarkedFirst'
  BY <1>4 DEF MarkedFirst, Oldest
<1>5. ASSUME NEW s \in Scans, EnqueueUpload(s) \/ PersistScan(s) PROVE job'.step = 0
  BY <1>5, JobFields DEF EnqueueUpload, PersistScan, IdleJob
<1>14. ASSUME NEW s \in Scans, MarkInFlight(s) PROVE job'.kind # "apply"
  BY <1>14 DEF MarkInFlight, TypeOK, Job
<1>6. ASSUME NEW s \in Scans, RemoveQueueRow(s) \/ MarkFailed(s) PROVE job'.step = 0
  BY <1>6, JobFields DEF RemoveQueueRow, MarkFailed, NextResult, TypeOK, Job
<1>7. ASSUME NEW r \in Requests, SendRequest(r) PROVE job'.step = 0
  BY <1>7, JobFields DEF SendRequest
<1>8. ASSUME NEW r \in Requests, ReceiveAnswer(r) PROVE job'.step = 0
  BY <1>8 DEF ReceiveAnswer, IdleJob
<1>9. ASSUME NEW c \in Calls,
             GiveUp(c) \/ SyncPending(c) \/ (\E s \in Scans : SyncSingle(c, s))
      PROVE  job'.step = 0
  BY <1>9 DEF GiveUp, SyncPending, SyncSingle, StartCall, IdleJob
<1>10. AppDies => job'.step = 0
  BY JobFields DEF AppDies
<1>11. ASSUME NEW r \in Requests, ServerStep(r) \/ LoseRequest(r)
       PROVE  job' = job /\ uploaded' = uploaded
  BY <1>11 DEF ServerStep, Refuse, Validate, Answer, FindDuplicate, SaveScan, InsertRow,
               DatabaseError, LoseRequest, phoneDb
<1>12. ASSUME NEW s \in Scans, HandleDelete(s) PROVE job' = job /\ uploaded' = uploaded
  BY <1>12 DEF HandleDelete
<1>13. UNCHANGED vars => job' = job /\ uploaded' = uploaded
  BY DEF vars
<1> QED
  BY <1>1, <1>2, <1>3, <1>4, <1>5, <1>6, <1>7, <1>8, <1>9, <1>10, <1>11, <1>12, <1>13,
     <1>14
  DEF Next, JobStep

LEMMA StoreInit == Init => StoreInv
<1>1. Init => UploadedIsStored
  BY DEF Init, UploadedIsStored
<1>2. Init => ResultsHonest
  BY FailedHonest, JobFields DEF Init, ResultsHonest, FreeRequest
<1>3. Init => SidsBelow /\ StoredOnce /\ MarkedFirst
  BY JobFields DEF Init, SidsBelow, StoredOnce, MarkedFirst
<1> QED
  BY <1>1, <1>2, <1>3 DEF StoreInv

LEMMA StoreStep == TypeOK /\ StoreInv /\ [Next]_vars => StoreInv'
BY RowsStep, ResultsHonestStep, UploadedIsStoredStep, MarkedFirstStep DEF StoreInv

\* StoreInv holds: the table has unique ids, and nothing the phone is told is false.
THEOREM StoreInvariant == Spec => []StoreInv
BY TypeCorrect, StoreInit, StoreStep, PTL DEF Spec

\* The server keeps one row for every client_scan_id, although findOne and save are
\* two operations and the handlers of overlapping uploads run between them.
THEOREM StoredOnceHolds == Spec => []StoredOnce
<1>1. StoreInv => StoredOnce
  BY DEF StoreInv
<1> QED
  BY <1>1, StoreInvariant, PTL

\* A server_scan_id on the phone is the id of the scan's row at the server, whatever
\* answers were late, lost or given up.
THEOREM UploadedIsStoredHolds == Spec => []UploadedIsStored
<1>1. StoreInv => UploadedIsStored
  BY DEF StoreInv
<1> QED
  BY <1>1, StoreInvariant, PTL

-----------------------------------------------------------------------------
(* The upload queue and the ledger *)

\* A row leaves the queue only when the phone has the server's id for the scan, or
\* when the user removes it.
LEMMA DropStep ==
    ASSUME TypeOK, MarkedFirst, [Next]_vars, NEW s \in Scans,
           queue[s] # "none", queue'[s] = "none"
    PROVE  uploaded[s] # 0 \/ HandleDelete(s)
<1>1. ASSUME NEW t \in Scans, RemoveQueueRow(t) PROVE uploaded[s] # 0
  <2>1. t = s
    BY <1>1 DEF RemoveQueueRow, TypeOK
  <2> QED
    BY <1>1, <2>1 DEF RemoveQueueRow, MarkedFirst
<1>2. ASSUME NEW t \in Scans, HandleDelete(t) PROVE HandleDelete(s)
  <2>1. t = s
    BY <1>2 DEF HandleDelete, TypeOK
  <2> QED
    BY <1>2, <2>1
<1>3. ASSUME NEW t \in Scans
      PROVE  ~ (MarkInFlight(t) \/ MarkDone(t) \/ MarkFailed(t) \/ EnqueueUpload(t))
  BY DEF MarkInFlight, MarkDone, MarkFailed, EnqueueUpload, UpdateQueueStatus, TypeOK
<1>4. ASSUME NEW t \in Scans PROVE ~ (MarkScanUploaded(t) \/ PersistScan(t))
  BY DEF MarkScanUploaded, PersistScan
<1>5. ASSUME NEW r \in Requests
      PROVE  ~ (SendRequest(r) \/ ReceiveAnswer(r) \/ ServerStep(r) \/ LoseRequest(r))
  BY DEF SendRequest, ReceiveAnswer, ServerStep, Refuse, Validate, Answer, FindDuplicate,
         SaveScan, InsertRow, DatabaseError, LoseRequest, phoneDb
<1>6. ASSUME NEW c \in Calls
      PROVE  ~ (SyncPending(c) \/ GiveUp(c) \/ (\E t \in Scans : SyncSingle(c, t)))
  BY DEF SyncPending, SyncSingle, StartCall, GiveUp, phoneDb
<1>7. ~ (AppDies \/ UNCHANGED vars)
  BY DEF AppDies, vars, phoneDb
<1> QED
  BY <1>1, <1>2, <1>3, <1>4, <1>5, <1>6, <1>7 DEF Next, JobStep

\* No failure, refusal or late answer takes a row out of the upload queue.
THEOREM NoSilentDropHolds == Spec => NoSilentDrop
<1>1. TypeOK /\ StoreInv /\ [Next]_vars
      => [\A s \in Scans : queue[s] # "none" /\ queue'[s] = "none"
                           => uploaded[s] # 0 \/ HandleDelete(s)]_vars
  BY DropStep DEF StoreInv
<1> QED
  BY <1>1, TypeCorrect, StoreInvariant, PTL DEF Spec, NoSilentDrop

LEMMA LedgerInit == Init => Ledger!Init
BY DEF Init, Ledger!Init, Receipts

\* A save enters a scan in the ledger; markScanUploaded is the phone's receipt.
LEMMA LedgerStep ==
    ASSUME TypeOK, StoreInv, [Next]_vars
    PROVE  [Ledger!Next]_(Ledger!vars)
<1> USE DEF serverDb
<1>1. CASE UNCHANGED <<scanRows, uploaded>>
  BY <1>1 DEF Ledger!vars, Receipts
<1>2. ASSUME NEW r \in Requests, NEW s \in Scans, SaveScan(r, s)
      PROVE  [Ledger!Next]_(Ledger!vars)
  <2>1. Receipts' = Receipts
    BY <1>2 DEF SaveScan, InsertRow, phoneDb, Receipts
  <2>2. CASE Stored(s)
    BY <1>2, <2>1, <2>2 DEF SaveScan, InsertRow, Ledger!vars
  <2>3. CASE ~Stored(s)
    <3> DEFINE e == [client |-> s, sid |-> nextSid]
    <3>1. scanRows' = scanRows \cup {e}
      BY <1>2, <2>3 DEF SaveScan, InsertRow
    <3>2. e \in Ledger!Entry
      BY DEF TypeOK, Ledger!Entry
    <3>3. \A f \in scanRows : f.client # e.client /\ f.sid # e.sid
      BY <2>3 DEF Stored, StoreInv, SidsBelow, TypeOK, ScanRow
    <3>4. e \in scanRows' \ scanRows
      BY <3>1, <3>3
    <3>5. Ledger!Store(e)
      BY <2>1, <3>1, <3>2, <3>3 DEF Ledger!Store
    <3> QED
      BY <3>4, <3>5 DEF Ledger!Next
  <2> QED
    BY <2>2, <2>3
<1>3. ASSUME NEW s \in Scans, MarkScanUploaded(s) PROVE [Ledger!Next]_(Ledger!vars)
  <2> DEFINE e == [client |-> s, sid |-> uploaded'[s]]
  <2>1. /\ uploaded'[s] # 0
        /\ e \in scanRows
        /\ \A t \in Scans \ {s} : uploaded'[t] = uploaded[t]
    BY <1>3, MarkEffect DEF StoreInv
  <2>2. uploaded[s] # 0 => uploaded[s] = uploaded'[s]
    BY <2>1 DEF StoreInv, StoredOnce, UploadedIsStored
  <2>3. Receipts' = Receipts \cup {e}
    <3>1. ASSUME NEW x PROVE x \in Receipts' <=> x \in Receipts \cup {e}
      BY <2>1, <2>2 DEF Receipts
    <3> QED
      BY <3>1
  <2>4. scanRows' = scanRows
    BY <1>3 DEF MarkScanUploaded
  <2>5. Ledger!Acknowledge(e)
    BY <2>3, <2>4 DEF Ledger!Acknowledge
  <2> QED
    BY <2>1, <2>5 DEF Ledger!Next
<1>4. ASSUME NEW s \in Scans
      PROVE  EnqueueUpload(s) \/ MarkInFlight(s) \/ MarkDone(s) \/ RemoveQueueRow(s)
             \/ MarkFailed(s) \/ PersistScan(s) \/ HandleDelete(s)
             => UNCHANGED <<scanRows, uploaded>>
  BY DEF EnqueueUpload, MarkInFlight, MarkDone, RemoveQueueRow, MarkFailed, PersistScan,
         HandleDelete
<1>5. ASSUME NEW r \in Requests
      PROVE  SendRequest(r) \/ ReceiveAnswer(r) \/ Refuse(r) \/ Validate(r) \/ Answer(r)
             \/ LoseRequest(r)
             \/ (\E s \in Scans : FindDuplicate(r, s) \/ DatabaseError(r, s))
             => UNCHANGED <<scanRows, uploaded>>
  BY DEF SendRequest, ReceiveAnswer, Refuse, Validate, Answer, LoseRequest,
         FindDuplicate, DatabaseError, phoneDb
<1>6. ASSUME NEW c \in Calls
      PROVE  SyncPending(c) \/ GiveUp(c) \/ (\E s \in Scans : SyncSingle(c, s))
             => UNCHANGED <<scanRows, uploaded>>
  BY DEF SyncPending, SyncSingle, StartCall, GiveUp, phoneDb
<1>7. AppDies \/ UNCHANGED vars => UNCHANGED <<scanRows, uploaded>>
  BY DEF AppDies, vars, phoneDb
<1> QED
  BY <1>1, <1>2, <1>3, <1>4, <1>5, <1>6, <1>7 DEF Next, JobStep, ServerStep

\* The phone, the network and the server together implement the ledger of scans.
THEOREM LedgerImplemented == Spec => ImplementsLedger
<1>1. TypeOK /\ StoreInv /\ [Next]_vars => [Ledger!Next]_(Ledger!vars)
  BY LedgerStep
<1> QED
  BY <1>1, LedgerInit, TypeCorrect, StoreInvariant, PTL
  DEF Spec, ImplementsLedger, Ledger!Spec

-----------------------------------------------------------------------------
(* No row is left IN_FLIGHT: HandInv is inductive *)

HandVars == <<queue, job, call, stranded>>

\* The server and the network keep what a request carries, or let go of its call.
LEMMA ServerEffect ==
    ASSUME TypeOK, \A q \in Requests : Carries(q), NEW r \in Requests,
           ServerStep(r) \/ LoseRequest(r)
    PROVE  /\ UNCHANGED HandVars
           /\ \A q \in Requests :
                  \/ req'[q].call = NoCall /\ req'[q].at # "answered"
                  \/ /\ req'[q].call = req[q].call
                     /\ req'[q].rows = req[q].rows
                     /\ req'[q].at = "answered" => req[q].call # NoCall
<1> DEFINE P(q) == \/ req'[q].call = NoCall /\ req'[q].at # "answered"
                   \/ /\ req'[q].call = req[q].call
                      /\ req'[q].rows = req[q].rows
                      /\ req'[q].at = "answered" => req[q].call # NoCall
<1>1. UNCHANGED HandVars
  BY DEF ServerStep, LoseRequest, Refuse, Validate, Answer, FindDuplicate, SaveScan, InsertRow,
         DatabaseError, HandVars, phoneDb
<1>2. ASSUME NEW q \in Requests, req'[q] = req[q] PROVE P(q)
  BY <1>2 DEF Carries
<1>3. req[r] \in Request /\ FreeRequest.call = NoCall /\ FreeRequest.at = "free"
  BY DEF TypeOK, FreeRequest
<1>4. ASSUME NEW h \in HttpStatus, Reply(r, h) PROVE \A q \in Requests : P(q)
  <2>1. req'[r] = Replied(req[r], h) /\ \A q \in Requests \ {r} : req'[q] = req[q]
    BY <1>4 DEF Reply, TypeOK
  <2>2. P(r)
    BY <1>3, <2>1, RepliedFields
  <2> QED
    BY <1>2, <2>1, <2>2
<1>5. ASSUME NEW s \in Scans, NEW x \in Result, Settle(r, s, x)
      PROVE  \A q \in Requests : P(q)
  <2>1. req'[r] = Settled(req[r], s, x) /\ \A q \in Requests \ {r} : req'[q] = req[q]
    BY <1>5 DEF Settle, TypeOK
  <2>2. P(r)
    BY <1>3, <2>1, SettledFields
  <2> QED
    BY <1>2, <2>1, <2>2
<1>6. ASSUME NEW w \in {"find", "save"}, NEW L \in SUBSET Scans,
             req' = [req EXCEPT ![r] = [@ EXCEPT !.at = w, !.left = L]]
             \/ req' = [req EXCEPT ![r] = [@ EXCEPT !.at = w]]
      PROVE  \A q \in Requests : P(q)
  <2>1. /\ req'[r].call = req[r].call /\ req'[r].rows = req[r].rows /\ req'[r].at = w
        /\ \A q \in Requests \ {r} : req'[q] = req[q]
    <3>1. CASE req' = [req EXCEPT ![r] = [@ EXCEPT !.at = w, !.left = L]]
      BY <1>3, <3>1 DEF TypeOK, Request
    <3>2. CASE req' = [req EXCEPT ![r] = [@ EXCEPT !.at = w]]
      BY <1>3, <3>2 DEF TypeOK, Request
    <3> QED
      BY <1>6, <3>1, <3>2
  <2> QED
    BY <1>2, <2>1
<1>7. ASSUME Refuse(r) \/ Answer(r) PROVE \A q \in Requests : P(q)
  BY <1>4, <1>7 DEF Refuse, Answer, HttpStatus
<1>8. ASSUME Validate(r) PROVE \A q \in Requests : P(q)
  BY <1>3, <1>4, <1>6, <1>8, RequestFields DEF Validate, HttpStatus
<1>9. ASSUME NEW s \in Scans, FindDuplicate(r, s) PROVE \A q \in Requests : P(q)
  <2>1. CASE Settle(r, s, Duplicate)
    BY <1>5, <2>1, ResultType
  <2>2. CASE req' = [req EXCEPT ![r] = [@ EXCEPT !.at = "save"]]
    BY <1>6, <2>2
  <2> QED
    BY <1>9, <2>1, <2>2 DEF FindDuplicate
<1>10. ASSUME NEW s \in Scans, SaveScan(r, s) \/ DatabaseError(r, s)
       PROVE  \A q \in Requests : P(q)
  <2>1. nextSid \in Nat
    BY DEF TypeOK
  <2> QED
    BY <1>5, <1>10, <2>1, ResultType DEF SaveScan, InsertRow, DatabaseError
<1>11. ASSUME LoseRequest(r) PROVE \A q \in Requests : P(q)
  <2>1. req'[r] = FreeRequest /\ \A q \in Requests \ {r} : req'[q] = req[q]
    BY <1>11 DEF LoseRequest, TypeOK
  <2> QED
    BY <1>2, <1>3, <2>1
<1> QED
  BY <1>1, <1>7, <1>8, <1>9, <1>10, <1>11 DEF ServerStep

\* A call starts with no request of its own: an older one would carry no rows.
LEMMA StartHand ==
    ASSUME TypeOK, HandInv, NEW c \in Calls, NEW T \in SUBSET Scans, StartCall(c, T)
    PROVE  HandInv'
<1>1. /\ call[c] = {} /\ T # {} /\ req' = req /\ queue' = queue /\ stranded' = stranded
      /\ call' = [call EXCEPT ![c] = T] /\ job.kind = "idle"
  BY DEF StartCall, Idle, phoneDb
<1>2. \A r \in Requests : req[r].call # c
  BY <1>1, ConstantsAssumption DEF HandInv, Carries
<1>3. job'.kind = "mark" /\ job'.call = c /\ job'.left = T
  BY DEF StartCall, IdleJob
<1>4. \A d \in Calls : call'[d] = IF d = c THEN T ELSE call[d]
  BY <1>1 DEF TypeOK
<1>5. Marking'
  BY <1>1, <1>2, <1>3, <1>4 DEF Marking, RequestGone
<1>6. ASSUME NEW r \in Requests PROVE Carries(r)'
  <2>1. req[r].call \in Calls \cup {NoCall}
    BY DEF TypeOK, Request
  <2> QED
    BY <1>1, <1>2, <1>4, <2>1 DEF HandInv, Carries
<1>7. InFlightInHand'
  BY <1>1, <1>4 DEF HandInv, InFlightInHand
<1> QED
  BY <1>5, <1>6, <1>7 DEF HandInv

LEMMA SendHand ==
    ASSUME TypeOK, HandInv, NEW r \in Requests, SendRequest(r)
    PROVE  HandInv'
<1>1. /\ job.kind = "mark" /\ job.call \in Calls /\ job'.kind = "idle"
      /\ call' = call /\ queue' = queue /\ stranded' = stranded
  BY JobFields DEF SendRequest, TypeOK, phoneDb
<1>2. \A q \in Requests \ {r} : req'[q] = req[q]
  BY DEF SendRequest, TypeOK
<1>3. /\ req'[r].call = job.call /\ req'[r].rows = call[job.call]
      /\ req'[r].at = "transit"
  BY DEF SendRequest, TypeOK, FreeRequest
<1>4. call[job.call] # {} /\ RequestGone(job.call)
  BY <1>1 DEF HandInv, Marking
<1>5. ASSUME NEW q \in Requests PROVE Carries(q)'
  BY <1>1, <1>2, <1>3, <1>4 DEF HandInv, Carries, RequestGone
<1>6. Marking' /\ InFlightInHand'
  BY <1>1 DEF HandInv, Marking, InFlightInHand
<1> QED
  BY <1>5, <1>6 DEF HandInv

\* The rows of a call pass to the job that applies its results, or its failure.
LEMMA ReturnHand ==
    ASSUME TypeOK, HandInv, NEW c \in Calls, Idle,
           job'.kind = "apply", call[c] \subseteq job'.left,
           call' = [call EXCEPT ![c] = {}], queue' = queue, stranded' = stranded,
           \A q \in Requests : \/ req'[q].call = NoCall /\ req'[q].at # "answered"
                               \/ req'[q] = req[q] /\ req[q].call # c
    PROVE  HandInv'
<1>1. \A d \in Calls : call'[d] = IF d = c THEN {} ELSE call[d]
  BY DEF TypeOK
<1>2. ASSUME NEW q \in Requests PROVE Carries(q)'
  <2>1. req[q].call \in Calls \cup {NoCall}
    BY DEF TypeOK, Request
  <2> QED
    BY <1>1, <2>1 DEF HandInv, Carries
<1>3. InFlightInHand'
  BY <1>1 DEF HandInv, InFlightInHand, Idle
<1>4. Marking'
  BY DEF Marking
<1> QED
  BY <1>2, <1>3, <1>4 DEF HandInv

LEMMA ReceiveHand ==
    ASSUME TypeOK, HandInv, NEW r \in Requests, ReceiveAnswer(r)
    PROVE  HandInv'
<1> DEFINE c == req[r].call
<1>1. c \in Calls /\ req[r].rows = call[c] /\ \A q \in Requests : req[q].call = c => q = r
  BY DEF ReceiveAnswer, HandInv, Carries, TypeOK, Request
<1>2. job'.kind = "apply" /\ job'.left = req[r].rows
  BY DEF ReceiveAnswer, IdleJob
<1>3. req'[r] = FreeRequest /\ \A q \in Requests \ {r} : req'[q] = req[q]
  BY DEF ReceiveAnswer, TypeOK
<1>4. FreeRequest.call = NoCall /\ FreeRequest.at = "free"
  BY DEF FreeRequest
<1>5. Idle /\ call' = [call EXCEPT ![c] = {}] /\ queue' = queue /\ stranded' = stranded
  BY DEF ReceiveAnswer, phoneDb
<1> HIDE DEF c
<1> QED
  BY <1>1, <1>2, <1>3, <1>4, <1>5, ReturnHand DEF c

LEMMA GiveUpHand ==
    ASSUME TypeOK, HandInv, NEW c \in Calls, GiveUp(c)
    PROVE  HandInv'
<1>1. job'.kind = "apply" /\ job'.left = call[c]
  BY DEF GiveUp, IdleJob
<1>2. Idle /\ call' = [call EXCEPT ![c] = {}] /\ queue' = queue /\ stranded' = stranded
  BY DEF GiveUp, phoneDb
<1>3. ASSUME NEW q \in Requests
      PROVE  \/ req'[q].call = NoCall /\ req'[q].at # "answered"
             \/ req'[q] = req[q] /\ req[q].call # c
  BY AbandonFields DEF GiveUp, TypeOK
<1> QED
  BY <1>1, <1>2, <1>3, ReturnHand

\* The database writes of the phone.
LEMMA WriteHand ==
    ASSUME TypeOK, HandInv, NEW s \in Scans,
           EnqueueUpload(s) \/ MarkInFlight(s) \/ MarkScanUploaded(s) \/ MarkDone(s)
           \/ RemoveQueueRow(s) \/ MarkFailed(s) \/ PersistScan(s) \/ HandleDelete(s)
    PROVE  HandInv'
<1>1. req' = req /\ call' = call
  BY DEF EnqueueUpload, MarkInFlight, MarkScanUploaded, MarkDone, RemoveQueueRow,
         MarkFailed, PersistScan, HandleDelete
<1>2. \A r \in Requests : Carries(r)'
  BY <1>1 DEF HandInv, Carries
<1>3. CASE EnqueueUpload(s) \/ PersistScan(s)
  <2>1. job'.kind # "mark" /\ job.kind # "apply"
    <3>1. CASE EnqueueUpload(s)
      BY <3>1, JobFields DEF EnqueueUpload
    <3>2. CASE PersistScan(s)
      BY <3>2 DEF PersistScan, IdleJob, Idle
    <3> QED
      BY <1>3, <3>1, <3>2
  <2>2. stranded' = stranded /\ \A t \in Scans : queue'[t] = "IN_FLIGHT" => queue[t] = "IN_FLIGHT"
    BY <1>3 DEF EnqueueUpload, PersistScan, TypeOK
  <2> QED
    BY <1>1, <1>2, <2>1, <2>2 DEF HandInv, Marking, InFlightInHand
<1>4. CASE MarkInFlight(s)
  <2>1. /\ job.kind = "mark" /\ s \in job.left /\ job.call \in Calls
        /\ stranded' = stranded \ {s}
        /\ \A t \in Scans \ {s} : queue'[t] = queue[t]
    BY <1>4 DEF MarkInFlight, UpdateQueueStatus, Oldest, TypeOK
  <2>2. job'.kind = "mark" /\ job'.call = job.call /\ job'.left = job.left \ {s}
    BY <1>4 DEF MarkInFlight, TypeOK, Job
  <2>3. s \in call[job.call]
    BY <2>1 DEF HandInv, Marking
  <2>4. Marking'
    BY <1>1, <2>1, <2>2 DEF HandInv, Marking, RequestGone
  <2>5. InFlightInHand'
    BY <1>1, <2>1, <2>3 DEF HandInv, InFlightInHand
  <2> QED
    BY <1>2, <2>4, <2>5 DEF HandInv
<1>5. CASE MarkScanUploaded(s) \/ MarkDone(s)
  <2>1. /\ job'.kind = "apply" /\ job'.left = job.left /\ stranded' = stranded
        /\ \A t \in Scans : queue'[t] = "IN_FLIGHT" => queue[t] = "IN_FLIGHT"
    BY <1>5 DEF MarkScanUploaded, MarkDone, UpdateQueueStatus, TypeOK, Job
  <2> QED
    BY <1>1, <1>2, <2>1 DEF HandInv, Marking, InFlightInHand
<1>6. CASE RemoveQueueRow(s) \/ MarkFailed(s)
  <2>1. /\ job.kind = "apply" /\ NextResult(s) /\ stranded' = stranded
        /\ queue'[s] # "IN_FLIGHT" /\ \A t \in Scans \ {s} : queue'[t] = queue[t]
    BY <1>6 DEF RemoveQueueRow, MarkFailed, UpdateQueueStatus, TypeOK
  <2>2. \/ job'.kind = "idle" /\ job.left = {s}
        \/ job'.kind = "apply" /\ job'.left = job.left \ {s}
    BY <2>1, JobFields DEF NextResult, TypeOK, Job
  <2> QED
    BY <1>1, <1>2, <2>1, <2>2 DEF HandInv, Marking, InFlightInHand
<1>7. CASE HandleDelete(s)
  <2>1. /\ job' = job /\ stranded' = stranded
        /\ \A t \in Scans : queue'[t] = "IN_FLIGHT" => queue[t] = "IN_FLIGHT"
    BY <1>7 DEF HandleDelete, TypeOK
  <2> QED
    BY <1>1, <1>2, <2>1 DEF HandInv, Marking, InFlightInHand, RequestGone
<1> QED
  BY <1>3, <1>4, <1>5, <1>6, <1>7

LEMMA HandStep == TypeOK /\ HandInv /\ [Next]_vars => HandInv'
<1> SUFFICES ASSUME TypeOK, HandInv, [Next]_vars PROVE HandInv'
  OBVIOUS
<1>1. ASSUME NEW c \in Calls, SyncPending(c) \/ \E s \in Scans : SyncSingle(c, s)
      PROVE  HandInv'
  BY <1>1, StartHand DEF SyncPending, SyncSingle
<1>2. ASSUME NEW r \in Requests, ServerStep(r) \/ LoseRequest(r) PROVE HandInv'
  <2>1. /\ UNCHANGED HandVars
        /\ \A q \in Requests :
               \/ req'[q].call = NoCall /\ req'[q].at # "answered"
               \/ /\ req'[q].call = req[q].call
                  /\ req'[q].rows = req[q].rows
                  /\ req'[q].at = "answered" => req[q].call # NoCall
    BY <1>2, ServerEffect DEF HandInv
  <2>2. InFlightInHand'
    BY <2>1 DEF HandInv, InFlightInHand, HandVars
  <2>3. ASSUME NEW q \in Requests PROVE Carries(q)'
    BY <2>1 DEF HandInv, Carries, HandVars
  <2>4. Marking'
    <3>1. job.kind = "mark" => job.call # NoCall
      BY ConstantsAssumption DEF TypeOK
    <3> QED
      BY <2>1, <3>1 DEF HandInv, Marking, RequestGone, HandVars
  <2> QED
    BY <2>2, <2>3, <2>4 DEF HandInv
<1>3. CASE AppDies
  <2>1. \A q \in Requests : req'[q].call = NoCall /\ req'[q].at # "answered"
    BY <1>3, AbandonFields DEF AppDies, TypeOK
  <2>2. job'.kind = "idle"
    BY <1>3, JobFields DEF AppDies
  <2>3. InFlightInHand'
    BY <1>3 DEF AppDies, InFlightInHand, phoneDb
  <2> QED
    BY <2>1, <2>2, <2>3 DEF HandInv, Marking, Carries
<1>4. CASE UNCHANGED vars
  BY <1>4 DEF vars, HandInv, Marking, RequestGone, Carries, InFlightInHand
<1> QED
  BY <1>1, <1>2, <1>3, <1>4, WriteHand, SendHand, ReceiveHand, GiveUpHand
  DEF Next, JobStep

\* Overlapping syncPending and syncSingle calls never leave a row IN_FLIGHT that no
\* call has in hand, unless the app died with it.
THEOREM InFlightInHandHolds == Spec => []InFlightInHand
<1>1. Init => HandInv
  BY JobFields DEF Init, HandInv, Marking, Carries, InFlightInHand, FreeRequest
<1>2. HandInv => InFlightInHand
  BY DEF HandInv
<1> QED
  BY <1>1, <1>2, HandStep, TypeCorrect, PTL DEF Spec
=============================================================================
