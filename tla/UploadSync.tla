----------------------------- MODULE UploadSync -----------------------------
(***************************************************************************)
(* Uploading finished scans: the phone's SQLite upload queue               *)
(* (constants/db.ts, services/sync_engine.ts, services/scan_manager.ts),   *)
(* the HTTP requests between phone and server, and the server's            *)
(* POST /sync and POST /sync/batch (webserver/src/sync).                   *)
(*                                                                         *)
(* The phone runs one piece of synchronous JavaScript at a time; between   *)
(* two of its database writes only the death of the process can come.      *)
(* That piece is the variable job.  While a call waits for its answer the  *)
(* phone is free to start other calls.  The server handles its requests    *)
(* concurrently, one database operation at a time.                         *)
(*                                                                         *)
(* Abstracted: POST /sync is a batch of one (a non-2xx answer has the      *)
(* effect on the phone's database that REJECTED has); the attempts counter *)
(* and last_error, which no decision reads; payloads, of which only        *)
(* acceptance by the DTO counts; the attack rows saved with a scan.        *)
(***************************************************************************)
EXTENDS Naturals, FiniteSets

CONSTANTS
    Scans,        \* client_scan_ids, numbered as Date.now() orders them
    WellFormed,   \* the scans whose payload satisfies ScanUploadDto
    Calls,        \* the syncPending and syncSingle calls that can overlap
    Requests,     \* the HTTP requests that can be open at once
    MaxBatch,     \* syncPending's maxBatchSize
    NoCall        \* the caller of a request nobody waits for any more

ASSUME ConstantsAssumption ==
    /\ Scans \subseteq Nat
    /\ IsFiniteSet(Scans)
    /\ WellFormed \subseteq Scans
    /\ MaxBatch \in Nat \ {0}
    /\ NoCall \notin Calls

VARIABLES
    saved,      \* scans table of the phone: the scans it has
    uploaded,   \* scans.server_scan_id of each scan, 0 when NULL
    queue,      \* upload_queue.status of each scan, "none" without a row
    job,        \* the synchronous JavaScript the phone is in the middle of
    call,       \* the rows each waiting call was started for, {} when unused
    req,        \* the open HTTP requests
    scanRows,   \* scans table of the server
    nextSid,    \* the next server_scan_id the database generates
    stranded    \* history: rows IN_FLIGHT when the app died, not marked since

phoneDb == <<saved, uploaded, queue>>
serverDb == <<scanRows, nextSid>>
vars == <<saved, uploaded, queue, job, call, req, scanRows, nextSid, stranded>>

-----------------------------------------------------------------------------
QueueStatus == {"none", "PENDING", "IN_FLIGHT", "FAILED", "DONE"}
Result == [status : {"CREATED", "DUPLICATE", "ERROR"}, sid : Nat]
ScanRow == [client : Scans, sid : Nat \ {0}]

Duplicate == [status |-> "DUPLICATE", sid |-> 0]
Failure == [status |-> "ERROR", sid |-> 0]
Created(i) == [status |-> "CREATED", sid |-> i]
AllFailed == [s \in Scans |-> Failure]

JobKind == {"idle", "enqueue", "mark", "apply"}
Job == [kind : JobKind, call : Calls \cup {NoCall},
        left : SUBSET Scans, results : [Scans -> Result], step : {0, 1, 2}]
IdleJob == [kind |-> "idle", call |-> NoCall, left |-> {},
            results |-> AllFailed, step |-> 0]

Progress == {"free", "transit", "find", "save", "answered"}
HttpStatus == {0, 207, 401, 422}
Request == [at : Progress, call : Calls \cup {NoCall}, rows : SUBSET Scans,
            left : SUBSET Scans, results : [Scans -> Result], http : HttpStatus]
FreeRequest == [at |-> "free", call |-> NoCall, rows |-> {}, left |-> {},
                results |-> AllFailed, http |-> 0]

TypeOK ==
    /\ saved \subseteq Scans
    /\ uploaded \in [Scans -> Nat]
    /\ queue \in [Scans -> QueueStatus]
    /\ job \in Job
    /\ job.kind = "mark" => job.call \in Calls
    /\ call \in [Calls -> SUBSET Scans]
    /\ req \in [Requests -> Request]
    /\ scanRows \subseteq ScanRow
    /\ nextSid \in Nat \ {0}
    /\ stranded \subseteq Scans

Init ==
    /\ saved = {}
    /\ uploaded = [s \in Scans |-> 0]
    /\ queue = [s \in Scans |-> "none"]
    /\ job = IdleJob
    /\ call = [c \in Calls |-> {}]
    /\ req = [r \in Requests |-> FreeRequest]
    /\ scanRows = {}
    /\ nextSid = 1
    /\ stranded = {}

-----------------------------------------------------------------------------
\* Rows and results are handled oldest first (ORDER BY enqueued_at ASC).
Oldest(s, S) == s \in S /\ \A t \in S : s <= t

Idle == job.kind = "idle"
Stored(s) == \E x \in scanRows : x.client = s

\* updateQueueStatus: an UPDATE, without effect on a row that is not there.
UpdateQueueStatus(s, status) ==
    queue' = [queue EXCEPT ![s] = IF @ = "none" THEN "none" ELSE status]

\* The first MaxBatch of the rows getPendingUploads selects.
PendingUploads(T) ==
    LET eligible == {s \in Scans : queue[s] \in {"PENDING", "FAILED"}}
    IN  /\ T \subseteq eligible
        /\ \A s \in T, t \in eligible \ T : s < t
        /\ Cardinality(T) = IF Cardinality(eligible) < MaxBatch
                            THEN Cardinality(eligible) ELSE MaxBatch

-----------------------------------------------------------------------------
(* The phone *)

\* runScan, once it has the result: persistScan ...
PersistScan(s) ==
    /\ Idle
    /\ \A t \in saved : t < s
    /\ saved' = saved \cup {s}
    /\ job' = [IdleJob EXCEPT !.kind = "enqueue", !.left = {s}]
    /\ UNCHANGED <<uploaded, queue, call, req, serverDb, stranded>>

\* ... then enqueueUpload, an INSERT OR IGNORE.
EnqueueUpload(s) ==
    /\ job.kind = "enqueue"
    /\ s \in job.left
    /\ queue' = [queue EXCEPT ![s] = IF @ = "none" THEN "PENDING" ELSE @]
    /\ job' = IdleJob
    /\ UNCHANGED <<saved, uploaded, call, req, serverDb, stranded>>

\* Fault: the rows are marked before the call is known.
StartCallUnknown(c, rows) ==
    /\ Idle
    /\ call[c] = {}
    /\ rows # {}
    /\ call' = [call EXCEPT ![c] = rows]
    /\ job' = [IdleJob EXCEPT !.kind = "mark", !.left = rows]
    /\ UNCHANGED <<phoneDb, req, serverDb, stranded>>

\* A call starts: it will mark its rows and then send them.
StartCall(c, rows) ==
    /\ Idle
    /\ call[c] = {}
    /\ rows # {}
    /\ call' = [call EXCEPT ![c] = rows]
    /\ job' = [IdleJob EXCEPT !.kind = "mark", !.call = c, !.left = rows]
    /\ UNCHANGED <<phoneDb, req, serverDb, stranded>>

SyncPending(c) == \E T \in SUBSET Scans : PendingUploads(T) /\ StartCall(c, T)

\* syncSingle looks at nothing but the scan's presence: "Upload now" and "Retry"
\* may be pressed on a row that another call has in flight, or without a row.
SyncSingle(c, s) == s \in saved /\ StartCall(c, {s})

MarkInFlight(s) ==
    /\ job.kind = "mark"
    /\ Oldest(s, job.left)
    /\ UpdateQueueStatus(s, "IN_FLIGHT")
    /\ job' = [job EXCEPT !.left = @ \ {s}]
    /\ stranded' = stranded \ {s}
    /\ UNCHANGED <<saved, uploaded, call, req, serverDb>>

SendRequest(r) ==
    /\ job.kind = "mark"
    /\ job.left = {}
    /\ req[r].at = "free"
    /\ req' = [req EXCEPT ![r] = [FreeRequest EXCEPT !.at = "transit",
                                     !.call = job.call, !.rows = call[job.call]]]
    /\ job' = IdleJob
    /\ UNCHANGED <<phoneDb, call, serverDb, stranded>>

\* The answer arrives; a whole request refused falls into the catch block.
ReceiveAnswer(r) ==
    /\ Idle
    /\ req[r].at = "answered"
    /\ job' = [IdleJob EXCEPT !.kind = "apply", !.left = req[r].rows,
                              !.results = req[r].results]
    /\ call' = [call EXCEPT ![req[r].call] = {}]
    /\ req' = [req EXCEPT ![r] = FreeRequest]
    /\ UNCHANGED <<phoneDb, serverDb, stranded>>

\* Nobody waits for this request any more: the server goes on with it, and what it
\* answers no longer matters.
Abandon(q) == IF q.at = "answered" THEN FreeRequest
              ELSE [q EXCEPT !.call = NoCall, !.results = AllFailed]

\* Faults: no catch block, and no time-out.
GiveUpUncaught(c) ==
    /\ Idle
    /\ call[c] # {}
    /\ call' = [call EXCEPT ![c] = {}]
    /\ req' = [r \in Requests |-> IF req[r].call = c
                                  THEN Abandon(req[r]) ELSE req[r]]
    /\ UNCHANGED <<phoneDb, job, serverDb, stranded>>

GiveUpNever(c) == FALSE

\* fetch rejects: time-out or network failure.
GiveUp(c) ==
    /\ Idle
    /\ call[c] # {}
    /\ job' = [IdleJob EXCEPT !.kind = "apply", !.left = call[c]]
    /\ call' = [call EXCEPT ![c] = {}]
    /\ req' = [r \in Requests |-> IF req[r].call = c
                                  THEN Abandon(req[r]) ELSE req[r]]
    /\ UNCHANGED <<phoneDb, serverDb, stranded>>

\* The job after the result of s has been applied.
NextResult(s) ==
    job' = IF job.left = {s} THEN IdleJob
           ELSE [job EXCEPT !.left = @ \ {s}, !.step = 0]

\* A CREATED result takes three writes.
MarkScanUploaded(s) ==
    /\ job.kind = "apply" /\ job.step = 0 /\ Oldest(s, job.left)
    /\ job.results[s].status = "CREATED"
    /\ uploaded' = [uploaded EXCEPT ![s] = job.results[s].sid]
    /\ job' = [job EXCEPT !.step = 1]
    /\ UNCHANGED <<saved, queue, call, req, serverDb, stranded>>

MarkDone(s) ==
    /\ job.kind = "apply" /\ job.step = 1 /\ Oldest(s, job.left)
    /\ UpdateQueueStatus(s, "DONE")
    /\ job' = [job EXCEPT !.step = 2]
    /\ UNCHANGED <<saved, uploaded, call, req, serverDb, stranded>>

RemoveQueueRow(s) ==
    /\ job.kind = "apply" /\ job.step = 2 /\ Oldest(s, job.left)
    /\ queue' = [queue EXCEPT ![s] = "none"]
    /\ NextResult(s)
    /\ UNCHANGED <<saved, uploaded, call, req, serverDb, stranded>>

\* Fault: a failed row is removed.
MarkFailedDropping(s) ==
    /\ job.kind = "apply" /\ job.step = 0 /\ Oldest(s, job.left)
    /\ job.results[s].status # "CREATED"
    /\ queue' = [queue EXCEPT ![s] = "none"]
    /\ NextResult(s)
    /\ UNCHANGED <<saved, uploaded, call, req, serverDb, stranded>>

\* Any other result takes one, DUPLICATE included: the server sends a conflict as
\* REJECTED with error DUPLICATE, so the status === 'DUPLICATE' branch of syncPending never runs.
MarkFailed(s) ==
    /\ job.kind = "apply" /\ job.step = 0 /\ Oldest(s, job.left)
    /\ job.results[s].status # "CREATED"
    /\ UpdateQueueStatus(s, "FAILED")
    /\ NextResult(s)
    /\ UNCHANGED <<saved, uploaded, call, req, serverDb, stranded>>

\* "Remove from queue" on the queue screen.
HandleDelete(s) ==
    /\ Idle
    /\ queue[s] # "none"
    /\ queue' = [queue EXCEPT ![s] = "none"]
    /\ UNCHANGED <<saved, uploaded, job, call, req, serverDb, stranded>>

\* The app dies between two database writes, or while it waits.
AppDies ==
    /\ job' = IdleJob
    /\ call' = [c \in Calls |-> {}]
    /\ req' = [r \in Requests |-> Abandon(req[r])]
    /\ stranded' = stranded \cup {s \in Scans : queue[s] = "IN_FLIGHT"}
    /\ UNCHANGED <<phoneDb, serverDb>>

-----------------------------------------------------------------------------
(* The server *)

Replied(q, http) == IF q.call = NoCall THEN FreeRequest
                    ELSE [q EXCEPT !.at = "answered", !.http = http]

Reply(r, http) == req' = [req EXCEPT ![r] = Replied(@, http)]

\* Guards and the throttler run first and may turn the request away.
Refuse(r) ==
    /\ req[r].at = "transit"
    /\ Reply(r, 401)
    /\ UNCHANGED <<phoneDb, job, call, serverDb, stranded>>

\* ValidationPipe checks the whole body before the handler sees any of it.
Validate(r) ==
    /\ req[r].at = "transit"
    /\ IF req[r].rows \subseteq WellFormed
       THEN req' = [req EXCEPT ![r] = [@ EXCEPT !.at = "find", !.left = req[r].rows]]
       ELSE Reply(r, 422)
    /\ UNCHANGED <<phoneDb, job, call, serverDb, stranded>>

\* The result of s is settled and the handler turns to the next scan.
Settled(q, s, result) ==
    [q EXCEPT !.at = "find", !.left = @ \ {s},
              !.results = IF q.call = NoCall THEN @ ELSE [@ EXCEPT ![s] = result]]

Settle(r, s, result) == req' = [req EXCEPT ![r] = Settled(@, s, result)]

\* uploadScan: findOne by client_scan_id; a hit is a ConflictException.
FindDuplicate(r, s) ==
    /\ req[r].at = "find"
    /\ Oldest(s, req[r].left)
    /\ IF Stored(s) THEN Settle(r, s, Duplicate)
       ELSE req' = [req EXCEPT ![r] = [@ EXCEPT !.at = "save"]]
    /\ UNCHANGED <<phoneDb, job, call, serverDb, stranded>>

InsertRow(r, s) ==
    /\ Settle(r, s, Created(nextSid))
    /\ scanRows' = scanRows \cup {[client |-> s, sid |-> nextSid]}
    /\ nextSid' = nextSid + 1

\* Faults: client_scan_id is not unique; a failed insert answers with the id it was
\* given; save replaces the row.
SaveScanTwice(r, s) ==
    /\ req[r].at = "save" /\ Oldest(s, req[r].left)
    /\ InsertRow(r, s)
    /\ UNCHANGED <<phoneDb, job, call, stranded>>

SaveScanBlindly(r, s) ==
    /\ req[r].at = "save" /\ Oldest(s, req[r].left)
    /\ IF Stored(s) THEN Settle(r, s, Created(nextSid)) /\ UNCHANGED serverDb
       ELSE InsertRow(r, s)
    /\ UNCHANGED <<phoneDb, job, call, stranded>>

SaveScanReplacing(r, s) ==
    /\ req[r].at = "save" /\ Oldest(s, req[r].left)
    /\ Settle(r, s, Created(nextSid))
    /\ scanRows' = {x \in scanRows : x.client # s} \cup {[client |-> s, sid |-> nextSid]}
    /\ nextSid' = nextSid + 1
    /\ UNCHANGED <<phoneDb, job, call, stranded>>

\* uploadScan: save.  Another handler may have stored the scan since findOne; the
\* unique column then makes the insert fail, which is no ConflictException.
SaveScan(r, s) ==
    /\ req[r].at = "save"
    /\ Oldest(s, req[r].left)
    /\ IF Stored(s)
       THEN Settle(r, s, Failure) /\ UNCHANGED serverDb
       ELSE InsertRow(r, s)
    /\ UNCHANGED <<phoneDb, job, call, stranded>>

\* Any of the queries of uploadScan throws: INTERNAL_ERROR for this scan only.
DatabaseError(r, s) ==
    /\ req[r].at \in {"find", "save"}
    /\ Oldest(s, req[r].left)
    /\ Settle(r, s, Failure)
    /\ UNCHANGED <<phoneDb, job, call, serverDb, stranded>>

Answer(r) ==
    /\ req[r].at = "find"
    /\ req[r].left = {}
    /\ Reply(r, 207)
    /\ UNCHANGED <<phoneDb, job, call, serverDb, stranded>>

-----------------------------------------------------------------------------
(* The network, and the server process *)

\* A request or an answer is lost, or the server dies while it handles it.
LoseRequest(r) ==
    /\ req[r].at # "free"
    /\ req' = [req EXCEPT ![r] = FreeRequest]
    /\ UNCHANGED <<phoneDb, job, call, serverDb, stranded>>

-----------------------------------------------------------------------------
JobStep ==
    \/ \E s \in Scans : EnqueueUpload(s) \/ MarkInFlight(s) \/ MarkScanUploaded(s)
                        \/ MarkDone(s) \/ RemoveQueueRow(s) \/ MarkFailed(s)
    \/ \E r \in Requests : SendRequest(r)

ServerStep(r) ==
    \/ Refuse(r) \/ Validate(r) \/ Answer(r)
    \/ \E s \in Scans : FindDuplicate(r, s) \/ SaveScan(r, s) \/ DatabaseError(r, s)

Next ==
    \/ JobStep
    \/ \E s \in Scans : PersistScan(s) \/ HandleDelete(s)
    \/ \E c \in Calls : SyncPending(c) \/ GiveUp(c) \/ \E s \in Scans : SyncSingle(c, s)
    \/ \E r \in Requests : ReceiveAnswer(r) \/ ServerStep(r) \/ LoseRequest(r)
    \/ AppDies

Spec == Init /\ [][Next]_vars

\* A synchronous piece of JavaScript runs to its end; the server and the network
\* do not stop half-way; fetchFollowingRedirects gives every call a time-out, whose
\* callback the event loop runs sooner or later although other work comes between.
FairSpec ==
    /\ Spec
    /\ WF_vars(JobStep)
    /\ \A r \in Requests : WF_vars(ServerStep(r))
    /\ \A c \in Calls : SF_vars(GiveUp(c))

\* Nothing is left of the request of c: it can only run into its time-out.
RequestGone(c) == \A r \in Requests : req[r].call # c

\* Fairness for an app whose user opens the queue and syncs again and again, on a
\* connection over which answers do arrive.
RetrySpec ==
    /\ Spec
    /\ WF_vars(JobStep)
    /\ \A r \in Requests : WF_vars(ServerStep(r)) /\ SF_vars(ReceiveAnswer(r))
    /\ \A c \in Calls : SF_vars(SyncPending(c)) /\ SF_vars(GiveUp(c) /\ RequestGone(c))

-----------------------------------------------------------------------------
(* Properties *)

\* The server keeps one row per client_scan_id although findOne and save are two
\* operations of handlers that run concurrently (sync.service.ts:138-178).
StoredOnce == \A x, y \in scanRows : x.client = y.client => x = y

\* A scan the phone shows with a server_scan_id is in the server's table under that
\* very id, whichever of several overlapping calls set it (sync_engine.ts:48, 87).
UploadedIsStored ==
    \A s \in Scans : uploaded[s] # 0 => [client |-> s, sid |-> uploaded[s]] \in scanRows

\* A row is IN_FLIGHT only while some call or the job that applies its results still
\* has it in hand, or since the app died: overlapping syncPending and syncSingle
\* calls on one row never leave it behind (sync_engine.ts:34, 57, 68, 80, 91).
InFlightInHand ==
    \A s \in Scans : queue[s] = "IN_FLIGHT" =>
        \/ s \in stranded
        \/ \E c \in Calls : s \in call[c]
        \/ job.kind = "apply" /\ s \in job.left

\* A row leaves the upload queue only when the phone has the server's id for the scan
\* or the user removes it: no failure, refusal or late answer drops a scan silently.
NoSilentDrop ==
    [][\A s \in Scans : queue[s] # "none" /\ queue'[s] = "none"
                       => uploaded[s] # 0 \/ HandleDelete(s)]_vars

\* The phone and the server together keep the promises of ScanLedger: the entries are
\* the server's rows, the receipts are the server_scan_ids in the phone's table.
Receipts == {[client |-> s, sid |-> uploaded[s]] : s \in {t \in Scans : uploaded[t] # 0}}

Ledger == INSTANCE ScanLedger WITH
    Ids <- Nat \ {0}, ledger <- scanRows, receipts <- Receipts

ImplementsLedger == Ledger!Spec

\* A row that is IN_FLIGHT does not stay so while the app lives: whatever is lost on
\* the way, its call comes back and settles it (sync_engine.ts:46-71, api.ts:167).
InFlightReleased ==
    \A s \in Scans : queue[s] = "IN_FLIGHT" ~> (queue[s] # "IN_FLIGHT" \/ s \in stranded)

\* What can go wrong on the way of a request, apart from the server's own answer.
Misfortune ==
    \/ AppDies
    \/ \E c \in Calls : GiveUp(c) /\ ~RequestGone(c)
    \/ \E r \in Requests : Refuse(r) \/ LoseRequest(r) \/ \E s \in Scans : DatabaseError(r, s)

\* Dokumentacja_Techniczna_Pitera.md:118: the 409 for a known client_scan_id "allows
\* an upload to be safely repeated after a broken connection", so once the connection
\* holds, a scan that the server has and a running phone keeps sending is marked uploaded.
RetryIsSafe ==
    <>[][~Misfortune]_vars =>
        \A s \in Scans : queue[s] = "FAILED" /\ Stored(s)
                           ~> (uploaded[s] # 0 \/ queue[s] = "none" \/ s \in stranded)

\* DataFlow.md:14: "when the Internet appears, the Sync Engine sends the data to the
\* server", so a scan in the queue of a phone that syncs again and again gets there.
QueuedIsSent ==
    <>[][~Misfortune]_vars =>
        \A s \in Scans : queue[s] # "none" ~> (Stored(s) \/ queue[s] = "none")

\* API.md:580-581: "each scan is validated independently; rejecting one does not block
\* the others", so no acceptable scan is in a batch that is refused by validation.
RejectionIsPerScan ==
    \A r \in Requests : req[r].http = 422 => req[r].rows \cap WellFormed = {}

-----------------------------------------------------------------------------
(* What the safety properties rest on: they are inductive together with these. *)

SidsBelow == \A x \in scanRows : x.sid < nextSid

\* A CREATED result, on its way or in the phone's hands, names a row of the server.
Honest(results) ==
    \A s \in Scans : results[s].status = "CREATED"
                     => [client |-> s, sid |-> results[s].sid] \in scanRows

ResultsHonest == Honest(job.results) /\ \A r \in Requests : Honest(req[r].results)

\* The writes after markScanUploaded find the scan marked.
MarkedFirst ==
    \A s \in Scans : job.kind = "apply" /\ job.step # 0 /\ Oldest(s, job.left)
                     => uploaded[s] # 0

\* A call that is about to send its rows has them all, and no request yet.
Marking ==
    job.kind = "mark" => /\ job.left \subseteq call[job.call]
                         /\ call[job.call] # {}
                         /\ RequestGone(job.call)

\* A request some call waits for carries the rows of that call, and is its only one.
Carries(r) ==
    /\ req[r].at = "answered" => req[r].call # NoCall
    /\ req[r].call # NoCall => /\ req[r].rows = call[req[r].call]
                               /\ req[r].rows # {}
                               /\ \A q \in Requests : req[q].call = req[r].call => q = r

StoreInv == SidsBelow /\ StoredOnce /\ ResultsHonest /\ UploadedIsStored /\ MarkedFirst
HandInv == Marking /\ (\A r \in Requests : Carries(r)) /\ InFlightInHand
=============================================================================
