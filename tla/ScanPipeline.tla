---------------------------- MODULE ScanPipeline ----------------------------
(***************************************************************************)
(* The scan of one mailbox: scanner_service.run_scan and _process_message  *)
(* (app/services/scanner_service.py), with the listing of the IMAP         *)
(* provider it calls and the transactions of the SQLAlchemy session it     *)
(* writes through.                                                         *)
(*                                                                         *)
(* A worker is a thread that may be inside run_scan for this mailbox: an   *)
(* HTTP request ("Scan Now", the API) or one of the two overlapping        *)
(* scheduler ticks.  Each worker has its own session, hence its own        *)
(* transaction; they share the database, which is PostgreSQL: an INSERT of *)
(* a (mailbox_id, dedup_key) that another open transaction has inserted    *)
(* waits for that transaction to end.                                      *)
(*                                                                         *)
(* Messages are numbered by their UID in the INBOX, 1 the oldest.          *)
(***************************************************************************)
EXTENDS Naturals

CONSTANTS
  Workers,      \* threads that may run run_scan on this mailbox
  MaxUid,       \* bound: the number of messages that ever arrive
  Limit,        \* scan.max_messages_per_run
  KeyOf,        \* dedup_key of each message: Message-ID, else its UID
  Mails,        \* what the messages may be like: a kind of AllKinds for each
  MaxCrashes    \* bound: how often the process is killed and restarted

Uids == 1..MaxUid

\* No UID: the session has to read the mailbox row again.
Expired == MaxUid + 1

\* How the pipeline fares with a message.
\*   plain       parsed, analysed, its rows written
\*   trusted     its sender is whitelisted when the scan starts
\*   unparsable  an exception before the Email row is flushed
\*   badlink     an exception after that flush, on a malformed link
\*   oversize    a value the database rejects when rows are written
\*   unhandled   a value it rejects when its policy writes: a notification, the
\*               list of actions, which the settings may make too long
AllKinds == {"plain", "trusted", "unparsable", "badlink", "oversize", "unhandled"}

ASSUME ScanAssumption ==
  /\ MaxUid \in Nat
  /\ Limit \in Nat \ {0}
  /\ DOMAIN KeyOf = Uids
  /\ Mails \subseteq [Uids -> AllKinds]
  /\ MaxCrashes \in Nat

\* The Email row a worker inserted for a message.
\*   none         there is none
\*   pending      flushed in the worker's open transaction
\*   bare         committed with the column defaults: clean, active, no analysis
\*   whitelisted  committed as clean by the whitelist short-circuit
\*   analysed     committed with its ThreatAnalysis, status still active
\*   handled      the policy of its classification has been executed
RowState == {"none", "pending", "bare", "whitelisted", "analysed", "handled"}

\* ScanJob.status of the worker's latest job; "none" before its first scan.
JobStatus == {"none", "connecting", "scanning", "analyzing", "completed", "failed"}

\* Where a worker is in run_scan.
Place == {"idle", "connect", "fetch", "begin", "loop", "insert", "judge", "policy"}

VARIABLES
  kind,       \* kind[u]: what message u is like; never changes
  arrived,    \* messages 1..arrived are in the INBOX
  watermark,  \* mailbox.last_uid_scanned, 0 for NULL
  row,        \* row[w][u]: the Email row worker w inserted for message u
  status,     \* status[w]: ScanJob.status of w's latest job
  pc,         \* pc[w]: where worker w is
  loaded,     \* loaded[w]: last_uid_scanned as w's session last read it
  todo,       \* todo[w]: the fetched messages w has not finished with
  processed,  \* processed[w]: those counted in job.messages_processed
  errors,     \* errors[w]: those counted in job.error_count
  highest,    \* highest[w]: the local highest_uid
  crashes,    \* how often the process was killed
  overlapped  \* the workers whose scan has run beside another one

mailVars  == <<kind, arrived>>
\* No step of a scan changes these, but for its first and its last.
asideVars == <<kind, arrived, overlapped>>
dbVars   == <<watermark, row, status>>
memVars  == <<pc, loaded, todo, processed, errors, highest>>
vars     == <<kind, arrived, watermark, row, status, pc, loaded, todo, processed, errors, highest, crashes, overlapped>>

-----------------------------------------------------------------------------
Committed(s) == s \notin {"none", "pending"}

\* An Email row with this dedup_key is visible to every transaction.
Stored(k) == \E w \in Workers, u \in Uids : KeyOf[u] = k /\ Committed(row[w][u])

\* Worker w has flushed such a row and not committed it.
Holds(w, k) == \E u \in Uids : KeyOf[u] = k /\ row[w][u] = "pending"

\* Mutant: messages are processed in no particular order.
IsNextUnordered(w, u) == u \in todo[w]

\* Messages are processed in the order of the listing, oldest first.
IsNext(w, u) == u \in todo[w] /\ \A v \in todo[w] : u <= v

NewestOffByOne == {u \in 1..(arrived + 1) : u + Limit > arrived + 1} \* Mutant: the slice ends too late
Newest == {u \in 1..arrived : u + Limit > arrived}

ToFetchOffByOne(w) == {u \in Newest : u > loaded[w] + 1} \* Mutant: one message too many dropped
ToFetch(w) == {u \in Newest : u > loaded[w]}

\* What a commit and what the loss of the transaction make of a worker's rows.
AfterCommit(s) == IF s = "pending" THEN "bare" ELSE s
AfterRollbackLate(s) == IF s \in {"pending", "analysed"} THEN "none" ELSE s \* Mutant: committed with the policy only
AfterRollback(s) == IF s = "pending" THEN "none" ELSE s

\* A commit expires what the session has read.
Expire(w) == loaded' = [loaded EXCEPT ![w] = Expired]

\* Using an expired mailbox object reads its row again.
Refresh(w) == loaded' = [loaded EXCEPT ![w] = IF @ = Expired THEN watermark ELSE @]

CommitAs(w, u, s) ==
  /\ row' = [row EXCEPT ![w] = [v \in Uids |-> IF v = u THEN s ELSE AfterCommit(row[w][v])]]
  /\ Expire(w)

Goto(w, p) == pc' = [pc EXCEPT ![w] = p]

Leave(w) ==
  /\ Goto(w, "idle")
  /\ Expire(w)
  /\ todo' = [todo EXCEPT ![w] = {}]
  /\ processed' = [processed EXCEPT ![w] = {}]
  /\ errors' = [errors EXCEPT ![w] = {}]
  /\ highest' = [highest EXCEPT ![w] = 0]
  /\ overlapped' = overlapped \ {w}

Succeed(w, u) ==
  /\ todo' = [todo EXCEPT ![w] = @ \ {u}]
  /\ processed' = [processed EXCEPT ![w] = @ \cup {u}]
  /\ highest' = [highest EXCEPT ![w] = IF u > @ THEN u ELSE @]
  /\ UNCHANGED errors

Skip(w, u) ==
  /\ todo' = [todo EXCEPT ![w] = @ \ {u}]
  /\ errors' = [errors EXCEPT ![w] = @ \cup {u}]
  /\ UNCHANGED <<processed, highest>>

-----------------------------------------------------------------------------
Init ==
  /\ kind \in Mails
  /\ arrived = 0
  /\ watermark = 0
  /\ row = [w \in Workers |-> [u \in Uids |-> "none"]]
  /\ status = [w \in Workers |-> "none"]
  /\ pc = [w \in Workers |-> "idle"]
  /\ loaded = [w \in Workers |-> Expired]
  /\ todo = [w \in Workers |-> {}]
  /\ processed = [w \in Workers |-> {}]
  /\ errors = [w \in Workers |-> {}]
  /\ highest = [w \in Workers |-> 0]
  /\ crashes = 0
  /\ overlapped = {}

\* A message is delivered to the INBOX.
Arrive ==
  /\ arrived < MaxUid
  /\ arrived' = arrived + 1
  /\ UNCHANGED <<kind, overlapped, dbVars, memVars, crashes>>

Running == {x \in Workers : pc[x] # "idle"}

\* run_scan creates its ScanJob row and commits it.
StartScan(w) ==
  /\ pc[w] = "idle"
  /\ Goto(w, "connect")
  /\ status' = [status EXCEPT ![w] = "connecting"]
  /\ overlapped' = IF Running = {} THEN {} ELSE Running \cup {w}
  /\ UNCHANGED <<mailVars, watermark, row, loaded, todo, processed, errors, highest, crashes>>

\* The job is SCANNING; the watermark is read before the provider is asked.
Connect(w) ==
  /\ pc[w] = "connect"
  /\ Goto(w, "fetch")
  /\ loaded' = [loaded EXCEPT ![w] = watermark]
  /\ status' = [status EXCEPT ![w] = "scanning"]
  /\ UNCHANGED <<asideVars, watermark, row, todo, processed, errors, highest, crashes>>

\* list_messages keeps the newest Limit UIDs, fetch_new_messages drops those
\* at or below the watermark read, and list() fetches every one that remains.
Fetch(w) ==
  /\ pc[w] = "fetch"
  /\ Goto(w, "begin")
  /\ todo' = [todo EXCEPT ![w] = ToFetch(w)]
  /\ UNCHANGED <<asideVars, dbVars, loaded, processed, errors, highest, crashes>>

\* Mutant: the job row is not told.
FailScanSilently(w) ==
  /\ pc[w] \in {"connect", "fetch"}
  /\ Leave(w)
  /\ UNCHANGED <<mailVars, dbVars, crashes>>

\* Connecting, listing or fetching a message failed: the whole scan FAILED.
FailScan(w) ==
  /\ pc[w] \in {"connect", "fetch"}
  /\ Leave(w)
  /\ status' = [status EXCEPT ![w] = "failed"]
  /\ UNCHANGED <<mailVars, watermark, row, crashes>>

\* The job is ANALYZING, and the watermark is read again from the mailbox row.
BeginAnalysis(w) ==
  /\ pc[w] = "begin"
  /\ Goto(w, "loop")
  /\ status' = [status EXCEPT ![w] = "analyzing"]
  /\ highest' = [highest EXCEPT ![w] = watermark]
  /\ loaded' = [loaded EXCEPT ![w] = watermark]
  /\ UNCHANGED <<asideVars, watermark, row, todo, processed, errors, crashes>>

\* Mutant: the loop does not go on to the next message.
ParseErrorRetried(w, u) ==
  /\ pc[w] = "loop" /\ IsNext(w, u)
  /\ kind[u] = "unparsable"
  /\ errors' = [errors EXCEPT ![w] = @ \cup {u}]
  /\ UNCHANGED <<asideVars, dbVars, pc, loaded, todo, processed, highest, crashes>>

\* Parsing raised before anything was flushed: the error is counted, no more.
ParseError(w, u) ==
  /\ pc[w] = "loop" /\ IsNext(w, u)
  /\ kind[u] = "unparsable"
  /\ Skip(w, u)
  /\ UNCHANGED <<asideVars, dbVars, pc, loaded, crashes>>

\* The dedup query found a row, committed or flushed by this very session.
SkipDuplicate(w, u) ==
  /\ pc[w] = "loop" /\ IsNext(w, u)
  /\ kind[u] # "unparsable"
  /\ Stored(KeyOf[u]) \/ Holds(w, KeyOf[u])
  /\ Succeed(w, u)
  /\ Refresh(w)
  /\ UNCHANGED <<asideVars, dbVars, pc, crashes>>

\* The dedup query found nothing: the message is taken for a new one.
MissDuplicate(w, u) ==
  /\ pc[w] = "loop" /\ IsNext(w, u)
  /\ kind[u] # "unparsable"
  /\ ~ Stored(KeyOf[u]) /\ ~ Holds(w, KeyOf[u])
  /\ Goto(w, "insert")
  /\ Refresh(w)
  /\ UNCHANGED <<asideVars, dbVars, todo, processed, errors, highest, crashes>>

\* The INSERT waits while another transaction holds the key.
InsertNeverWaits(w, u) == TRUE \* Mutant: the constraint only sees committed rows
InsertMayProceed(w, u) == \A x \in Workers \ {w} : ~ Holds(x, KeyOf[u])

\* db.session.flush() of the Email row.
Insert(w, u) ==
  /\ pc[w] = "insert" /\ IsNext(w, u)
  /\ InsertMayProceed(w, u)
  /\ ~ Stored(KeyOf[u])
  /\ row' = [row EXCEPT ![w][u] = "pending"]
  /\ Goto(w, "judge")
  /\ UNCHANGED <<asideVars, watermark, status, loaded, todo, processed, errors, highest, crashes>>

\* A failed flush rolls the transaction back and leaves the session unusable:
\* both exception handlers of run_scan then raise on their first attribute
\* access, run_scan itself raises, and the job row stays as it was.
Abort(w) ==
  /\ Leave(w)
  /\ row' = [row EXCEPT ![w] = [v \in Uids |-> AfterRollback(row[w][v])]]
  /\ UNCHANGED <<mailVars, watermark, status, crashes>>

\* Mutant: the transaction is rolled back, the error counted, the loop goes on.
InsertRejectedSkipped(w, u) ==
  /\ pc[w] = "insert" /\ IsNext(w, u)
  /\ kind[u] = "oversize" \/ (InsertMayProceed(w, u) /\ Stored(KeyOf[u]))
  /\ Skip(w, u)
  /\ Goto(w, "loop")
  /\ Expire(w)
  /\ row' = [row EXCEPT ![w] = [v \in Uids |-> AfterRollback(row[w][v])]]
  /\ UNCHANGED <<asideVars, watermark, status, crashes>>

\* The unique constraint, or a value too long for its column.
InsertRejected(w, u) ==
  /\ pc[w] = "insert" /\ IsNext(w, u)
  /\ kind[u] = "oversize" \/ (InsertMayProceed(w, u) /\ Stored(KeyOf[u]))
  /\ Abort(w)

\* extract_domain raised: the error is counted, and the flushed Email row
\* stays in the transaction, to be committed by whatever commits next.
LinkError(w, u) ==
  /\ pc[w] = "judge" /\ IsNext(w, u)
  /\ kind[u] = "badlink"
  /\ Skip(w, u)
  /\ Goto(w, "loop")
  /\ UNCHANGED <<asideVars, dbVars, loaded, crashes>>

\* The whitelist short-circuit.
CommitWhitelisted(w, u) ==
  /\ pc[w] = "judge" /\ IsNext(w, u)
  /\ kind[u] = "trusted"
  /\ CommitAs(w, u, "whitelisted")
  /\ Succeed(w, u)
  /\ Goto(w, "loop")
  /\ UNCHANGED <<asideVars, watermark, status, crashes>>

\* Mutant: the message returns to the loop without its policy.
CommitAnalysisOnly(w, u) ==
  /\ pc[w] = "judge" /\ IsNext(w, u)
  /\ kind[u] \in {"plain", "unhandled"}
  /\ CommitAs(w, u, "analysed")
  /\ Succeed(w, u)
  /\ Goto(w, "loop")
  /\ UNCHANGED <<asideVars, watermark, status, crashes>>

\* The classification, its ThreatAnalysis and indicators are committed before
\* the policy runs.
CommitAnalysis(w, u) ==
  /\ pc[w] = "judge" /\ IsNext(w, u)
  /\ kind[u] \in {"plain", "unhandled"}
  /\ CommitAs(w, u, "analysed")
  /\ Goto(w, "policy")
  /\ UNCHANGED <<asideVars, watermark, status, todo, processed, errors, highest, crashes>>

CommitRejected(w, u) ==
  /\ pc[w] = "judge" /\ IsNext(w, u)
  /\ kind[u] = "oversize"
  /\ Abort(w)

\* execute_policy, email.action_taken and the counters.
ExecutePolicy(w, u) ==
  /\ pc[w] = "policy" /\ IsNext(w, u)
  /\ kind[u] # "unhandled"
  /\ CommitAs(w, u, "handled")
  /\ Succeed(w, u)
  /\ Goto(w, "loop")
  /\ UNCHANGED <<asideVars, watermark, status, crashes>>

\* A write of the policy is rejected: its own handler raises, as it uses the
\* email, or its commit does.
PolicyAborts(w, u) ==
  /\ pc[w] = "policy" /\ IsNext(w, u)
  /\ kind[u] = "unhandled"
  /\ Abort(w)

\* All of the policy is committed; the commit of action_taken is rejected.
OutcomeRejected(w, u) ==
  /\ pc[w] = "policy" /\ IsNext(w, u)
  /\ kind[u] = "unhandled"
  /\ CommitAs(w, u, "handled")
  /\ Leave(w)
  /\ UNCHANGED <<mailVars, watermark, status, crashes>>

NewWatermarkReset(w) == IF processed[w] = {} THEN 0 ELSE highest[w] \* Mutant: NULL when nothing was new

\* Assigning the value the session has read is no change to the ORM, which
\* then writes nothing.
NewWatermark(w) == IF loaded[w] = highest[w] THEN watermark ELSE highest[w]

\* The watermark and COMPLETED are written by one commit.
Finish(w) ==
  /\ pc[w] = "loop" /\ todo[w] = {}
  /\ watermark' = NewWatermark(w)
  /\ status' = [status EXCEPT ![w] = "completed"]
  /\ row' = [row EXCEPT ![w] = [v \in Uids |-> AfterCommit(row[w][v])]]
  /\ Leave(w)
  /\ UNCHANGED <<mailVars, crashes>>

\* The process is killed (gunicorn's --timeout, a deploy) and started again:
\* open transactions are rolled back, nothing looks at the job rows.
Crash ==
  /\ crashes < MaxCrashes
  /\ crashes' = crashes + 1
  /\ row' = [w \in Workers |-> [u \in Uids |-> AfterRollback(row[w][u])]]
  /\ pc' = [w \in Workers |-> "idle"]
  /\ loaded' = [w \in Workers |-> Expired]
  /\ todo' = [w \in Workers |-> {}]
  /\ processed' = [w \in Workers |-> {}]
  /\ errors' = [w \in Workers |-> {}]
  /\ highest' = [w \in Workers |-> 0]
  /\ overlapped' = {}
  /\ UNCHANGED <<mailVars, watermark, status>>

Process(w, u) ==
  \/ ParseError(w, u) \/ SkipDuplicate(w, u) \/ MissDuplicate(w, u)
  \/ Insert(w, u) \/ InsertRejected(w, u) \/ LinkError(w, u)
  \/ CommitWhitelisted(w, u) \/ CommitAnalysis(w, u) \/ CommitRejected(w, u)
  \/ ExecutePolicy(w, u) \/ PolicyAborts(w, u) \/ OutcomeRejected(w, u)

Advance(w) == BeginAnalysis(w) \/ Finish(w) \/ \E u \in Uids : Process(w, u)

Next ==
  \/ Arrive \/ Crash
  \/ \E w \in Workers :
       StartScan(w) \/ Connect(w) \/ Fetch(w) \/ FailScan(w) \/ Advance(w)

Spec == Init /\ [][Next]_vars

\* The scheduler keeps starting scans, a running thread keeps running, and a
\* mail server that is tried again and again answers again and again.
Fairness ==
  \A w \in Workers :
    /\ WF_vars(StartScan(w))
    /\ WF_vars(Connect(w) \/ Fetch(w) \/ FailScan(w))
    /\ SF_vars(Connect(w)) /\ SF_vars(Fetch(w))
    /\ WF_vars(Advance(w))

FairSpec == Spec /\ Fairness

-----------------------------------------------------------------------------
TypeOK ==
  /\ kind \in Mails
  /\ arrived \in 0..MaxUid
  /\ watermark \in 0..MaxUid
  /\ row \in [Workers -> [Uids -> RowState]]
  /\ status \in [Workers -> JobStatus]
  /\ pc \in [Workers -> Place]
  /\ loaded \in [Workers -> 0..Expired]
  /\ todo \in [Workers -> SUBSET Uids]
  /\ processed \in [Workers -> SUBSET Uids]
  /\ errors \in [Workers -> SUBSET Uids]
  /\ highest \in [Workers -> 0..MaxUid]
  /\ crashes \in 0..MaxCrashes
  /\ overlapped \subseteq Workers

\* Rescans are idempotent, overlapping scans included: at no time do two Email
\* rows exist for one dedup_key, committed or in open transactions
\* (_process_message's dedup query and flush, and uq_email_mailbox_dedup).
OneRowPerMessage ==
  \A w, x \in Workers, u, v \in Uids :
    row[w][u] # "none" /\ row[x][v] # "none" /\ KeyOf[u] = KeyOf[v] => w = x /\ u = v

\* The watermark only passes what has been ingested or failed to parse:
\* run_scan never moves last_uid_scanned over a message that no scan stored,
\* whichever scans overlapped, failed, aborted or died.
WatermarkCovered ==
  \A u \in 1..watermark : Stored(KeyOf[u]) \/ kind[u] = "unparsable"

\* A message committed as an active threat (the commit before execute_policy)
\* is about to have its policy executed, unless the process was killed or the
\* database rejected what that very policy writes: no other failure, and no
\* other scan, comes in between.
AnalysedIsInFlight ==
  \A w \in Workers, u \in Uids :
    row[w][u] = "analysed" =>
      (pc[w] = "policy" /\ IsNext(w, u)) \/ crashes > 0 \/ kind[u] = "unhandled"

Terminal(w) == status[w] \in {"none", "completed", "failed"}

\* When no thread is inside run_scan for a job, the ScanJob row tells how the
\* scan ended.  False of the code: of a scan that lost a race for a key.
ReturnedJobIsTerminal == \A w \in Workers : pc[w] = "idle" => Terminal(w)

\* It is true when a scan ends that ran alone, of a mailbox without a message
\* that the database rejects, unless the process is killed: failed connections,
\* what earlier scans left behind, and errors in messages leave no job open.
Acceptable == \A u \in 1..arrived : kind[u] \notin {"oversize", "unhandled"}

Returns(w) == pc[w] # "idle" /\ pc'[w] = "idle" /\ UNCHANGED crashes

LoneJobIsTerminal ==
  [][\A w \in Workers \ overlapped : Returns(w) /\ Acceptable => Terminal(w)']_vars

\* Workers that wait in INSERT for each other's open transactions never form
\* a cycle: a failed message leaves its key locked, and the scans still end.
\* That rests on the order of the listing, so on keys that do not come back in
\* another order: either no message has a copy, or each listing holds the whole
\* backlog (Limit).  Otherwise the database would find the cycle and reject one
\* of the INSERTs; that is not modelled.
WaitsFor(w, x) ==
  /\ pc[w] = "insert" /\ x # w
  /\ \E u \in todo[w] : IsNext(w, u) /\ Holds(x, KeyOf[u])

NoWaitCycle ==
  \A S \in (SUBSET Workers) \ {{}} : \E w \in S : \A x \in S : ~ WaitsFor(w, x)

\* A scan only looks at genuinely new mail: no scan that ran alone moves the
\* watermark back, whatever scans before it left, failed or died.
WatermarkNeverMovesBack ==
  [][watermark' >= watermark \/ \E w \in overlapped : Returns(w)]_vars

\* The abstract specification, on the committed rows.
Keys == {KeyOf[u] : u \in Uids}

RowsOf(k) ==
  {row[w][u] : w \in Workers, u \in {v \in Uids : KeyOf[v] = k}} \ {"none", "pending"}

StageOf(k) == IF RowsOf(k) = {} THEN "absent" ELSE CHOOSE s \in RowsOf(k) : TRUE

Ingest == INSTANCE Ingestion WITH stage <- [k \in Keys |-> StageOf(k)]

\* Seen through its commits, the pipeline stores each message once, judges it
\* then or never, and executes its policy at most once.
ImplementsIngestion == Ingest!Spec

\* Every message the pipeline can store is stored in the end, although scans
\* fail, overlap and abort each other.
EventuallyStored ==
  \A u \in Uids : (u <= arrived /\ kind[u] # "unparsable") ~> Stored(KeyOf[u])

\* Every scan ends: no worker waits for a lock, or goes round its loop, forever.
ScansEnd == \A w \in Workers : pc[w] # "idle" ~> pc[w] = "idle"
=============================================================================
