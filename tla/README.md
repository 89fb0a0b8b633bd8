# IETDS in TLA+

A verification project for IETDS, the Intelligent Email Threat Detection System in `src/`: a Flask
application that scans mailboxes, classifies the messages with weighted rules, and acts on them. The
modules are translated from the code; TLC checks them on small instances, TLAPS proves theorems about
them for every value of the constants. `PROJECT.json` lists components, runs, mutants, findings,
hazards and theorems, and maps every definition to the lines it models.

## Inventory

| Component | State it keeps | Operations | Talks to |
|---|---|---|---|
| Scan pipeline (`services/scanner_service.py`) | `ScanJob`, `mailboxes.last_uid_scanned` and counters, `emails` and what hangs on them | `run_scan`, `_process_message` | provider, parser, detection, policy; one database session per thread |
| Providers (`app/providers`) | a connection, an access token | connect, list, fetch, move, mark as spam, delete | the mail server |
| Scheduler (`services/scheduler.py`) | the job store, `mailboxes.last_scan_at` (read) | a tick each minute, two may overlap | `run_scan`, in the tick's thread |
| Threat engine (`services/threat_engine.py`) | none | `analyze` | the custom rules' tables |
| Built-in rules (`app/detection`, `utils/domain_utils.py`) | none | 37 rules; brands, look-alikes, edit distance | the parsed email |
| Scoring, classification | none | `calculate_score`, `classify` | the settings |
| Rule builder (`routes/rules.py`, `api.py`) | `detection_rules`, `rule_conditions` | create, update, toggle, delete | - |
| Settings (`services/settings_service.py`) | `system_settings` | `get`, `set`, thresholds and actions forms | classification, policy |
| Policy engine (`services/policy_service.py`) | `emails.status`, `action_taken` | `execute_policy` | provider, quarantine, notifications |
| Quarantine and email routes (`services/quarantine_service.py`, `routes/quarantine.py`, `emails.py`, `api.py`) | `quarantine_items`, `emails.status`, `classification` | quarantine, release, mark safe, delete | - |
| Mailboxes (`services/mailbox_service.py`, `routes/mailbox.py`) | `mailboxes`, OAuth tokens, connection status | connect, test, disconnect, delete, monitor, refresh a token | providers |
| Whitelist and blacklist (`routes/whitelist.py`, `blacklist.py`) | their tables | add, toggle, delete, import, list a sender | read once per scan |
| Accounts (`routes/auth.py`, `admin.py`, `cli.py`, start-up) | `users`, `organizations` | register, change role, deactivate, super admin | whose lists and mailboxes a request sees |
| Audit, health, logs | `audit_logs`, a ring of 500 lines | append, read | everything |
| Reports, dashboard, configuration | none | read-only | - |

What is hard here:

* **Concurrency.** Scans run in request threads and in two overlapping ticks; users edit the same rows;
  rules and thresholds are edited while messages are analysed. There is no lock: everything rests on
  transactions, on one unique constraint, and on what an ORM session has read and writes back.
* **Partial failure.** A scan commits several times per message and handles exceptions in two nested
  handlers that share one session; a move is up to three IMAP commands.
* **Restarts.** `gunicorn --timeout 120` (`render.yaml:25`) kills a worker in the middle of a scan.
* **Ordering.** The watermark `last_uid_scanned` decides what later scans will never look at again.

What makes each component correct: a message is stored once, judged, acted upon, and not lost
(pipeline); a scan fetches what it listed and a message being moved is somewhere (providers); item and email
tell one story and a decision of a user stands (lifecycle); a verdict rests on evidence and can be explained
(detection, rules); a mailbox due is scanned, a disconnected one is not (scheduler, mailboxes); counters and
tokens survive concurrent sessions (mailboxes); what a request was answered is so, and no organization is left
without its account (lists, accounts).

## Modules

| Module | Models |
|---|---|
| `ScanPipeline` | `run_scan` and `_process_message` for one mailbox: overlapping workers, their transactions, failures, crashes |
| `Ingestion` | what the pipeline promises about stored messages; `ScanPipeline` implements it |
| `ImapProvider` | one provider object and its mail server, command by command |
| `Scheduler` | the dispatch tick and which mailboxes it scans, when |
| `MailboxService` | one row of `mailboxes` under concurrent sessions: counters, status, OAuth token |
| `EmailLifecycle` | one email from its classification on: `execute_policy` against the requests of users |
| `Scoring` | scores, thresholds and labels: what `Detection` and `BuiltinRules` share |
| `Detection` | `analyze`, `calculate_score`, `classify`, while rules and thresholds are edited |
| `BuiltinRules`, `Domains` | the 37 built-in rules on messages that grow piece by piece; brands, look-alikes, edit distance |
| `Accounts`, `SenderLists` | registration, roles, the super admin; the sender lists on top of it, in one composed specification |
| `ScanPipelineProofs` | theorems about `ScanPipeline`, and that it implements `Ingestion` |
| `BuiltinRulesProofs` | lemmas on induction, folds, sums and labels; theorems about `BuiltinRules` with `Domains` and `Scoring` |
| `EmailLifecycleProofs`, `ImapProviderProofs`, `MailboxServiceProofs`, `SchedulerProofs`, `DetectionProofs` | theorems about the module of that name; the last on the lemmas of `BuiltinRulesProofs` |
| `SenderListsProofs` | theorems about `SenderLists` and `Accounts` |
| `MC...` | the instances TLC checks |

How they fit: a scan of `Scheduler` is a run of `ScanPipeline`, which sees the mail server through a listing that
`ImapProvider` produces, the row `MailboxService` guards, the verdict `Detection` reaches and the lists
`SenderLists` keeps; the email it leaves is the one of `EmailLifecycle`, whose moves are those of `ImapProvider`.
Each module takes from its neighbours only how their calls may end.

### ScanPipeline

One worker per thread that may be inside `run_scan`; `pc[w]` says where it is: the commits of `run_scan`
and of `_process_message`, and the INSERT that may wait for a lock, are the boundaries between steps.
`row[w][u]` is the `emails` row that `w` inserted for message `u`: pending in its open transaction, or
committed bare, whitelisted, analysed or handled. `loaded[w]` is the watermark as `w`'s session last read
it, since the ORM writes an attribute only if it differs from what was read. Each kind of message stands
for one way through `_process_message`; `InsertRejected` and `CommitRejected` are a failed flush, after
which SQLAlchemy refuses every attribute access until a rollback: both exception handlers raise in turn
and `run_scan` itself raises (`Abort`). The policy may end that way too (kind `unhandled`): a write of it is rejected before its
commit (`PolicyAborts`, the row stays analysed) or that of `action_taken` is after it (`OutcomeRejected`). `LinkError` is an exception that leaves the flushed row in the
session. Messages are numbered by UID and arrive at any time. The database is PostgreSQL (`docs/deployment.md`),
where a duplicate INSERT waits for the other transaction; SQLite's single writer is not modelled. `overlapped` is a history
variable: the scans under way that have met another one, so that a property can be about the scans that ran alone.

### ImapProvider

One object, used by a scan (connect, list, fetch, disconnect), by a policy (moves and deletes one message, and
connects at its first command, `_require_conn`) or by the connection test; `at` is the next command. Every command is answered, refused or
lost, before or after the server executed it; other clients remove messages and new ones arrive in between.
What is still to fetch (`todo`) is a set whose least UID comes next, since the listing is sorted and never extended.
`_with_retry` repeats a lost operation once after reconnecting; `conn` has a `half` open state, since a
connection whose login failed is kept and used by the next operation. `trouble` is a history variable that
says what went wrong, so that a property can say what may fail because of it.

### Scheduler and MailboxService

`Scheduler` keeps time as ages, minutes since the last completed scan. A tick queries the monitored mailboxes, then
goes through them with the clock it read at the beginning; after its first scan its session has forgotten the
rows, so a deleted one raises and ends the tick. A scan completes, fails, or raises: of a deleted mailbox, of one whose message
another scan has just stored (`LoseRace`), and at every tick of one in `poisoned`, which holds a message that the database rejects
until somebody removes it or newer ones push it out of the listing (`Poison`, `Cure`). A scan that raises ends its tick. Two ticks run
at once at most (`max_instances=2`), a third is skipped.

`MailboxService` is one row. A session loads it, works, and commits the columns it set to another value than
the loaded one (`Written`). A scan decrypts its token, refreshes it if it tells that it is about to expire, stores the answer, connects,
and fetches, reconnecting with the token it has, however old (`Fetch`); then, for each message, the policy may do all that again with a provider of its
own (`BeginPolicy`, `EndPolicy`), and the scan reads and increments the counters. `held[s]` is the token a session works with, `waited[s]`
how long ago it was decrypted or refreshed; minutes pass for all of them, without bound. `holds` and `clash` remember
what a disconnect set and which requests ran beside it.

### EmailLifecycle

The scanning thread executes the action list of the classification one action per step. Its session's
view is `seen` (read and not expired) and `unsaved` (assigned, not committed): a commit writes `unsaved`
only where it differs from `seen`. Requests read the item and the email in two steps, in the order of
their route, and write with one commit; several of them overlap when there are several server processes
(`overlap`, chosen at the start: FALSE is `gunicorn -w 1`, `render.yaml:25`; TRUE is `-w 4`, `docs/deployment.md:10`).
`place` is where the mail server has the message, changed by moves and deletes that may fail after any command.

### Detection, BuiltinRules and Domains

In `Detection` the built-in rules are run one by one on a message that says which of them match or raise; custom rules
are read by one query and their conditions when each is evaluated, so that a deletion can come in between;
then results are added up column by column, the three thresholds are read one query at a time, and the
message is classified. Meanwhile rules are created, updated, toggled and deleted, and the form of thresholds
is saved one commit per value. `inForce` is a history variable: the settings in force since `classify`
began to read. What a rule looks for in a text is an input there.

`BuiltinRules` has what the rules look for. A message is its sender's domain and its pieces of evidence: a phrase of
one of the lists, a link, an attachment, a header that does not fit, a failed mechanism, a brand that is named.
`AddEvidence` and `Misspell` are its sender's doing (`MailSpec`); `found` is what the rules find in what it has come to.
That a text contains a phrase is a piece of evidence and is not
searched for in text. A domain (`Domains`) is a sequence of labels, parts and letters, none of the first two empty, since a string that is split has
at least one piece (`SplitDomain`); suffixes, leetspeak
and the rows of `levenshtein` are computed as in the code.

### Accounts and SenderLists

A request is one step that reads what it will rest on and one that commits, more for registration (look for the
email, choose a free slug) and for an import (one look-up per row). A commit that violates a unique constraint
changes nothing. Columns hold words (`"yes"`, `"no"`; an entry is `"on"`, `"off"` or `"none"`), so that an answer is a value of any of them. `told` keeps the answer of the last request on each value, an account's column or an
entry, unless it met another request on the same value (`overlapped`): the property is that the answer is still true.
The two lists have the same routes; one is modelled and stands for both. An import flushes its rows as it goes, the model
checks them at its commit: only which of two racing requests loses can differ.

## Runs

| Run | Checks | Shows |
|---|---|---|
| `ScanOverlap` | `OneRowPerMessage`, `WatermarkCovered`, `AnalysedIsInFlight`, `NoWaitCycle`, `LoneJobIsTerminal`, `ImplementsIngestion`, `WatermarkNeverMovesBack` | two scans that overlap or do not, five kinds of messages, two copies of one, a policy that aborts, a crash |
| `ScanLive` | `EventuallyStored`, `ScansEnd` | liveness with failing connections, aborts and a crash |
| `ImapProvider` | `FetchIsExact`, `SingleLossIsSurvived`, `MoveIsSafe`, `CallsEnd` | any command lost, refused, or executed and lost; messages coming and going |
| `Scheduler` | `EveryMonitoredIsScanned`, `StoppedIsLeftAlone` | liveness of monitoring: failing scans, scans that raise again and again, kills, deletions under a tick |
| `MailboxService` | `DisconnectHolds`, `CountersNeverExceed`, `ConnectsWithLiveToken` | lost updates and stale writes of two sessions on one row; how old a token is when a connection or reconnection is made |
| `Lifecycle` | `ItemMatchesEmail`, `PolicyKeepsDecision`, `MarkedSafeIsClean`, `MessageKept` | one process or several, twelve policies, three requests of any kind |
| `Detection` | `BadRuleIsContained`, `LabelRestsOnEvidence`, `JoinersLeftToRight`, `AgreedClassKept`, `MoreEvidenceNeverLowersRisk` | edits during an analysis, unordered thresholds and negative scores included |
| `BuiltinRules` | `VerdictsAreCorroborated`, `EvidenceAddsUp`, `RowsAreDistances` | the actual scores, on messages of up to three pieces |
| `Organization` | `EveryOrganizationHasOneAccount`, `AnswersHold`, `LockOutIsFinal` | `SenderLists` with `Accounts`: five requests, two at a time |

Each module's `TypeOK` is checked by one of its runs (`BuiltinRules`, whose state is a message, has none). `CHECK_DEADLOCK FALSE` stands where the
system may stop: an email, a call or a message is done, the requests are spent. For every property there is a mutant of a definition, a plausible bug, under
which TLC finds it violated; mutants stand in the modules beside what they mutate.

Bounds are chosen so that each case happens with little else around it:

* `ScanOverlap`, `ScanLive`: two workers are what overlaps (`max_instances=2`); three messages are an old, a current and
  a later one, or two copies and a third; one crash finds any point of a scan. One message is in good order, what the others are is open:
  trusted in `ScanLive` only, oversize in `ScanOverlap` only.
* `ImapProvider`: four messages, two of them at most in a listing, a watermark of one: the listing is cut, and a message
  is removed from it or arrives beside it. Losses are counted up to two, what the single retry tells apart.
* `Scheduler`: two mailboxes, one of them never sure to be reachable, which may be poisoned (`Exposed`), and two ticks; intervals of one and
  two minutes, a tick that takes up to a minute. Poisoning, lost races and kills are not counted: they come as often as they like.
* `MailboxService`: two sessions and two messages are what a lost update needs; a token of three minutes that is
  refreshed one before its end passes through all three of its states.
* `Lifecycle`: three requests race on one item, of which two act on what the third has changed.
* `Detection`: two edits reach a rule that is changed or deleted under an analysis.
* `BuiltinRules`: three pieces, among them one of each score; a two-letter alphabet and a digit that reads like one of
  them, two brands whose roots are far from each other, up to three letters changed.
* `Organization`: two requests at a time, two emails, one name: both race for the email, for the slug, for an entry.
  Five requests are two registrations, an entry and two requests that meet on it.

Runs that are expected to find a violation, where a text of the repository says otherwise:

* `ScanBacklog`: with more new messages than `scan.max_messages_per_run` the newest are fetched and the
  watermark passes the older ones, which no scan ever looks at.
* `ScanTicks`: overlapping scans of one mailbox are not harmless: the one that loses the race for the
  unique key ends with its job `analyzing` for ever.
* `DetectionNegative`: a loud message without any phishing result is labelled phishing, once a matching custom rule takes points off
  the scam score: the API's PUT accepts a negative one (`api.py:213-214`), and phishing's 0 is then the greatest of the three. The text
  says that such a label needs "actual" evidence (`docs/detection-engine.md:111-118`, `classification_service.py:30-37`).

### Other disagreements met while reading

They are certain rather than a matter of order, follow from the one above, or are not contradicted by any text.

* A message counted as an error because of a badly bracketed link is committed all the same, clean and without
  an analysis (`scanner_service.py:160`, against `docs/database.md:44`).
* A write of the policy that the database rejects aborts the scan, although "a single action failure must not abort the
  pipeline" (`policy_service.py:120`): the handler reads `email.id` from the poisoned session and raises in its turn. `move_to_spam,notify` on
  an IMAP mailbox is enough to abort one, with 31 characters for the 30 of `action_taken` (`scanner_service.py:203`, `email.py:67`). The job stays
  `analyzing`, and the message an active threat whose policy no later scan executes. `EmailLifecycle` and `ScanPipeline` model both;
  they are why `AnalysedIsInFlight` and `LoneJobIsTerminal` say `unhandled`.
* A mailbox with a message that the database rejects when it is inserted makes every scan raise at the same message, and each of them ends
  its tick (`scheduler.py:92-95`): mailboxes listed behind it are not scanned as long as the message stays, although "each mailbox
  with `monitoring_enabled=True` whose `scan_interval_minutes` has elapsed" (`docs/architecture.md:70-75`, `scheduler.py:10-11`) is. That is why
  `EveryMonitoredIsScanned` says `CalmInTheEnd`; without it TLC finds the starvation.
* "A scan that starts right at the boundary doesn't race an expired token" (`mailbox_service.py:25-26`) goes for two minutes: a scan or
  policy that reconnects later does so with the token it began with (`imap_provider.py:70-78`, `gmail_provider.py:65-76`), and fails if it has expired.
* An email deleted by its page between its classification and its quarantine is back in quarantine
  (`quarantine_service.py:14`, after "Email deleted.", `emails.py:122`). After `quarantine`, a `move_to_spam` that falls back overwrites the status
  with `flagged`. Both are why `ItemMatchesEmail` says `InOrder`.
* Two processes can leave a `marked_safe` item of a deleted email; a deleted item can be released; `delete`
  is recorded as applied when the server refused it (`policy_service.py:114`).
* Overlapping scans can move the watermark back, and can leave `threats_detected` above `messages_processed`.
* Two scans can wait for each other's open rows: each left one behind for a badly bracketed link, and they meet copies of the
  same messages in opposite orders, which takes more new messages than one listing holds (the condition of `WaitsNeverCycle`). The
  database ends it by rejecting one INSERT, which leaves that job unfinished; the model lets them wait.
* IMAP: a refused SEARCH counts as an empty mailbox; one listed message that is removed before it is fetched fails the
  whole scan; connecting is not retried, only what comes after; the STORE that precedes EXPUNGE in a move may be refused unnoticed.
* Naming one more brand can lower the score, since only the first of the table is compared with the sender;
  `bank` has no legitimate domain, so that any sender who names it impersonates it. `high_risk_min` has no effect.
* Accounts are made by registration only, each with an organization of its own: an admin who demotes or disables
  himself is out for good (`LockOutIsFinal`). "Only ... CLI" (`models/user.py:31-35`, `cli.py:4`) grants the super admin flag, and so
  does the start of the application (`__init__.py:93-109`).
* Listing a sender re-enables an entry of any type with the same value, which need not list the sender, and answers "Sender whitelisted."
  all the same (`quarantine_service.py:49-60`); adding a value that is there is an error 500 (`whitelist.py:34-37`).

### Fairness

* `ScanLive` (`Fairness` in `ScanPipeline`): the scheduler keeps starting scans (weak, on `StartScan`: a job each
  minute); a thread that can run does (weak, on `Advance`); a provider call returns or raises, as it has a timeout (weak);
  and a mail server that is tried again and again answers again and again (strong, on `Connect` and `Fetch`, since failing is always
  possible as well). Arrivals, crashes and a waiting INSERT get none. `oversize` messages are left out of that
  run: one of them blocks its mailbox for good.
* `Scheduler`: minutes pass (weak); ticks run (weak); the tick's query succeeds again and again (strong); and so does a scan of
  a mailbox in `Reachable` that is not poisoned (strong), of the others nothing is assumed. Requests, poisoning, its cure, kills and restarts
  get none. What `EveryMonitoredIsScanned` needs of them it says itself: `CalmInTheEnd`, from some moment on the process is up, no scan loses a race,
  and no tick lists a poisoned mailbox. It needs each of the three: any of them, for ever, can end every tick too early.
* `ImapProvider`: the object's calls go on (weak, on `Call`), as every command times out after 30 seconds; nothing is
  assumed of the server, which may lose every command.

## Proofs

Eight modules of theorems. Each holds for every value of the constants that the named assumption of the module
allows; these assumptions only give the constants their kinds, with three exceptions: `MailboxService` has finitely many
sessions and refreshes a token before its end (`Skew < Life`); `Scheduler` has finitely many mailboxes and a longest interval, which an
INTEGER column has; and `BuiltinRules` has at most ten phrases in a list (`MaxPhrases`), as the longest of the code has. A theorem that needs more says so in an `ASSUME` of its own, named below.

`ScanPipelineProofs`, for any number of workers and messages, any `KeyOf`, any mixture of kinds, any
number of crashes, under `ScanAssumption`:

* `TypeCorrect`.
* `RowsAreUnique`: `OneRowPerMessage`. It is not inductive: what excludes a second row is where workers
  are. `RowMatchesPlace` adds that nothing is flushed by a session for the key it is about to insert,
  that the row is pending when it is judged, and analysed while its policy runs. The other half is the
  guard of `Insert`: no other transaction holds the key, none has committed it.
* `WatermarkIsCovered`: `WatermarkCovered`, for a backlog that fits in one listing (`Limit >= MaxUid`; without that the
  property is false, see `ScanBacklog`). The strengthening, `SweepOf(w)`, says that everything between the
  watermark a worker read and what it has still to do is accounted for, stored or unparsable.
* `AnalysedIsAlwaysInFlight`: `AnalysedIsInFlight`, from `RowInv` and the same frame facts. It excepts what leaves an analysed row behind:
  a kill, and a policy whose own write is rejected.
* `WaitsNeverCycle`: `NoWaitCycle`, if no message has a copy or a listing holds the backlog (`KeysDiffer \/ Limit >= MaxUid`).
  `OpenRows` says that an open row belongs to a message before the one its session is about, and that
  no earlier message has its key: whoever waits is behind whoever it waits for, and the worker furthest ahead waits for nobody. Without
  the condition the property is false: two copies each of two messages, seen in opposite order by two listings
  that cut them apart, and a bad link in both.
* `WatermarkOnlyRises`: `WatermarkNeverMovesBack`, and `LoneJobIsAlwaysTerminal`: `LoneJobIsTerminal`, for any workers, kinds and crashes. Both are about
  a scan that met no other (`overlapped`), whatever scans came before it. `LoneInv` says what holds for such a scan, as long as it is alone: no
  other worker is inside `run_scan` (`Alone`), so nobody moves the watermark after its last reading; a key that was missing when
  looked up is missing at the INSERT (`MissStillHolds`); what it has fetched has arrived (`HasArrived`), so a mailbox in good order has no message it could trip over.

They share lemmas on what a step does to the rows (`RowsUnchanged`, `RowsSettled`, `RowFlushed`, `StoredKept`,
`SweepKept`, `OthersUntouched` and others), so that each action needs a few facts only.

`PipelineImplementsIngestion`, in the same module, is the refinement that `ScanOverlap` checks. The mapping chooses a stage among the
committed rows of a key; `RowsAreUnique` makes it the stage of its only row (`StageFacts`). Each commit is then a
`Transaction` of `Ingestion` on one key, together with rows that are swept along unjudged (`CommitIsTransaction`); any other step, a crash included, is a stutter.

`EmailLifecycleProofs`, for any policies, capabilities, operations and number of requests, under `LifecycleAssumption`:

* `TypeCorrect`, `MarkedSafeIsAlwaysClean`, `MessageIsAlwaysKept`: inductive with the types.
* `ItemAlwaysMatchesEmail`: `ItemMatchesEmail` is not inductive, since a policy and a request write what they have read a
  while ago. `OrderInv` (`OrderIsKept`) adds, in order: an item exists only after a quarantine; once it does, the policy has nothing unsaved;
  one request at a time is under way, and what it has read is what is there (`UpToDate`).
* `PolicyAlwaysKeepsDecision`: `PolicyKeepsDecision`, from the same invariant.

`ImapProviderProofs`, for any messages, watermark, limit and operations, under `ImapAssumption`:

* `TypeCorrect`, which includes that no command is sent without a connection that is logged in.
* `ScanFetchesExactly`: `FetchIsExact`. `FetchInv`: what is fetched and what is still to fetch are together what the
  listing wanted, and all of the first lies below all of the second, through every reconnection.
* `OneLossIsSurvived`: `SingleLossIsSurvived`. `TroubleInv` ties the position to the history: who reconnects has lost a
  command, and listed messages are in the folder or were removed by another client.
* `MoveIsAlwaysSafe`: `MoveIsSafe`. `PolicyInv`: a message is flagged, or about to be flagged or expunged, only if its copy is in the destination or a delete has begun.

`MailboxServiceProofs`, for any number of sessions and messages, any provider, any life of a token, under `MailboxAssumption`:

* `TypeCorrect`; it needs `CountInv`, since a counter stays in range only with one message per session still to be counted.
* `CountersAreNeverHigher`: `CountersNeverExceed`. `CountInv`: what a session has read never exceeds what was counted, and as long as nobody met,
  there is one session that counts and what it has read is what is there.
* `DisconnectAlwaysHolds`: `DisconnectHolds`. `HoldInv`: what a disconnect has set is remembered only while no session that could set it otherwise is
  under way, and a disconnect that will write nothing, having read `disconnected`, has met one or finds it so.
* `ConnectionsUseLiveTokens`: `ConnectsWithLiveToken`, of connections and reconnections within the margin (`Skew`) of the last look at the token.
  `TokenInv` adds what time takes: a token and the time since it was looked at outlast
  the margin together, through fetching; and the stored token keeps its `refresh_token` and its date.

`SenderListsProofs`, for any sessions, emails, names and number of requests, under `AccountsAssumption`:

* `TypeCorrect`, `OrganizationsAreOwned` (`EveryOrganizationHasOneAccount`) and `AnswersAlwaysHold` (`AnswersHold`), from one inductive
  invariant, `ListsInv`: a request that is alone on a value has read what is there (`OwnCells`), an answer is firm until requests
  meet on its value (`AnswersFirm`), what is marked as met is still under way (`OverlapsOK`). Every action is one of three kinds of step, `Begins`,
  `Continues` or `Commits`, so that the part about answers is proved three times only.
* `LockOutNeverEnds`: `LockOutIsFinal`, an action property: to be restored one needs an admin of one's organization, and
  `EveryOrganizationHasOneAccount` says that there is nobody else in it.

`SchedulerProofs`, for any mailboxes, intervals and number of ticks, under `SchedulerAssumption`: `TypeCorrect`. It is
more than types: a tick that scans has a mailbox in hand, looks at none twice, and at none that never connected.

`DetectionProofs`, for any built-in rules, custom rules, conditions, messages and settings, under
`DetectionAssumption`:

* `LabelsRestOnEvidence`: `LabelRestsOnEvidence`, whatever scores rules have: a label of the high-risk band rests on a result in one of its three
  categories, and in its own unless such a result takes points off (`PointsOff`; `DetectionNegative` shows that case). The label is
  chosen by scores, the property is about results; `EvidenceInv` ties them:
  a column holds points only if a result of that category brought them, only attachment rules are dangerous,
  all columns are 0 until scoring starts, and no class is left over from the message before.
* `EvidenceOnlyRaisesRisk`: `MoreEvidenceNeverLowersRisk`, of a result that adds points, from the same invariant. Without `PointsOff`, a label is
  "spam" only as long as nothing is dangerous and the three special columns are 0 (`LabelIsSpam`), and a
  higher total never moves a message to a lower band, whatever the order of the thresholds (`RiskGrows`).
* `MixturesAgree`: `AgreedClassKept`. `ReadsInv` says that every value that was read, is stored or is yet to be saved
  belongs to some setting in force meanwhile, each on its own; `MixtureAgrees` that such a mixture
  cannot disagree where all those settings agree.
* `BadRulesAreContained`: `BadRuleIsContained`. `ContainInv`: results are only added to, and every built-in rule before the
  position that matches is among them, whatever those before it raised.
* `TypeCorrect`. A sum of scores is an integer (`SumIsANumber`), and a row that can be queried has a category some
  user gave it (`GivenCategory`), not the placeholder of a rule that is not yet created.
* `JoinersFromTheLeft`: `JoinersLeftToRight`. `Matches` is a fold; `LeftToRight` says what it comes to for any number of conditions:
  some literal, the first or one joined by OR, holds, and after it no condition joined by AND or NOT fails.
* `ColumnsMakeTheTotal`: the columns of the breakdown add up to the total (`ColumnsAddUp`), whatever the categories. The code
  computes the two apart, one column at a time and one sum over all results; no run checks it.

`BuiltinRulesProofs`, for any brands, senders, links, attachments, letters and settings, under `RulesAssumption`, `DomainsAssumption` and
`ScoringAssumption`. The library's induction theorems take an operator and cannot be instantiated here. Instead,
`NumbersByInduction` and `SubsetsByInduction` are about a set that can be named (of numbers, of subsets of a finite set): if
one of them is not in it, there is a least one. From the first, `RecursionExists` shows that the function
that a fold CHOOSEs exists, and `FoldByPlaces` reads a fold place by place: a function on the places of a sequence
with the first value and the step as its equations. `SumByPlaces`, `PointsByRecursion` (a sum over a set is one element's
score and the sum of the rest, whichever it is) and the table of distances rest on it.

* `CorroboratedVerdicts`: `VerdictsAreCorroborated`. `MailInv`: `found` is `Results(mail)` and all evidence is of a piece. A rule gives one
  result at most (`OneEach`), and apart from the blacklist none more than 30 points, all but one of them 27 at most:
  two rules do not come to 60 (`TwoRulesAreWeak`). That no list has more than ten phrases bounds what each further phrase adds.
* `EvidenceOnlyAddsUp`: `EvidenceAddsUp`, an action property. With more evidence and no second brand each rule that
  matched still does, under the same category and for no fewer points (`ResultsGrow`); then every column and the total
  are no lower, and the label's risk is not (`OutdoneResultsRisk`, `RiskGrows`), whatever the order of the thresholds.
* `RowsGiveDistances`: `RowsAreDistances`, for words of any length. `LevenshteinByTable` turns the rows, a fold in a fold, into a table in two dimensions
  with the three equations of each cell. By induction on cells: neighbours differ by one at most (`TableIsSmooth`), only equal words are at
  0 (`ZeroIfEqual`), the table of an edited word stays within one (`EditsAreNear`), and from a cell above 0 a way back
  through the table finds the edit that lowers it (`TableIsTraced`, `SomeEditIsNearer`).

Only model-checked:

* Liveness (`EventuallyStored`, `ScansEnd`, `EveryMonitoredIsScanned`, `StoppedIsLeftAlone`, `CallsEnd`): fairness and `ENABLED` are out of
  the provers' reach.
* The three runs that are expected to find a violation (`ScanBacklog`, `ScanTicks`, `DetectionNegative`): a counterexample needs no proof.

## Not modelled

* Reading and rendering: dashboard, reports, exports, audit trail, log buffer, super admin pages. They keep no state that
  a decision rests on.
* Text: MIME parsing, the search for phrases, HTML. `email_parser` appears as what the rules can tell of a
  message and as raising or not.
* Libraries: hashing, encryption, login sessions, rate limits, the OAuth consent dialogue.
* UIDVALIDITY, which the code never reads; `mark_as_read`, `create_folder`, `search_messages`, which nothing calls.
* The counters of a job, which a single thread writes; feedback, which nothing reads back; branding and profiles; the demo
  provider and its fixtures.
* The recovery of jobs a killed process leaves behind: there is none in the code, and no text promises one.

## Plan

Done: all modules above, and a theorem for every safety property of the passing runs. Left, in this order:

1. `Scheduler`: what a step of a tick may do to a row it did not take (an action property of `TickStep`), as a theorem that the liveness runs lean on;
2. `ImapProvider` as an implementation of the listing that `ScanPipeline` takes from it.
