--------------------------- MODULE EmailLifecycle ---------------------------
(***************************************************************************)
(* What becomes of one email once its classification is committed: the     *)
(* policy of the classification, executed by the scanning thread           *)
(* (app/services/policy_service.py), and what users do to the email and    *)
(* its quarantine item meanwhile and afterwards                            *)
(* (app/services/quarantine_service.py, called from app/routes).           *)
(*                                                                         *)
(* The scanning thread and every request have a database session of their  *)
(* own.  A session reads a row when it first uses it, keeps what it read   *)
(* until it commits, and writes only the columns that were given another   *)
(* value than the one it read: a write can rest on a stale read.           *)
(***************************************************************************)
EXTENDS Naturals, Sequences, SequencesExt

CONSTANTS
  Policies,      \* values of the setting action.<classification>, as sequences
  Capabilities,  \* what the mailbox's provider supports
  Requests,      \* bound: one HTTP request on this email each
  Operations     \* what the requests may ask for, see Operation

Action == {"allow", "flag", "quarantine", "notify", "move_to_spam", "move_to_folder", "delete"}
Capability == {"mark_as_spam", "move_messages", "delete_messages"}

\* By the page they come from: release, mark_safe and delete_item name a
\* quarantine item, release_email and delete_email name the email.
ByItem == {"release", "mark_safe", "delete_item"}
Operation == ByItem \cup {"release_email", "delete_email"}

ASSUME LifecycleAssumption ==
  /\ Policies \subseteq Seq(Action)
  /\ Capabilities \subseteq Capability
  /\ Operations \subseteq Operation

EmailStatus == {"active", "flagged", "quarantined", "released", "deleted"}
QuarantineStatus == {"quarantined", "released", "marked_safe", "deleted"}

VARIABLES
  status,   \* email.status
  class,    \* email.classification: "threat" for any but "clean"
  item,     \* the quarantine item's status, "none" without a row
  place,    \* the folders of the mail server that hold the message
  pc,       \* where the scanning thread is
  actions,  \* the setting it read
  provider, \* whether it could build a provider
  step,     \* the action it executes next
  seen,     \* the email.status its session has read, or "expired"
  unsaved,  \* the email.status it has set and not committed, or "none"
  applied,  \* the action names execute_policy returns
  op,       \* op[r]: what request r asks for
  at,       \* at[r]: how far request r is
  saw,      \* saw[r]: what its session has read of the two statuses
  overlap   \* requests may overlap: the server has several processes

rowVars    == <<status, class, item>>
policyVars == <<place, pc, actions, provider, step, seen, unsaved, applied>>
requestVars == <<op, at, saw, overlap>>
vars == <<status, class, item, place, pc, actions, provider, step, seen, unsaved, applied, op, at, saw, overlap>>

-----------------------------------------------------------------------------
\* The scanning thread: execute_policy, then email.action_taken.

\* email.action_taken is 30 characters wide, commas included.
Fallback == "flag (provider fallback)"
Width == [a \in Action \cup {Fallback} |->
            CASE a = "flag" -> 4 [] a = "allow" -> 5 [] a \in {"notify", "delete"} -> 6
              [] a = "quarantine" -> 10 [] a = "move_to_spam" -> 12
              [] a = "move_to_folder" -> 14 [] OTHER -> 24]
FitsColumn(names) == FoldLeft(LAMBDA sum, a : sum + Width[a] + 1, 0, names) <= 31

Init ==
  /\ status = "active" /\ class = "threat" /\ item = "none"
  /\ place = {"inbox"}
  /\ pc = "begin" /\ actions \in Policies /\ provider = FALSE /\ step = 1
  /\ seen = "expired" /\ unsaved = "none" /\ applied = <<>>
  /\ op \in [Requests -> Operations]
  /\ at = [r \in Requests |-> "start"]
  /\ saw = [r \in Requests |-> [item |-> "none", status |-> "active"]]
  /\ overlap \in BOOLEAN

NeedsProvider == \E i \in DOMAIN actions : actions[i] \in {"move_to_spam", "move_to_folder", "delete"}

\* Using the email reads its row, unless the session has it already.
Load == seen' = IF seen = "expired" /\ unsaved = "none" THEN status ELSE seen

\* What a commit of the scanning thread leaves in email.status.
Saved == IF unsaved \in {"none", seen} THEN status ELSE unsaved

Commit ==
  /\ status' = Saved
  /\ seen' = "expired" /\ unsaved' = "none"

\* The provider is built once, if any action needs it; that may fail.
BeginPolicy ==
  /\ pc = "begin"
  /\ pc' = "policy"
  /\ IF NeedsProvider THEN provider' \in BOOLEAN /\ Load ELSE UNCHANGED <<provider, seen>>
  /\ UNCHANGED <<rowVars, place, actions, step, unsaved, applied, requestVars>>

Now(a) == pc = "policy" /\ step <= Len(actions) /\ actions[step] = a
Advance == step' = step + 1 /\ UNCHANGED <<class, pc, actions, provider, requestVars>>
Apply(name) == applied' = Append(applied, name)

Set(a, s) ==
  /\ Now(a)
  /\ unsaved' = s
  /\ Apply(a) /\ Advance
  /\ UNCHANGED <<status, item, place, seen>>

Allow == Set("allow", "active")
Flag  == Set("flag", "flagged")

\* Mutant: the email's status is left to the commit that ends the policy.
QuarantineLater ==
  /\ Now("quarantine") /\ item = "none"
  /\ item' = "quarantined" /\ unsaved' = "quarantined"
  /\ Apply("quarantine") /\ Advance
  /\ UNCHANGED <<status, place, seen>>

\* quarantine_email: the item and the email's status in one commit.
Quarantine ==
  /\ Now("quarantine") /\ item = "none"
  /\ item' = "quarantined" /\ status' = "quarantined"
  /\ seen' = "expired" /\ unsaved' = "none"
  /\ Apply("quarantine") /\ Advance
  /\ UNCHANGED place

\* A second item for the email is rejected by the unique email_id.  The
\* handler's own logging needs the rolled-back session and raises: the policy
\* and the scan around it are abandoned.
QuarantineRejected ==
  /\ Now("quarantine") /\ item # "none"
  /\ pc' = "aborted" /\ seen' = "expired" /\ unsaved' = "none"
  /\ UNCHANGED <<rowVars, place, actions, provider, step, applied, requestVars>>

\* The notification's commit saves what was set before it.
Notify ==
  /\ Now("notify")
  /\ Commit
  /\ Apply("notify") /\ Advance
  /\ UNCHANGED <<item, place>>

Supported(c) == provider /\ c \in Capabilities

\* Mutant: the message is removed from the INBOX before it is copied.
AfterMoveDeletingFirst(folder) ==
  IF "inbox" \in place
  THEN {place, place \ {"inbox"}, (place \ {"inbox"}) \cup {folder}}
  ELSE {place}

\* MOVE, or COPY and then removal from the INBOX; each command may fail.
AfterMove(folder) ==
  IF "inbox" \in place
  THEN {place, place \cup {folder}, (place \ {"inbox"}) \cup {folder}}
  ELSE {place}

\* The provider is asked, and what it answers is ignored; if it raises, the
\* action is not listed.
Ask(a, places) ==
  /\ place' \in places
  /\ Apply(a) \/ UNCHANGED applied

Move(a, capability, folder) ==
  /\ Now(a)
  /\ Supported(capability)
  /\ Ask(a, AfterMove(folder))
  /\ Load /\ Advance
  /\ UNCHANGED <<status, item, unsaved>>

\* Without provider support the email is flagged in the application.
MoveFallback(a, capability) ==
  /\ Now(a)
  /\ ~ Supported(capability)
  /\ unsaved' = "flagged"
  /\ Apply(Fallback) /\ Advance
  /\ UNCHANGED <<status, item, place, seen>>

\* The email becomes deleted unless the provider raises.
Delete ==
  /\ Now("delete")
  /\ \/ Apply("delete") /\ unsaved' = "deleted"
     \/ Supported("delete_messages") /\ UNCHANGED <<applied, unsaved>>
  /\ IF Supported("delete_messages") THEN place' \in {place, place \ {"inbox"}} ELSE UNCHANGED place
  /\ IF Supported("delete_messages") THEN Load ELSE UNCHANGED seen
  /\ Advance
  /\ UNCHANGED <<status, item>>

EndPolicy ==
  /\ pc = "policy" /\ step > Len(actions)
  /\ pc' = "record"
  /\ Commit
  /\ UNCHANGED <<class, item, place, actions, provider, step, applied, requestVars>>

\* The scanner saves email.action_taken; the column may be too narrow.
RecordActions ==
  /\ pc = "record"
  /\ pc' = IF FitsColumn(applied) THEN "done" ELSE "aborted"
  /\ UNCHANGED <<rowVars, place, actions, provider, step, seen, unsaved, applied, requestVars>>

\* The process is killed; no later scan takes the policy up again.
Kill ==
  /\ pc \in {"begin", "policy", "record"}
  /\ pc' = "killed" /\ seen' = "expired" /\ unsaved' = "none"
  /\ UNCHANGED <<rowVars, place, actions, provider, step, applied, requestVars>>

PolicyStep ==
  \/ BeginPolicy \/ Allow \/ Flag \/ Quarantine \/ QuarantineRejected \/ Notify
  \/ Move("move_to_spam", "mark_as_spam", "spam")
  \/ Move("move_to_folder", "move_messages", "folder")
  \/ MoveFallback("move_to_spam", "mark_as_spam")
  \/ MoveFallback("move_to_folder", "move_messages")
  \/ Delete \/ EndPolicy \/ RecordActions

-----------------------------------------------------------------------------
\* The requests.  None looks at the status it changes.

Moveto(r, p) == at' = [at EXCEPT ![r] = p]

MayStart(r) == overlap \/ \A s \in Requests \ {r} : at[s] \in {"start", "done"}

ReadItem(r)  == saw' = [saw EXCEPT ![r] = [item |-> item, status |-> saw[r].status]]
ReadEmail(r) == saw' = [saw EXCEPT ![r] = [item |-> saw[r].item, status |-> status]]

\* A route by item reads the item, 404 if there is none, then its email; a
\* route by email reads the email, then its item, if any.
ReadFirst(r) ==
  /\ at[r] = "start" /\ MayStart(r)
  /\ IF op[r] \in ByItem THEN item # "none" /\ ReadItem(r) ELSE ReadEmail(r)
  /\ Moveto(r, "reading")
  /\ UNCHANGED <<rowVars, policyVars, op, overlap>>

ReadSecond(r) ==
  /\ at[r] = "reading"
  /\ IF op[r] \in ByItem THEN ReadEmail(r) ELSE ReadItem(r)
  /\ Moveto(r, "writing")
  /\ UNCHANGED <<rowVars, policyVars, op, overlap>>

\* Only what differs from what was read is written.
Write(r, newItem, newStatus) ==
  /\ item' = IF saw[r].item = newItem THEN item ELSE newItem
  /\ status' = IF saw[r].status = newStatus THEN status ELSE newStatus

Finish(r) ==
  /\ at[r] = "writing"
  /\ Moveto(r, "done")
  /\ UNCHANGED <<policyVars, op, saw, overlap>>

Release(r) ==
  /\ op[r] \in {"release", "release_email"} /\ saw[r].item # "none"
  /\ Write(r, "released", "released")
  /\ UNCHANGED class
  /\ Finish(r)

MarkSafeKeepingClass(r) == \* Mutant: the classification is forgotten
  /\ op[r] = "mark_safe"
  /\ Write(r, "marked_safe", "released")
  /\ UNCHANGED class
  /\ Finish(r)

MarkSafeOneStatus(r) == \* Mutant: the item's status is given to the email as well
  /\ op[r] = "mark_safe"
  /\ Write(r, "marked_safe", "marked_safe")
  /\ class' = "clean"
  /\ Finish(r)

MarkSafe(r) ==
  /\ op[r] = "mark_safe"
  /\ Write(r, "marked_safe", "released")
  /\ class' = "clean"
  /\ Finish(r)

DeleteItemOnly(r) == \* Mutant: the email keeps its status
  /\ op[r] \in {"delete_item", "delete_email"} /\ saw[r].item # "none"
  /\ Write(r, "deleted", saw[r].status)
  /\ UNCHANGED class
  /\ Finish(r)

DeletePermanently(r) ==
  /\ op[r] \in {"delete_item", "delete_email"} /\ saw[r].item # "none"
  /\ Write(r, "deleted", "deleted")
  /\ UNCHANGED class
  /\ Finish(r)

\* emails.delete of an email without a quarantine item.
DeleteEmail(r) ==
  /\ op[r] = "delete_email" /\ saw[r].item = "none"
  /\ Write(r, "none", "deleted")
  /\ UNCHANGED class
  /\ Finish(r)

ReleaseNothing(r) ==
  /\ op[r] = "release_email" /\ saw[r].item = "none"
  /\ UNCHANGED rowVars
  /\ Finish(r)

RequestStep(r) ==
  \/ ReadFirst(r) \/ ReadSecond(r) \/ Release(r) \/ MarkSafe(r)
  \/ DeletePermanently(r) \/ DeleteEmail(r) \/ ReleaseNothing(r)

Next == PolicyStep \/ Kill \/ \E r \in Requests : RequestStep(r)

Spec == Init /\ [][Next]_vars

-----------------------------------------------------------------------------
TypeOK ==
  /\ status \in EmailStatus
  /\ class \in {"threat", "clean"}
  /\ item \in QuarantineStatus \cup {"none"}
  /\ place \subseteq {"inbox", "spam", "folder"}
  /\ pc \in {"begin", "policy", "record", "done", "aborted", "killed"}
  /\ actions \in Policies
  /\ provider \in BOOLEAN
  /\ step \in 1..(Len(actions) + 1)
  /\ seen \in EmailStatus \cup {"expired"}
  /\ unsaved \in EmailStatus \cup {"none"}
  /\ applied \in Seq(Action \cup {Fallback})
  /\ op \in [Requests -> Operations]
  /\ at \in [Requests -> {"start", "reading", "writing", "done"}]
  /\ saw \in [Requests -> [item : QuarantineStatus \cup {"none"}, status : EmailStatus]]
  /\ overlap \in BOOLEAN

\* What keeps an item and its email together: one server process, no deletion
\* from the email's own page, and no action after quarantine that sets another
\* status.
InOrder ==
  /\ ~overlap
  /\ \A r \in Requests : op[r] # "delete_email"
  /\ \A i, j \in DOMAIN actions : i < j /\ actions[i] = "quarantine" => actions[j] = "notify"

Standing == [quarantined |-> "quarantined", released |-> "released",
             marked_safe |-> "released", deleted |-> "deleted"]

\* The quarantine page and the email page tell the same story, as long as all
\* is in order: a quarantine item and its email change together, whatever the
\* policy does before and between the requests (quarantine_service).
ItemMatchesEmail == InOrder /\ item # "none" => status = Standing[item]

\* An email a user marked safe counts as clean in every list and report
\* (mark_safe), whatever else happened to it at the same time.
MarkedSafeIsClean == item = "marked_safe" => class = "clean"

\* Unless an admin configured delete, some folder of the mail server holds the
\* message whichever command of a move failed (execute_policy, move_message).
MessageKept == place = {} => \E i \in DOMAIN actions : actions[i] = "delete"

\* Once a user has decided about a quarantined email, the policy that is still
\* running does not touch the decision, as long as all is in order
\* (execute_policy against the routes).
PolicyKeepsDecision ==
  [][InOrder /\ item \notin {"none", "quarantined"} /\ UNCHANGED at => UNCHANGED rowVars]_vars
=============================================================================
