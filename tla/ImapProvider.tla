---------------------------- MODULE ImapProvider ----------------------------
(***************************************************************************)
(* One IMAPProvider object (app/providers/imap_provider.py) and the mail   *)
(* server behind it, command by command.  The object belongs to a scan,    *)
(* which connects, lists, fetches and disconnects; to a policy, which      *)
(* moves and deletes one message and never connects by itself; or to a     *)
(* connection test.                                                        *)
(*                                                                         *)
(* A command is answered OK, is refused, or the connection is lost, before *)
(* the server executed it or after.  Other clients of the mailbox remove   *)
(* messages, and new ones arrive, between any two commands.                *)
(***************************************************************************)
EXTENDS Naturals, Sequences, FiniteSetsExt

CONSTANTS
  MaxUid,      \* bound: messages that ever arrive
  Limit,       \* max_messages of the scan
  Watermark,   \* since_uid
  Message,     \* the message the policy acts on
  Operations   \* what policies ask for, as sequences of "move" and "delete"

ASSUME ImapAssumption ==
  /\ MaxUid \in Nat /\ Limit \in Nat \ {0} /\ Watermark \in Nat
  /\ Message \in 1 .. MaxUid
  /\ Operations \subseteq Seq({"move", "delete"})

VARIABLES
  inbox, moved,  \* the messages in the folder and in the destination folder
  flagged,       \* those in the folder that carry \Deleted
  arrived,       \* how many messages ever arrived
  gone,          \* those another client removed
  user,          \* whose object it is: "scan", "policy" or "test"
  conn,          \* self._conn: "none", "half" open (no login), "ready", "dead"
  at,            \* the next command, or how the call ended
  attempt,       \* of _with_retry
  uids,          \* what the last search answered
  todo,          \* those still to fetch
  fetched,       \* the messages yielded
  ops, results,  \* the policy's operations and how they ended
  trouble        \* what went wrong: lost commands (up to two), a refusal

server == <<inbox, moved, flagged, arrived, gone>>
scanVars == <<attempt, uids, todo, fetched>>
policyVars == <<ops, results>>
vars == <<inbox, moved, flagged, arrived, gone, user, conn, at, attempt, uids, todo,
          fetched, ops, results, trouble>>

Uids == 1 .. MaxUid

Init ==
  /\ arrived \in 1 .. MaxUid
  /\ inbox \in SUBSET (1 .. arrived) /\ moved = {} /\ flagged = {}
  /\ gone = (1 .. arrived) \ inbox
  /\ user \in {"scan", "policy", "test"}
  /\ user = "policy" => arrived >= Message
  /\ conn = "none"
  /\ at = IF user = "policy" THEN "next" ELSE "connect"
  /\ attempt = 1 /\ uids = {} /\ todo = {} /\ fetched = <<>>
  /\ ops \in IF user = "policy" THEN Operations ELSE {<<>>}
  /\ results = <<>>
  /\ trouble = [lost |-> 0, refused |-> FALSE, connecting |-> FALSE]

-----------------------------------------------------------------------------
\* The server and its other clients.

Arrive ==
  /\ arrived < MaxUid
  /\ arrived' = arrived + 1
  /\ inbox' = inbox \cup {arrived + 1}
  /\ UNCHANGED <<moved, flagged, gone, user, conn, at, scanVars, policyVars, trouble>>

RemoveMessage(u) ==
  /\ u \in inbox
  /\ inbox' = inbox \ {u} /\ flagged' = flagged \ {u}
  /\ gone' = gone \cup {u}
  /\ UNCHANGED <<moved, arrived, user, conn, at, scanVars, policyVars, trouble>>

Trouble(lost, refused, connecting) ==
  trouble' = [lost |-> lost, refused |-> refused, connecting |-> connecting]
Lost == Trouble(IF trouble.lost < 2 THEN trouble.lost + 1 ELSE 2, trouble.refused, trouble.connecting)
Refused == Trouble(trouble.lost, TRUE, trouble.connecting)
Answered == UNCHANGED trouble

\* What executing the command does to the folders; a UID that is not there is
\* passed over.  EXPUNGE takes every flagged message.
Effect(command) ==
  LET here == {Message} \cap inbox
  IN  CASE command = "MOVE"    -> inbox' = inbox \ here /\ flagged' = flagged \ here /\ moved' = moved \cup here
        [] command = "COPY"    -> moved' = moved \cup here /\ UNCHANGED <<inbox, flagged>>
        [] command = "STORE"   -> flagged' = flagged \cup here /\ UNCHANGED <<inbox, moved>>
        [] command = "EXPUNGE" -> inbox' = inbox \ flagged /\ flagged' = {} /\ UNCHANGED moved
        [] OTHER               -> UNCHANGED <<inbox, moved, flagged>>

-----------------------------------------------------------------------------
\* connect and _reconnect.

\* The object's connection after connect: a login that fails leaves the open
\* connection behind.
Login(onSuccess, onFailure) ==
  \/ conn' = "ready" /\ at' = onSuccess /\ Answered
  \/ conn' = "half" /\ at' = onFailure /\ Refused
  \/ /\ conn' \in {"none", "half"} /\ at' = onFailure
     /\ Trouble(trouble.lost, trouble.refused, TRUE)

\* provider.connect() of a scan or a test: it is tried once.
Connect ==
  /\ at = "connect"
  /\ Login(IF user = "test" THEN "folders" ELSE "list_select", "failed")
  /\ UNCHANGED <<server, user, scanVars, policyVars>>

\* Mutant: the dead connection is kept.
ReconnectNot ==
  /\ at \in {"list_again", "fetch_again"}
  /\ attempt' = 2
  /\ at' = IF at = "list_again" THEN "list_select" ELSE "fetch_select"
  /\ UNCHANGED <<server, user, conn, uids, todo, fetched, policyVars, trouble>>

\* The dead connection is dropped, a fresh one opened.
Reconnect ==
  /\ at \in {"list_again", "fetch_again"}
  /\ attempt' = 2
  /\ Login(IF at = "list_again" THEN "list_select" ELSE "fetch_select", "failed")
  /\ UNCHANGED <<server, user, uids, todo, fetched, policyVars>>

\* Mutant: the second loss is retried as well.
LoseCommandForever(place) ==
  /\ conn' = "dead" /\ Lost
  /\ at' = place

\* Mutant: nothing is retried.
LoseCommandUnretried(place) ==
  /\ conn' = "dead" /\ Lost
  /\ at' = "failed"

\* _with_retry: a lost connection is retried once, anything else is not.
LoseCommand(place) ==
  /\ conn' = "dead" /\ Lost
  /\ at' = IF attempt = 1 THEN place ELSE "failed"

-----------------------------------------------------------------------------
\* fetch_new_messages: list_messages, then fetch_message one by one.

Select ==
  /\ at \in {"list_select", "fetch_select"}
  /\ \/ at' = (IF at = "list_select" THEN "search" ELSE "fetch") /\ Answered /\ UNCHANGED conn
     \/ at' = "failed" /\ Refused /\ UNCHANGED conn
     \/ LoseCommand(IF at = "list_select" THEN "list_again" ELSE "fetch_again")
  /\ UNCHANGED <<server, user, scanVars, policyVars>>

\* A search answers in ascending order: the last Limit UIDs, and of those the
\* ones above the watermark.
Newest(S) == {u \in S : Cardinality({v \in S : v > u}) < Limit}
Wanted(S) == {u \in Newest(S) : u > Watermark}

\* The next message, in that order, is fetched by a call of its own.
NextFetch(rest) == at' = IF rest = {} THEN "disconnect" ELSE "fetch_select"
NextUid == Min(todo)

\* A refused search counts as an empty mailbox.
Search ==
  /\ at = "search"
  /\ \/ /\ uids' = inbox /\ todo' = Wanted(inbox)
        /\ NextFetch(todo')
        /\ attempt' = 1 /\ Answered /\ UNCHANGED conn
     \/ /\ uids' = {} /\ todo' = {} /\ at' = "disconnect"
        /\ attempt' = 1 /\ Refused /\ UNCHANGED conn
     \/ LoseCommand("list_again") /\ UNCHANGED <<attempt, uids, todo>>
  /\ UNCHANGED <<server, user, fetched, policyVars>>

\* Mutant: a message that is gone is left out.
FetchPassingOver ==
  /\ at = "fetch"
  /\ NextUid \notin inbox
  /\ todo' = todo \ {NextUid}
  /\ NextFetch(todo') /\ attempt' = 1
  /\ UNCHANGED <<server, user, conn, uids, fetched, policyVars, trouble>>

\* A message that is gone fails the call, and is not retried.
FetchMissing ==
  /\ at = "fetch"
  /\ NextUid \notin inbox
  /\ at' = "failed"
  /\ UNCHANGED <<server, user, conn, scanVars, policyVars, trouble>>

Fetch ==
  /\ at = "fetch"
  /\ \/ /\ NextUid \in inbox
        /\ fetched' = Append(fetched, NextUid) /\ todo' = todo \ {NextUid}
        /\ NextFetch(todo') /\ attempt' = 1 /\ Answered /\ UNCHANGED conn
     \/ at' = "failed" /\ Refused /\ UNCHANGED <<conn, attempt, todo, fetched>>
     \/ LoseCommand("fetch_again") /\ UNCHANGED <<attempt, todo, fetched>>
  /\ UNCHANGED <<server, user, uids, policyVars>>

\* Whatever goes wrong with the logout is ignored.
Disconnect ==
  /\ at = "disconnect"
  /\ conn' = "none" /\ at' = "done"
  /\ UNCHANGED <<server, user, scanVars, policyVars, trouble>>

\* test_connection: list_folders answers even when LIST is refused; what it
\* raises is caught.
ListFolders ==
  /\ at = "folders"
  /\ \/ at' = "disconnect" /\ UNCHANGED conn /\ Answered
     \/ at' = "failed" /\ conn' = "dead" /\ Lost
  /\ UNCHANGED <<server, user, scanVars, policyVars>>

-----------------------------------------------------------------------------
\* move_message and delete_message, as a policy calls them: nothing is
\* retried, and what they raise is caught by the policy.

Op == ops[Len(results) + 1]
Return(result) == at' = "next" /\ results' = Append(results, result)

\* _require_conn: a connection that is half open or dead is taken as it is.
BeginOperation ==
  /\ at = "next" /\ Len(results) < Len(ops)
  /\ IF conn = "none"
     THEN /\ \/ conn' = "ready" /\ at' = "select" /\ UNCHANGED results
             \/ conn' \in {"none", "half"} /\ Return("raised")
          /\ UNCHANGED trouble
     ELSE IF conn = "ready" THEN at' = "select" /\ UNCHANGED <<conn, results, trouble>>
     ELSE Return("raised") /\ UNCHANGED <<conn, trouble>>
  /\ UNCHANGED <<server, user, scanVars, ops>>

FirstCommand == IF Op = "move" THEN "MOVE" ELSE "STORE"

\* Mutant: the original is flagged before it is copied.
AfterUnordered(command, answer) ==
  CASE command = "select"  -> [at |-> IF Op = "move" THEN "STORE" ELSE FirstCommand, result |-> "raised"]
    [] command = "STORE"   -> [at |-> "EXPUNGE", result |-> "none"]
    [] command = "EXPUNGE" -> [at |-> IF Op = "move" THEN "COPY" ELSE "next", result |-> "true"]
    [] OTHER               -> [at |-> "next", result |-> IF answer = "OK" THEN "true" ELSE "false"]

\* Where an answer leads.  A folder that cannot be selected makes every later
\* command an error; a MOVE that is refused, or not known, is replaced by COPY,
\* STORE and EXPUNGE; a STORE that is refused is noticed by delete only.
After(command, answer) ==
  CASE command = "select"  -> IF answer = "OK" THEN [at |-> FirstCommand, result |-> "none"]
                              ELSE [at |-> "next", result |-> "raised"]
    [] command = "MOVE"    -> IF answer = "OK" THEN [at |-> "next", result |-> "true"]
                              ELSE [at |-> "COPY", result |-> "none"]
    [] command = "COPY"    -> IF answer = "OK" THEN [at |-> "STORE", result |-> "none"]
                              ELSE [at |-> "next", result |-> "false"]
    [] command = "STORE"   -> [at |-> IF answer = "OK" \/ Op = "move" THEN "EXPUNGE" ELSE "EXPUNGE_refused", result |-> "none"]
    [] command = "EXPUNGE" -> [at |-> "next", result |-> "true"]
    [] OTHER               -> [at |-> "next", result |-> "false"]

Follow(next) ==
  /\ at' = next.at
  /\ results' = IF next.at = "next" THEN Append(results, next.result) ELSE results

Name(place) == IF place = "EXPUNGE_refused" THEN "EXPUNGE" ELSE place

Commands == {"select", "MOVE", "COPY", "STORE", "EXPUNGE", "EXPUNGE_refused"}

Execute ==
  /\ at \in Commands
  /\ \/ Effect(Name(at)) /\ Follow(After(at, "OK")) /\ UNCHANGED conn
     \/ Follow(After(at, "NO")) /\ UNCHANGED <<inbox, moved, flagged, conn>>
     \/ \* The connection is lost, before or after the command's effect.
        /\ Effect(Name(at)) \/ UNCHANGED <<inbox, moved, flagged>>
        /\ conn' = "dead" /\ Return("raised")
  /\ UNCHANGED <<arrived, gone, user, scanVars, ops, trouble>>

-----------------------------------------------------------------------------
Ended == at \in {"done", "failed"} \/ (at = "next" /\ Len(results) = Len(ops))

Call ==
  \/ Connect \/ Reconnect \/ Select \/ Search \/ FetchMissing \/ Fetch \/ Disconnect
  \/ ListFolders \/ BeginOperation \/ Execute

Next == Call \/ Arrive \/ \E u \in Uids : RemoveMessage(u)

\* Every command is answered, or times out after CONNECT_TIMEOUT_SECONDS.
Spec == Init /\ [][Next]_vars /\ WF_vars(Call)

-----------------------------------------------------------------------------
TypeOK ==
  /\ arrived \in 1 .. MaxUid
  /\ inbox \subseteq 1 .. arrived /\ moved \subseteq {Message} /\ flagged \subseteq inbox
  /\ gone \subseteq 1 .. arrived /\ gone \cap inbox = {}
  /\ user \in {"scan", "policy", "test"}
  /\ conn \in {"none", "half", "ready", "dead"}
  /\ at \in {"connect", "folders", "list_select", "search", "list_again", "fetch_select", "fetch",
             "fetch_again", "disconnect", "done", "failed", "next"} \cup Commands
  /\ attempt \in {1, 2}
  /\ uids \subseteq Uids /\ todo \subseteq Uids /\ fetched \in Seq(Uids)
  /\ ops \in Seq({"move", "delete"}) /\ results \in Seq({"true", "false", "raised"})
  /\ Len(results) <= Len(ops)
  /\ trouble \in [lost : 0 .. 2, refused : BOOLEAN, connecting : BOOLEAN]
  /\ at \in {"list_select", "search", "fetch_select", "fetch", "folders"} \cup Commands => conn = "ready"

\* A scan that gets through has fetched, each once and in order, exactly the
\* newest messages above the watermark of one listing: no retry repeats or
\* skips one (imap_provider.py:80-93, base.py:99-110).
FetchIsExact ==
  (user = "scan" /\ at = "done") =>
    /\ {fetched[i] : i \in DOMAIN fetched} = Wanted(uids)
    /\ \A i, j \in DOMAIN fetched : i < j => fetched[i] < fetched[j]

\* "This keeps a single flaky round-trip from failing an entire scheduled
\* scan" (imap_provider.py:81-87): once connected, a scan fails only if two
\* commands were lost, the reconnection failed, the server refused a command,
\* or another client removed a message meanwhile.
SingleLossIsSurvived ==
  (user = "scan" /\ at = "failed") =>
    trouble.lost = 2 \/ trouble.connecting \/ trouble.refused \/ gone \cap uids # {}

\* However its operations are interrupted, the message is somewhere, and
\* where they say: it leaves the server only by a delete or by another client;
\* once a move has returned True it is in the destination, and not if False
\* (imap_provider.py:180-219).
Kept ==
  \/ Message \in inbox \cup moved
  \/ \E i \in DOMAIN ops : ops[i] = "delete" /\ i <= Len(results) + 1
MovedAsTold ==
  (results # <<>> /\ ops[1] = "move") =>
    /\ results[1] = "true" => Message \in moved
    /\ results = <<"false">> /\ at = "next" => Message \notin moved
MoveIsSafe ==
  (user = "policy" /\ Message \notin gone) => Kept /\ MovedAsTold

\* Every call ends, even on a network that loses every command.
CallsEnd == <>Ended
=============================================================================
