--------------------------- MODULE MailboxService ---------------------------
(***************************************************************************)
(* One row of the table mailboxes under concurrent use                     *)
(* (app/services/mailbox_service.py): scans that refresh its OAuth token   *)
(* and count its messages, beside the requests that test, monitor,         *)
(* disconnect and delete it (app/routes/mailbox.py).                       *)
(*                                                                         *)
(* A scan and the policy of each of its messages build a provider of their *)
(* own, and either may refresh the token.                                  *)
(*                                                                         *)
(* Every session loads the row, works on what it has loaded, and commits:  *)
(* a commit writes the columns that were set to another value than the one *)
(* loaded, and any column set while it was not loaded.  Several sessions   *)
(* may be between the two.                                                 *)
(***************************************************************************)
EXTENDS Integers, FiniteSets

CONSTANTS
  Sessions,      \* bound: a scan or a request at a time each
  Provider,
  Life,          \* minutes an access token lives
  Skew,          \* minutes before its end from which it is refreshed
  MaxMessages    \* bound: messages that are counted

ASSUME MailboxAssumption ==
  /\ IsFiniteSet(Sessions)
  /\ Provider \in {"imap", "gmail", "demo"}
  /\ Life \in Nat /\ Skew \in Nat /\ Skew < Life
  /\ MaxMessages \in Nat

Jobs == {"scan", "test", "enable", "disable", "disconnect", "delete"}
Status == {"pending", "connected", "error", "disconnected"}

\* The token as it is stored: the minutes its access token has still to live,
\* whether it tells them, by obtained_at and expires_in, and whether it has a
\* refresh_token.
Token == [left : 0 .. Life, dated : BOOLEAN, refresh : BOOLEAN]

VARIABLES
  live,      \* the row exists
  status, monitored, processed, threats, token,  \* its columns
  job,       \* job[s]: what session s is doing, "none" when idle, "policy"
             \* while a scan executes the policy of a message on the server
  pc,        \* pc[s]: how far it is
  loaded,    \* loaded[s]: the columns its session has loaded; "unknown" status when expired
  held,      \* held[s]: the token it has decrypted
  waited,    \* waited[s]: minutes since it decrypted or refreshed it
  failed,    \* failed[s]: the refresh of it failed
  handled, threatening,  \* the messages that were counted, in truth
  mixed,     \* two sessions have counted at the same time
  refreshable,  \* the mailbox was connected with a refresh_token and a date
  holds,     \* what the last disconnect set, and no request has touched since
  clash      \* clash[s]: what requests beside the disconnect s may have set

row == <<live, status, monitored, processed, threats, token>>
tokenVars == <<held, waited, failed>>
countVars == <<handled, threatening, mixed>>
ghosts == <<refreshable, holds, clash>>
vars == <<live, status, monitored, processed, threats, token, job, pc, loaded,
          held, waited, failed, handled, threatening, mixed, refreshable, holds, clash>>

NoToken == [left |-> 0, dated |-> FALSE, refresh |-> FALSE]
Unloaded == [status |-> "unknown", monitored |-> FALSE, processed |-> 0, threats |-> 0]

\* create_imap_mailbox, create_oauth_mailbox and create_demo_mailbox.
Init ==
  /\ live = TRUE
  /\ status = IF Provider = "imap" THEN "pending" ELSE "connected"
  /\ monitored = FALSE /\ processed = 0 /\ threats = 0
  /\ token \in IF Provider = "gmail" THEN [left : {Life}, dated : BOOLEAN, refresh : BOOLEAN] ELSE {NoToken}
  /\ refreshable = (token.dated /\ token.refresh)
  /\ job = [s \in Sessions |-> "none"] /\ pc = [s \in Sessions |-> "idle"]
  /\ loaded = [s \in Sessions |-> Unloaded]
  /\ held = [s \in Sessions |-> NoToken]
  /\ waited = [s \in Sessions |-> 0] /\ failed = [s \in Sessions |-> FALSE]
  /\ handled = 0 /\ threatening = 0 /\ mixed = FALSE
  /\ holds = {} /\ clash = [s \in Sessions |-> {}]

-----------------------------------------------------------------------------
Snapshot == [status |-> status, monitored |-> monitored, processed |-> processed, threats |-> threats]
Flags    == [status |-> status, monitored |-> monitored, processed |-> 0, threats |-> 0]

Goto(s, place) == pc' = [pc EXCEPT ![s] = place]

\* The provider is not used again, and its token with it.
DropToken(s) ==
  /\ held' = [held EXCEPT ![s] = NoToken]
  /\ waited' = [waited EXCEPT ![s] = 0]
  /\ failed' = [failed EXCEPT ![s] = FALSE]

\* The session is removed, with all it held.
Leave(s) ==
  /\ job' = [job EXCEPT ![s] = "none"]
  /\ pc' = [pc EXCEPT ![s] = "idle"]
  /\ loaded' = [loaded EXCEPT ![s] = Unloaded]
  /\ DropToken(s)
  /\ clash' = [clash EXCEPT ![s] = {}]

\* What a request of this kind sets behind a disconnect's back.
Touches(j) == CASE j = "enable" -> {"monitored"} [] j = "test" -> {"status"} [] OTHER -> {}

\* A request or a tick loads the row, here the columns it will use.  A scan
\* commits its job first, which expires what was loaded.
Start(s, j) ==
  /\ job[s] = "none" /\ live
  /\ job' = [job EXCEPT ![s] = j]
  /\ Goto(s, IF j \in {"scan", "test"} THEN "build" ELSE "commit")
  /\ loaded' = [loaded EXCEPT ![s] = IF j \in {"scan", "delete"} THEN Unloaded
                                      ELSE Flags]
  /\ holds' = holds \ Touches(j)
  /\ clash' = [r \in Sessions |->
       IF r = s THEN IF j = "disconnect" THEN UNION {Touches(job[q]) : q \in Sessions} ELSE {}
       ELSE IF job[r] = "disconnect" THEN clash[r] \cup Touches(j) ELSE clash[r]]
  /\ UNCHANGED <<row, tokenVars, countVars, refreshable>>

\* A write of the row is rejected once the row is gone: the session is
\* poisoned, and the scan or the request ends in an exception.
RowGone(s) ==
  /\ pc[s] # "idle" /\ ~live
  /\ Leave(s)
  /\ UNCHANGED <<row, countVars, refreshable, holds>>

-----------------------------------------------------------------------------
\* build_provider and the connection.

\* Mutant: the token is used to its last minute.
TokenIsExpiredLate(t) == t.dated /\ t.left = 0

\* _token_is_expired: a token without a date is never found expired.
TokenIsExpired(t) == t.dated /\ t.left <= Skew

\* The password, or the token, is decrypted.
BuildProvider(s) ==
  /\ pc[s] = "build" /\ live
  /\ held' = [held EXCEPT ![s] = token]
  /\ waited' = [waited EXCEPT ![s] = 0]
  /\ Goto(s, IF Provider = "gmail" /\ token.refresh /\ TokenIsExpired(token) THEN "refresh" ELSE "connect")
  /\ UNCHANGED <<row, job, loaded, failed, countVars, ghosts>>

\* The answer usually has no refresh_token: the old one is kept.
TokenRefreshed(s) ==
  /\ pc[s] = "refresh"
  /\ held' = [held EXCEPT ![s] = [left |-> Life, dated |-> TRUE, refresh |-> TRUE]]
  /\ waited' = [waited EXCEPT ![s] = 0]
  /\ Goto(s, "store")
  /\ UNCHANGED <<row, job, loaded, failed, countVars, ghosts>>

\* Any failure falls back to the token there is.
RefreshFailed(s) ==
  /\ pc[s] = "refresh"
  /\ failed' = [failed EXCEPT ![s] = TRUE]
  /\ Goto(s, "connect")
  /\ UNCHANGED <<row, job, loaded, held, waited, countVars, ghosts>>

\* update_oauth_token: another session may have stored a later one.
StoreToken(s) ==
  /\ pc[s] = "store" /\ live
  /\ token' = held[s]
  /\ loaded' = [loaded EXCEPT ![s] = Unloaded]
  /\ Goto(s, "connect")
  /\ UNCHANGED <<live, status, monitored, processed, threats, job, tokenVars, countVars, ghosts>>

Accepted(s) == Provider # "gmail" \/ held[s].left > 0

\* provider.connect: a rejected token or password, or a lost connection, ends
\* the scan with a failed job.
ConnectScan(s) ==
  /\ pc[s] = "connect" /\ job[s] = "scan"
  /\ \/ Accepted(s) /\ Goto(s, "fetch") /\ UNCHANGED <<job, loaded, tokenVars, clash>>
     \/ Leave(s)
  /\ UNCHANGED <<row, countVars, refreshable, holds>>

\* fetch_new_messages, which may take any time.  A command that loses the
\* connection is sent once more over another, which is made with the token the
\* scan began with, however old: refused or lost again, the scan fails.
Fetch(s) ==
  /\ pc[s] = "fetch"
  /\ \/ Goto(s, "scan") /\ DropToken(s) /\ UNCHANGED <<job, loaded, clash>>
     \/ Leave(s)
  /\ UNCHANGED <<row, countVars, refreshable, holds>>

\* execute_policy builds a provider of its own for the actions that need the
\* server.
BeginPolicy(s) ==
  /\ pc[s] = "scan" /\ live
  /\ job' = [job EXCEPT ![s] = "policy"]
  /\ Goto(s, "build")
  /\ UNCHANGED <<row, loaded, tokenVars, countVars, ghosts>>

\* The actions connect at their first command and, if that fails, at a later
\* one; no error of theirs goes beyond the action.
EndPolicy(s) ==
  /\ pc[s] = "connect" /\ job[s] = "policy"
  /\ job' = [job EXCEPT ![s] = "scan"]
  /\ Goto(s, "applied")
  /\ DropToken(s)
  /\ UNCHANGED <<row, loaded, countVars, ghosts>>

\* A column set to the value that was loaded is not written.
Written(old, new, current) == IF old = new THEN current ELSE new

\* test_connection stores what it found; the Gmail provider lets all but
\* authentication errors through, and then nothing is stored.
ConnectTest(s) ==
  /\ pc[s] = "connect" /\ job[s] = "test" /\ live
  /\ \E result \in (IF Accepted(s) THEN {"connected"} ELSE {}) \cup {"error"} :
       status' = Written(loaded[s].status, result, status)
  /\ Leave(s)
  /\ UNCHANGED <<live, monitored, processed, threats, token, countVars, refreshable, holds>>

TestRaises(s) ==
  /\ pc[s] = "connect" /\ job[s] = "test" /\ Provider = "gmail"
  /\ Leave(s)
  /\ UNCHANGED <<row, countVars, refreshable, holds>>

-----------------------------------------------------------------------------
\* The counters, after each message (scanner_service.py:206-211).

ReadCounters(s) ==
  /\ pc[s] \in {"scan", "applied"} /\ live
  /\ handled + Cardinality({r \in Sessions : pc[r] = "count"}) < MaxMessages
  /\ loaded' = [loaded EXCEPT ![s] = Snapshot]
  /\ mixed' = (mixed \/ \E r \in Sessions : pc[r] = "count")
  /\ Goto(s, "count")
  /\ UNCHANGED <<row, job, tokenVars, handled, threatening, ghosts>>

Count(s, isThreat) ==
  /\ pc[s] = "count" /\ live
  /\ handled' = handled + 1
  /\ threatening' = threatening + (IF isThreat THEN 1 ELSE 0)
  /\ processed' = loaded[s].processed + 1
  /\ threats' = IF isThreat THEN loaded[s].threats + 1 ELSE threats
  /\ Goto(s, "scan")
  /\ UNCHANGED <<live, token, job, tokenVars, mixed, ghosts>>

\* Mutant: the whole row is written back.
SaveCountersWholeRow(s) ==
  /\ \E isThreat \in BOOLEAN : Count(s, isThreat)
  /\ status' = loaded[s].status /\ monitored' = loaded[s].monitored
  /\ loaded' = [loaded EXCEPT ![s] = Unloaded]

\* Mutant: a threat is counted twice.
SaveCountersTwice(s) ==
  /\ pc[s] = "count" /\ live
  /\ handled' = handled + 1 /\ threatening' = threatening + 1
  /\ processed' = loaded[s].processed + 1
  /\ threats' = loaded[s].threats + 2
  /\ Goto(s, "scan")
  /\ loaded' = [loaded EXCEPT ![s] = Unloaded]
  /\ UNCHANGED <<live, status, monitored, token, job, tokenVars, mixed, ghosts>>

\* threats_detected is only set for a threat.
SaveCounters(s) ==
  /\ \E isThreat \in BOOLEAN : Count(s, isThreat)
  /\ loaded' = [loaded EXCEPT ![s] = Unloaded]
  /\ UNCHANGED <<status, monitored>>

\* The scan completes, fails or raises: it writes last_scan_at and
\* last_uid_scanned, which are not columns of this module.
EndScan(s) ==
  /\ pc[s] \in {"scan", "applied"}
  /\ Leave(s)
  /\ UNCHANGED <<row, countVars, refreshable, holds>>

-----------------------------------------------------------------------------
\* The other requests commit what they set.

SetMonitoring(s) ==
  /\ pc[s] = "commit" /\ job[s] \in {"enable", "disable"} /\ live
  /\ monitored' = Written(loaded[s].monitored, job[s] = "enable", monitored)
  /\ Leave(s)
  /\ UNCHANGED <<live, status, processed, threats, token, countVars, refreshable, holds>>

Disconnect(s) ==
  /\ pc[s] = "commit" /\ job[s] = "disconnect" /\ live
  /\ status' = Written(loaded[s].status, "disconnected", status)
  /\ monitored' = Written(loaded[s].monitored, FALSE, monitored)
  /\ holds' = (holds \cup {"status", "monitored"}) \ clash[s]
  /\ Leave(s)
  /\ UNCHANGED <<live, processed, threats, token, countVars, refreshable>>

Delete(s) ==
  /\ pc[s] = "commit" /\ job[s] = "delete" /\ live
  /\ live' = FALSE
  /\ Leave(s)
  /\ UNCHANGED <<status, monitored, processed, threats, token, countVars, refreshable, holds>>

Aged(t) == [t EXCEPT !.left = IF @ = 0 THEN 0 ELSE @ - 1]

\* A minute passes for the tokens.  Longer than the skew is long.
Minute ==
  /\ Provider = "gmail" /\ live
  /\ token' = Aged(token)
  /\ held' = [s \in Sessions |-> Aged(held[s])]
  /\ waited' = [s \in Sessions |->
       IF pc[s] \in {"refresh", "store", "connect", "fetch"} /\ waited[s] <= Skew THEN waited[s] + 1 ELSE waited[s]]
  /\ UNCHANGED <<live, status, monitored, processed, threats, job, pc, loaded, failed, countVars, ghosts>>

Scan(s) ==
  \/ BuildProvider(s) \/ TokenRefreshed(s) \/ RefreshFailed(s) \/ StoreToken(s)
  \/ ConnectScan(s) \/ Fetch(s) \/ BeginPolicy(s) \/ EndPolicy(s)
  \/ ReadCounters(s) \/ SaveCounters(s) \/ EndScan(s)

Next ==
  \/ Minute
  \/ \E s \in Sessions :
       \/ \E j \in Jobs : Start(s, j)
       \/ RowGone(s) \/ Scan(s) \/ ConnectTest(s) \/ TestRaises(s)
       \/ SetMonitoring(s) \/ Disconnect(s) \/ Delete(s)

Spec == Init /\ [][Next]_vars

-----------------------------------------------------------------------------
TypeOK ==
  /\ live \in BOOLEAN /\ status \in Status /\ monitored \in BOOLEAN
  /\ processed \in 0 .. MaxMessages /\ threats \in 0 .. MaxMessages
  /\ token \in Token
  /\ job \in [Sessions -> Jobs \cup {"none", "policy"}]
  /\ pc \in [Sessions -> {"idle", "build", "refresh", "store", "connect", "fetch", "scan", "applied", "count", "commit"}]
  /\ loaded \in [Sessions -> [status : Status \cup {"unknown"}, monitored : BOOLEAN,
                               processed : 0 .. MaxMessages, threats : 0 .. MaxMessages]]
  /\ held \in [Sessions -> Token] /\ waited \in [Sessions -> 0 .. Skew + 1] /\ failed \in [Sessions -> BOOLEAN]
  /\ handled \in 0 .. MaxMessages /\ threatening \in 0 .. handled /\ mixed \in BOOLEAN
  /\ refreshable \in BOOLEAN /\ holds \subseteq {"status", "monitored"}
  /\ clash \in [Sessions -> SUBSET {"status", "monitored"}]

\* Once a disconnect is through, the mailbox stays disconnected and
\* unmonitored until a request that tests it, or switches monitoring on,
\* begins; the scans that were running write their own columns only
\* (mailbox_service.py:167-171, scanner_service.py:80-85, 206-211).
DisconnectHolds ==
  live => /\ "status" \in holds => status = "disconnected"
          /\ "monitored" \in holds => ~monitored

\* The counters never exceed what was counted, and are exact as long as no
\* two scans have counted at the same time (scanner_service.py:206-211).
CountersNeverExceed ==
  /\ processed <= handled /\ threats <= threatening
  /\ ~mixed => processed = handled /\ threats = threatening

\* A mailbox connected with a refresh_token and a date is never connected to
\* with an access token past its end, unless the refresh failed or more minutes
\* than the skew have passed since the token was looked at: two sessions that
\* overwrite each other's tokens, and answers that bring no new refresh_token,
\* do not lose the one there was (mailbox_service.py:25-27, 114-143).  Later
\* than that, a scan that reconnects may well do so (imap_provider.py:70-78).
ConnectsWithLiveToken ==
  \A s \in Sessions :
    pc[s] \in {"connect", "fetch"} /\ refreshable /\ waited[s] <= Skew => held[s].left > 0 \/ failed[s]
=============================================================================
