------------------------- MODULE ImapProviderProofs -------------------------
(***************************************************************************)
(* Theorems about ImapProvider, for any mailbox, limit and watermark, and  *)
(* any list of moves and deletes a policy may ask for.                     *)
(***************************************************************************)
EXTENDS ImapProvider, WellFoundedInduction, TLAPS

-----------------------------------------------------------------------------
\* What a scan has fetched and has still to fetch is together what its one
\* listing answered, in ascending order.
Fetched == {fetched[i] : i \in DOMAIN fetched}

FetchInv ==
  /\ Fetched \cup todo = Wanted(uids)
  /\ \A i, j \in DOMAIN fetched : i < j => fetched[i] < fetched[j]
  /\ \A i \in DOMAIN fetched : \A u \in todo : fetched[i] < u
  /\ at \in {"connect", "folders", "list_select", "search", "list_again"} => fetched = <<>> /\ todo = {}
  /\ at \in {"fetch_select", "fetch", "fetch_again"} => todo # {}
  /\ at \in {"disconnect", "done"} => todo = {}

\* A reconnection was paid for by a lost command; and messages are only missed
\* when another client removed them.
TroubleInv ==
  user = "scan" =>
    /\ at # "folders"
    /\ uids \subseteq inbox \cup gone
    /\ at \in {"list_again", "fetch_again"} => attempt = 1 /\ trouble.lost >= 1
    /\ attempt = 2 => trouble.lost >= 1
    /\ SingleLossIsSurvived

\* The message that a policy acts on: it is only flagged, and so expunged, once
\* a copy of it is in the destination, or for a delete.
DeleteBegun == \E i \in DOMAIN ops : ops[i] = "delete" /\ i <= Len(results) + 1

PolicyInv ==
  /\ user = "policy" <=> at \in Commands \cup {"next"}
  /\ user = "policy" =>
    /\ at \in Commands => Len(results) < Len(ops)
    /\ at \in {"MOVE", "COPY"} => Op = "move"
    /\ at = "EXPUNGE_refused" => Op = "delete"
    /\ Message \notin gone =>
         /\ Message \in inbox \cup moved \/ DeleteBegun
         /\ Message \in flagged => Message \in moved \/ DeleteBegun
         /\ at \in {"STORE", "EXPUNGE"} => Message \in moved \/ DeleteBegun
         /\ results = <<>> /\ ops # <<>> /\ ops[1] = "move" /\ at \in {"next", "select", "MOVE", "COPY"} =>
              Message \notin moved
         /\ MovedAsTold
-----------------------------------------------------------------------------
\* Where answers lead, and what commands do, case by case.
LEMMA AfterIs ==
  /\ After("select", "OK") = [at |-> FirstCommand, result |-> "none"]
  /\ After("select", "NO") = [at |-> "next", result |-> "raised"]
  /\ After("MOVE", "OK") = [at |-> "next", result |-> "true"]
  /\ After("MOVE", "NO") = [at |-> "COPY", result |-> "none"]
  /\ After("COPY", "OK") = [at |-> "STORE", result |-> "none"]
  /\ After("COPY", "NO") = [at |-> "next", result |-> "false"]
  /\ After("STORE", "OK") = [at |-> "EXPUNGE", result |-> "none"]
  /\ After("STORE", "NO") = [at |-> IF Op = "move" THEN "EXPUNGE" ELSE "EXPUNGE_refused", result |-> "none"]
  /\ \A answer \in {"OK", "NO"} : After("EXPUNGE", answer) = [at |-> "next", result |-> "true"]
  /\ \A answer \in {"OK", "NO"} : After("EXPUNGE_refused", answer) = [at |-> "next", result |-> "false"]
<1>1. /\ After("select", "OK") = [at |-> FirstCommand, result |-> "none"]
      /\ After("select", "NO") = [at |-> "next", result |-> "raised"]
  BY Zenon DEF After
<1>2. /\ After("MOVE", "OK") = [at |-> "next", result |-> "true"]
      /\ After("MOVE", "NO") = [at |-> "COPY", result |-> "none"]
  BY Zenon DEF After
<1>3. /\ After("COPY", "OK") = [at |-> "STORE", result |-> "none"]
      /\ After("COPY", "NO") = [at |-> "next", result |-> "false"]
  BY Zenon DEF After
<1>4. /\ After("STORE", "OK") = [at |-> "EXPUNGE", result |-> "none"]
      /\ After("STORE", "NO") = [at |-> IF Op = "move" THEN "EXPUNGE" ELSE "EXPUNGE_refused", result |-> "none"]
  BY Zenon DEF After
<1>5. \A answer \in {"OK", "NO"} : After("EXPUNGE", answer) = [at |-> "next", result |-> "true"]
  BY Zenon DEF After
<1>6. \A answer \in {"OK", "NO"} : After("EXPUNGE_refused", answer) = [at |-> "next", result |-> "false"]
  BY Zenon DEF After
<1> QED
  BY <1>1, <1>2, <1>3, <1>4, <1>5, <1>6

\* The same, as steps.
LEMMA FollowIs ==
  /\ Follow(After("select", "OK")) => at' = FirstCommand /\ results' = results
  /\ Follow(After("select", "NO")) => at' = "next" /\ results' = Append(results, "raised")
  /\ Follow(After("MOVE", "OK")) => at' = "next" /\ results' = Append(results, "true")
  /\ Follow(After("MOVE", "NO")) => at' = "COPY" /\ results' = results
  /\ Follow(After("COPY", "OK")) => at' = "STORE" /\ results' = results
  /\ Follow(After("COPY", "NO")) => at' = "next" /\ results' = Append(results, "false")
  /\ Follow(After("STORE", "OK")) => at' = "EXPUNGE" /\ results' = results
  /\ Follow(After("STORE", "NO")) =>
       at' = (IF Op = "move" THEN "EXPUNGE" ELSE "EXPUNGE_refused") /\ results' = results
  /\ \A answer \in {"OK", "NO"} :
       /\ Follow(After("EXPUNGE", answer)) => at' = "next" /\ results' = Append(results, "true")
       /\ Follow(After("EXPUNGE_refused", answer)) => at' = "next" /\ results' = Append(results, "false")
<1>1. FirstCommand # "next"
  BY DEF FirstCommand
<1> QED
  BY <1>1, AfterIs DEF Follow

LEMMA EffectIs ==
  ASSUME NEW c \in Commands, Effect(Name(c))
  PROVE  /\ c = "select" => UNCHANGED <<inbox, moved, flagged>>
         /\ c = "MOVE" => /\ inbox' = inbox \ ({Message} \cap inbox) /\ flagged' = flagged \ ({Message} \cap inbox)
                          /\ moved' = moved \cup ({Message} \cap inbox)
         /\ c = "COPY" => moved' = moved \cup ({Message} \cap inbox) /\ UNCHANGED <<inbox, flagged>>
         /\ c = "STORE" => flagged' = flagged \cup ({Message} \cap inbox) /\ UNCHANGED <<inbox, moved>>
         /\ c \in {"EXPUNGE", "EXPUNGE_refused"} => inbox' = inbox \ flagged /\ flagged' = {} /\ UNCHANGED moved
<1>1. Name(c) = IF c = "EXPUNGE_refused" THEN "EXPUNGE" ELSE c
  BY DEF Name
<1>2. CASE c = "select"
  BY <1>1, <1>2, Zenon DEF Effect
<1>3. CASE c = "MOVE"
  BY <1>1, <1>3, Zenon DEF Effect
<1>4. CASE c = "COPY"
  BY <1>1, <1>4, Zenon DEF Effect
<1>5. CASE c = "STORE"
  BY <1>1, <1>5, Zenon DEF Effect
<1>6. CASE c \in {"EXPUNGE", "EXPUNGE_refused"}
  <2>1. Name(c) = "EXPUNGE"
    BY <1>1, <1>6
  <2> QED
    BY <1>6, <2>1, Zenon DEF Effect
<1> QED
  BY <1>2, <1>3, <1>4, <1>5, <1>6 DEF Commands

\* The next UID to fetch is the least one.
LEMMA NextIsLeast ==
  ASSUME NEW S \in SUBSET Nat, S # {}
  PROVE  Min(S) \in S /\ \A u \in S : Min(S) <= u
<1>0. S \subseteq Nat
  OBVIOUS
<1>1. PICK x \in S : \A y \in S : ~ (<<y, x>> \in OpToRel(<, Nat))
  BY <1>0, WFMin, NatLessThanWellFounded, Zenon
<1>2. \A y \in S : ~ (y < x)
  BY <1>0, <1>1, Zenon DEF OpToRel
<1>3. \A y \in S : x <= y
  BY <1>0, <1>2
<1> QED
  BY <1>3 DEF Min
-----------------------------------------------------------------------------
\* Values stay in range.

Ready == {"list_select", "search", "fetch_select", "fetch", "folders"} \cup Commands
Places == {"connect", "list_again", "fetch_again", "disconnect", "done", "failed", "next"} \cup Ready

ServerOK ==
  /\ arrived \in 1 .. MaxUid
  /\ inbox \subseteq 1 .. arrived /\ moved \subseteq {Message} /\ flagged \subseteq inbox
  /\ gone \subseteq 1 .. arrived /\ gone \cap inbox = {}

ControlOK ==
  /\ user \in {"scan", "policy", "test"}
  /\ conn \in {"none", "half", "ready", "dead"}
  /\ at \in Places /\ (at \in Ready => conn = "ready")
  /\ attempt \in {1, 2}
  /\ trouble \in [lost : 0 .. 2, refused : BOOLEAN, connecting : BOOLEAN]

ScanOK == uids \subseteq Uids /\ todo \subseteq Uids /\ fetched \in Seq(Uids)

PolicyOK ==
  /\ ops \in Seq({"move", "delete"}) /\ results \in Seq({"true", "false", "raised"})
  /\ Len(results) <= Len(ops)

LEMMA TypeParts == TypeOK <=> ServerOK /\ ControlOK /\ ScanOK /\ PolicyOK
  BY DEF TypeOK, ServerOK, ControlOK, ScanOK, PolicyOK, Places, Ready

LEMMA ServerKept ==
  ASSUME ServerOK, Arrive \/ (\E u \in Uids : RemoveMessage(u)) \/ (Execute /\ UNCHANGED <<arrived, gone>>) \/ UNCHANGED server
  PROVE  ServerOK'
<1>1. CASE Arrive
  BY <1>1, ImapAssumption DEF Arrive, ServerOK, Uids
<1>2. ASSUME NEW u \in Uids, RemoveMessage(u) PROVE ServerOK'
  BY <1>2 DEF RemoveMessage, ServerOK
<1>3. CASE UNCHANGED server
  BY <1>3 DEF server, ServerOK
<1>4. CASE Execute /\ UNCHANGED <<arrived, gone>>
  <2>1. Effect(Name(at)) \/ UNCHANGED <<inbox, moved, flagged>>
    BY <1>4 DEF Execute
  <2>2. CASE UNCHANGED <<inbox, moved, flagged>>
    BY <1>4, <2>2 DEF ServerOK
  <2>3. CASE Effect(Name(at))
    <3>1. at \in Commands
      BY <1>4 DEF Execute
    <3>2. inbox' \subseteq inbox /\ moved' \subseteq {Message} /\ flagged' \subseteq inbox'
      BY <2>3, <3>1, EffectIs DEF ServerOK, Commands
    <3> QED
      BY <1>4, <3>2 DEF ServerOK
  <2> QED
    BY <2>1, <2>2, <2>3
<1> QED
  BY <1>1, <1>2, <1>3, <1>4

\* Trouble is noted, or there is none.
LEMMA TroubleKept ==
  ASSUME ControlOK
  PROVE  /\ Answered => trouble' = trouble
         /\ Lost => /\ trouble'.lost >= trouble.lost /\ trouble'.lost >= 1
                    /\ trouble.lost >= 1 => trouble'.lost = 2
                    /\ trouble'.refused = trouble.refused /\ trouble'.connecting = trouble.connecting
         /\ Refused => /\ trouble'.lost = trouble.lost /\ trouble'.refused = TRUE
                       /\ trouble'.connecting = trouble.connecting
         /\ Trouble(trouble.lost, trouble.refused, TRUE) =>
              /\ trouble'.lost = trouble.lost /\ trouble'.refused = trouble.refused /\ trouble'.connecting = TRUE
         /\ Answered \/ Lost \/ Refused \/ Trouble(trouble.lost, trouble.refused, TRUE) =>
              trouble' \in [lost : 0 .. 2, refused : BOOLEAN, connecting : BOOLEAN]
<1>1. trouble.lost \in 0 .. 2 /\ trouble.refused \in BOOLEAN /\ trouble.connecting \in BOOLEAN
      /\ trouble \in [lost : 0 .. 2, refused : BOOLEAN, connecting : BOOLEAN]
  BY DEF ControlOK
<1>2. ASSUME NEW n \in 0 .. 2, NEW r \in BOOLEAN, NEW c \in BOOLEAN, Trouble(n, r, c)
      PROVE  /\ trouble' \in [lost : 0 .. 2, refused : BOOLEAN, connecting : BOOLEAN]
             /\ trouble'.lost = n /\ trouble'.refused = r /\ trouble'.connecting = c
  BY <1>2 DEF Trouble
<1>3. (IF trouble.lost < 2 THEN trouble.lost + 1 ELSE 2) \in 0 .. 2
  BY <1>1
<1>4. ASSUME Lost
      PROVE  /\ trouble' \in [lost : 0 .. 2, refused : BOOLEAN, connecting : BOOLEAN]
             /\ trouble'.lost = IF trouble.lost < 2 THEN trouble.lost + 1 ELSE 2
             /\ trouble'.refused = trouble.refused /\ trouble'.connecting = trouble.connecting
  BY <1>1, <1>2, <1>3, <1>4 DEF Lost
<1>5. ASSUME Refused
      PROVE  /\ trouble' \in [lost : 0 .. 2, refused : BOOLEAN, connecting : BOOLEAN]
             /\ trouble'.lost = trouble.lost /\ trouble'.refused = TRUE /\ trouble'.connecting = trouble.connecting
  BY <1>1, <1>2, <1>5 DEF Refused
<1>6. ASSUME Trouble(trouble.lost, trouble.refused, TRUE)
      PROVE  /\ trouble' \in [lost : 0 .. 2, refused : BOOLEAN, connecting : BOOLEAN]
             /\ trouble'.lost = trouble.lost /\ trouble'.refused = trouble.refused /\ trouble'.connecting = TRUE
  BY <1>1, <1>2, <1>6
<1>7. Lost => /\ trouble'.lost >= trouble.lost /\ trouble'.lost >= 1
              /\ trouble.lost >= 1 => trouble'.lost = 2
  BY <1>1, <1>4
<1>8. Answered => trouble' = trouble
  BY DEF Answered
<1> QED
  BY <1>1, <1>4, <1>5, <1>6, <1>7, <1>8

\* A command leads to the next one, or back to the policy.
LEMMA Executed ==
  ASSUME Execute
  PROVE  at' \in Commands \cup {"next"} /\ (conn' = conn \/ (at' = "next" /\ conn' = "dead"))
<1> USE DEF Commands
<1>1. /\ at \in Commands
      /\ \/ Follow(After(at, "OK")) /\ UNCHANGED conn
         \/ Follow(After(at, "NO")) /\ UNCHANGED conn
         \/ at' = "next" /\ conn' = "dead"
  BY DEF Execute, Return
<1>2. After(at, "OK").at \in Commands \cup {"next"} /\ After(at, "NO").at \in Commands \cup {"next"}
  <2>1. FirstCommand \in Commands
    BY DEF FirstCommand
  <2>2. CASE at = "select"
    BY <2>1, <2>2, AfterIs
  <2>3. CASE at = "MOVE"
    BY <2>1, <2>3, AfterIs
  <2>4. CASE at = "COPY"
    BY <2>1, <2>4, AfterIs
  <2>5. CASE at = "STORE"
    BY <2>1, <2>5, AfterIs
  <2>6. CASE at = "EXPUNGE"
    BY <2>1, <2>6, AfterIs
  <2>7. CASE at = "EXPUNGE_refused"
    BY <2>1, <2>7, AfterIs
  <2> QED
    BY <1>1, <2>2, <2>3, <2>4, <2>5, <2>6, <2>7
<1> QED
  BY <1>1, <1>2 DEF Follow

LEMMA ControlKept ==
  ASSUME TypeOK, Next
  PROVE  ControlOK'
<1>0. ControlOK
  BY TypeParts
<1> USE DEF ControlOK, Places, Ready, Commands
<1>1. CASE Arrive \/ \E u \in Uids : RemoveMessage(u)
  BY <1>0, <1>1 DEF Arrive, RemoveMessage, scanVars
<1>2. CASE Connect \/ Reconnect
  BY <1>0, <1>2, TroubleKept DEF Connect, Reconnect, Login, scanVars
<1>3. CASE Select \/ Search
  BY <1>0, <1>3, TroubleKept DEF Select, Search, LoseCommand, NextFetch, scanVars
<1>4. CASE FetchMissing \/ Fetch
  BY <1>0, <1>4, TroubleKept DEF FetchMissing, Fetch, LoseCommand, NextFetch, scanVars
<1>5. CASE Disconnect \/ ListFolders
  BY <1>0, <1>5, TroubleKept DEF Disconnect, ListFolders, scanVars
<1>6. CASE BeginOperation
  BY <1>0, <1>6 DEF BeginOperation, Return, scanVars
<1>7. CASE Execute
  <2>1. at \in Commands /\ UNCHANGED <<user, attempt, trouble>>
    BY <1>7 DEF Execute, scanVars
  <2>3. at' \in Commands \cup {"next"} /\ (conn' = conn \/ (at' = "next" /\ conn' = "dead"))
    BY <1>7, Executed
  <2>4. conn = "ready"
    BY <1>0, <2>1
  <2>5. conn' \in {"none", "half", "ready", "dead"} /\ at' \in Places /\ (at' \in Ready => conn' = "ready")
    BY <2>3, <2>4
  <2> QED
    BY <1>0, <2>1, <2>5
<1> QED
  BY <1>1, <1>2, <1>3, <1>4, <1>5, <1>6, <1>7 DEF Next, Call
LEMMA ScanKept ==
  ASSUME TypeOK, Next
  PROVE  ScanOK'
<1>0. ScanOK /\ inbox \subseteq Uids
  BY TypeParts, ImapAssumption DEF ServerOK, Uids
<1>1. ASSUME Wanted(inbox) \subseteq inbox
      PROVE  Search => ScanOK'
  BY <1>0, <1>1 DEF Search, ScanOK, LoseCommand, NextFetch
<1>2. Wanted(inbox) \subseteq inbox
  BY DEF Wanted, Newest
<1>3. ASSUME Fetch PROVE ScanOK'
  <2>1. uids' = uids /\ todo' \subseteq todo
    BY <1>3 DEF Fetch
  <2>2. fetched' = fetched \/ (NextUid \in inbox /\ fetched' = Append(fetched, NextUid))
    BY <1>3 DEF Fetch
  <2>3. fetched' \in Seq(Uids)
    BY <1>0, <2>2 DEF ScanOK
  <2> QED
    BY <1>0, <2>1, <2>3 DEF ScanOK
<1>4. ASSUME ~ Search, ~ Fetch PROVE UNCHANGED <<uids, todo, fetched>>
  BY <1>4 DEF Next, Call, Arrive, RemoveMessage, Connect, Reconnect, Select, FetchMissing, Disconnect,
              ListFolders, BeginOperation, Execute, scanVars
<1> QED
  BY <1>0, <1>1, <1>2, <1>3, <1>4 DEF ScanOK

LEMMA PolicyKept ==
  ASSUME TypeOK, PolicyInv, Next
  PROVE  PolicyOK'
<1>0. PolicyOK
  BY TypeParts
<1>1. ASSUME NEW r \in {"true", "false", "raised"}, ops' = ops, Len(results) < Len(ops), results' = Append(results, r)
      PROVE  PolicyOK'
  <2>1. Append(results, r) \in Seq({"true", "false", "raised"}) /\ Len(Append(results, r)) = Len(results) + 1
    BY <1>0 DEF PolicyOK
  <2> QED
    BY <1>0, <1>1, <2>1 DEF PolicyOK
<1>2. CASE UNCHANGED <<ops, results>>
  BY <1>0, <1>2 DEF PolicyOK
<1>3. CASE BeginOperation
  BY <1>1, <1>2, <1>3 DEF BeginOperation, Return
<1>4. CASE Execute
  <2>1. at \in Commands /\ ops' = ops
    BY <1>4 DEF Execute
  <2>2. \A answer \in {"OK", "NO"} :
          After(at, answer).at = "next" => After(at, answer).result \in {"true", "false", "raised"}
    <3>1. FirstCommand # "next"
      BY DEF FirstCommand
    <3> QED
      BY <2>1, <3>1, AfterIs DEF Commands
  <2>3. UNCHANGED results \/ \E r \in {"true", "false", "raised"} : results' = Append(results, r)
    BY <1>4, <2>2 DEF Execute, Follow, Return
  <2>4. Len(results) < Len(ops)
    <3>1. user = "policy"
      BY <2>1 DEF PolicyInv
    <3> QED
      BY <2>1, <3>1 DEF PolicyInv
  <2> QED
    BY <1>1, <1>2, <2>1, <2>3, <2>4
<1>5. ASSUME ~ BeginOperation, ~ Execute PROVE UNCHANGED <<ops, results>>
  BY <1>5 DEF Next, Call, Arrive, RemoveMessage, Connect, Reconnect, Select, Search, Fetch, FetchMissing, Disconnect,
              ListFolders, policyVars
<1> QED
  BY <1>2, <1>3, <1>4, <1>5
-----------------------------------------------------------------------------
\* One listing, fetched in order.

\* A fetched message is the least of those still to fetch, and greater than
\* those before it.
LEMMA FetchedInOrder ==
  ASSUME TypeOK, FetchInv, todo # {}, fetched' = Append(fetched, NextUid), todo' = todo \ {NextUid}
  PROVE  /\ Fetched' \cup todo' = Fetched \cup todo
         /\ \A i, j \in DOMAIN fetched' : i < j => fetched'[i] < fetched'[j]
         /\ \A i \in DOMAIN fetched' : \A u \in todo' : fetched'[i] < u
<1>0. /\ fetched \in Seq(Uids) /\ todo \subseteq Uids /\ Uids \subseteq Nat
  BY TypeParts, ImapAssumption DEF ScanOK, Uids
<1>1. NextUid \in todo /\ \A u \in todo : NextUid <= u
  BY <1>0, NextIsLeast DEF NextUid
<1>2. /\ DOMAIN fetched = 1 .. Len(fetched) /\ Len(fetched) \in Nat
      /\ DOMAIN fetched' = 1 .. Len(fetched) + 1
      /\ fetched'[Len(fetched) + 1] = NextUid
      /\ \A i \in DOMAIN fetched : fetched'[i] = fetched[i] /\ fetched[i] \in Uids
  BY <1>0, <1>1
<1>3. \A i \in DOMAIN fetched' : i \in DOMAIN fetched \/ i = Len(fetched) + 1
  BY <1>2
<1>4. Fetched' = Fetched \cup {NextUid}
  BY <1>2, <1>3 DEF Fetched
<1>5. ASSUME NEW i \in DOMAIN fetched', NEW j \in DOMAIN fetched', i < j
      PROVE  fetched'[i] < fetched'[j]
  <2>1. i \in DOMAIN fetched
    BY <1>2, <1>5
  <2>2. CASE j \in DOMAIN fetched
    BY <1>2, <1>5, <2>1, <2>2 DEF FetchInv
  <2>3. CASE j = Len(fetched) + 1
    BY <1>1, <1>2, <2>1, <2>3 DEF FetchInv
  <2> QED
    BY <1>3, <2>2, <2>3
<1>6. ASSUME NEW i \in DOMAIN fetched', NEW u \in todo'
      PROVE  fetched'[i] < u
  <2>1. u \in todo /\ u # NextUid /\ NextUid <= u /\ u \in Nat /\ NextUid \in Nat
    BY <1>0, <1>1
  <2>2. CASE i \in DOMAIN fetched
    BY <1>2, <2>1, <2>2 DEF FetchInv
  <2>3. CASE i = Len(fetched) + 1
    BY <1>2, <2>1, <2>3
  <2> QED
    BY <1>3, <2>2, <2>3
<1> QED
  BY <1>1, <1>4, <1>5, <1>6

LEMMA FetchKept ==
  ASSUME TypeOK, FetchInv, Next
  PROVE  FetchInv'
<1>1. CASE Fetch
  <2>1. CASE fetched' = Append(fetched, NextUid) /\ todo' = todo \ {NextUid}
    <3>1. at = "fetch" /\ todo # {} /\ uids' = uids
      BY <1>1 DEF Fetch, FetchInv
    <3>2. /\ Fetched' \cup todo' = Fetched \cup todo
          /\ \A i, j \in DOMAIN fetched' : i < j => fetched'[i] < fetched'[j]
          /\ \A i \in DOMAIN fetched' : \A u \in todo' : fetched'[i] < u
      BY <2>1, <3>1, FetchedInOrder
    <3>3. at' = (IF todo' = {} THEN "disconnect" ELSE "fetch_select")
          \/ (UNCHANGED todo /\ at' \in {"fetch_again", "failed"}) \/ at' = "failed"
      BY <1>1 DEF Fetch, NextFetch, LoseCommand
    <3>4. todo' # todo
      <4>1. NextUid \in todo
        BY <3>1, NextIsLeast, TypeParts, ImapAssumption DEF NextUid, ScanOK, Uids
      <4> QED
        BY <2>1, <4>1
    <3> QED
      BY <3>1, <3>2, <3>3, <3>4 DEF FetchInv
  <2>2. CASE UNCHANGED <<todo, fetched>> /\ at' \in {"failed", "fetch_again"}
    BY <1>1, <2>2 DEF Fetch, FetchInv, Fetched
  <2> QED
    BY <1>1, <2>1, <2>2 DEF Fetch, LoseCommand
<1>2. CASE Search
  <2>1. fetched = <<>> /\ fetched' = fetched
    BY <1>2 DEF Search, FetchInv
  <2>2. Fetched = {} /\ Fetched' = {}
    BY <2>1 DEF Fetched
  <2>3. todo' = Wanted(uids')
    <3>1. Wanted({}) = {}
      BY DEF Wanted, Newest
    <3>2. todo = Wanted(uids)
      BY <2>2 DEF FetchInv
    <3> QED
      BY <1>2, <3>1, <3>2 DEF Search
  <2>4. /\ at' \in {"fetch_select", "fetch", "fetch_again"} => todo' # {}
        /\ at' \in {"disconnect", "done"} => todo' = {}
        /\ at' \in {"fetch_select", "disconnect", "list_again", "failed"}
        /\ at' = "list_again" => todo' = {}
    BY <1>2 DEF Search, NextFetch, LoseCommand, FetchInv
  <2>5. DOMAIN fetched' = {}
    BY <2>1
  <2> QED
    BY <2>1, <2>2, <2>3, <2>4, <2>5 DEF FetchInv
<1>3. ASSUME UNCHANGED <<uids, todo, fetched>>,
             \/ at' = at \/ at' \in Commands \cup {"next", "failed"}
             \/ /\ at' \in {"folders", "list_select", "search", "list_again"}
                /\ at \in {"connect", "list_select", "list_again"}
             \/ at' \in {"fetch_select", "fetch", "fetch_again"} /\ at \in {"fetch_select", "fetch", "fetch_again"}
             \/ at' = "done" /\ at = "disconnect"
             \/ at' = "disconnect" /\ todo = {}
      PROVE  FetchInv'
  BY <1>3 DEF FetchInv, Fetched, Commands
<1>4. CASE Arrive \/ FetchMissing \/ \E u \in Uids : RemoveMessage(u)
  BY <1>3, <1>4 DEF Arrive, FetchMissing, RemoveMessage, scanVars
<1>8. CASE BeginOperation \/ Execute
  <2>1. at' \in Commands \cup {"next"}
    BY <1>8, Executed DEF BeginOperation, Return, Commands
  <2> QED
    BY <1>3, <1>8, <2>1 DEF BeginOperation, Execute, scanVars
<1>5. CASE Connect \/ Reconnect
  BY <1>3, <1>5 DEF Connect, Reconnect, Login, scanVars
<1>6. CASE Select
  BY <1>3, <1>6 DEF Select, LoseCommand, scanVars
<1>7. CASE Disconnect
  BY <1>3, <1>7 DEF Disconnect, scanVars
<1>9. CASE ListFolders
  <2>1. todo = {}
    BY <1>9 DEF ListFolders, FetchInv
  <2> QED
    BY <1>3, <1>9, <2>1 DEF ListFolders, scanVars
<1> QED
  BY <1>1, <1>2, <1>4, <1>5, <1>6, <1>7, <1>8, <1>9 DEF Next, Call
-----------------------------------------------------------------------------
\* What a scan that failed has met.
LEMMA TroubleInvKept ==
  ASSUME TypeOK, FetchInv, TroubleInv, PolicyInv, Next
  PROVE  TroubleInv'
<1>0. ControlOK
  BY TypeParts
<1> SUFFICES ASSUME user' = "scan" PROVE TroubleInv'
  BY DEF TroubleInv
<1>1. user = "scan"
  BY DEF Next, Call, Arrive, RemoveMessage, Connect, Reconnect, Select, Search, Fetch, FetchMissing, Disconnect,
         ListFolders, BeginOperation, Execute
<1>2. at \notin Commands \cup {"next"}
  BY <1>1 DEF PolicyInv
<1>3. /\ at # "folders" /\ uids \subseteq inbox \cup gone
      /\ at \in {"list_again", "fetch_again"} => attempt = 1 /\ trouble.lost >= 1
      /\ attempt = 2 => trouble.lost >= 1
  BY <1>1 DEF TroubleInv
<1>4. CASE Arrive \/ \E u \in Uids : RemoveMessage(u)
  BY <1>3, <1>4, <1>1 DEF Arrive, RemoveMessage, TroubleInv, SingleLossIsSurvived, scanVars
<1>5. CASE Connect \/ Reconnect
  <2>1. /\ UNCHANGED <<uids, inbox, gone>>
        /\ at' \in {"list_select", "fetch_select"} \/ (at' = "failed" /\ (trouble'.refused \/ trouble'.connecting))
        /\ attempt' = attempt \/ at \in {"list_again", "fetch_again"}
        /\ trouble'.lost >= trouble.lost
    <3>1. trouble.lost >= trouble.lost
      BY <1>0 DEF ControlOK
    <3> QED
      BY <1>0, <1>1, <1>5, <3>1, TroubleKept DEF Connect, Reconnect, Login, server, scanVars
  <2>2. trouble.lost \in Int /\ trouble'.lost \in Int
    BY <1>0, ControlKept DEF ControlOK
  <2> QED
    BY <1>3, <2>1, <2>2 DEF TroubleInv, SingleLossIsSurvived
\* A command is lost: once more, and it is tried again; twice, and it is not.
<1>6. ASSUME UNCHANGED <<uids, inbox, gone, attempt>>, NEW p \in {"list_again", "fetch_again"}, LoseCommand(p)
      PROVE  TroubleInv'
  <2>1. /\ at' = (IF attempt = 1 THEN p ELSE "failed") /\ trouble'.lost >= 1
        /\ trouble.lost >= 1 => trouble'.lost = 2
    BY <1>0, <1>6, TroubleKept DEF LoseCommand
  <2>2. attempt = 1 \/ attempt = 2
    BY <1>0 DEF ControlOK
  <2> QED
    BY <1>3, <1>6, <2>1, <2>2 DEF TroubleInv, SingleLossIsSurvived
<1>7. ASSUME uids' \subseteq inbox' \cup gone', attempt' = attempt \/ attempt' = 1, trouble' = trouble,
             at' \notin {"list_again", "fetch_again", "folders", "failed"}
      PROVE  TroubleInv'
  BY <1>0, <1>3, <1>7 DEF TroubleInv, SingleLossIsSurvived, ControlOK
<1>8. ASSUME uids' \subseteq inbox' \cup gone', attempt' = attempt \/ attempt' = 1, Refused,
             at' \notin {"list_again", "fetch_again", "folders"}
      PROVE  TroubleInv'
  <2>1. trouble'.lost = trouble.lost /\ trouble'.refused
    BY <1>0, <1>8, TroubleKept
  <2> QED
    BY <1>0, <1>3, <1>8, <2>1 DEF TroubleInv, SingleLossIsSurvived, ControlOK
<1>9. CASE Select
  BY <1>3, <1>6, <1>7, <1>8, <1>9 DEF Select, server, scanVars, Answered
<1>10. CASE Search
  BY <1>3, <1>6, <1>7, <1>8, <1>10 DEF Search, server, Answered, NextFetch
<1>11. CASE Fetch
  BY <1>3, <1>6, <1>7, <1>8, <1>11 DEF Fetch, server, Answered, NextFetch
<1>12. CASE FetchMissing
  <2>1. NextUid \in uids /\ NextUid \notin inbox
    <3>1. todo # {} /\ todo \subseteq uids
      BY <1>12 DEF FetchMissing, FetchInv, Wanted, Newest
    <3> QED
      BY <1>12, <3>1, NextIsLeast, TypeParts, ImapAssumption DEF FetchMissing, NextUid, ScanOK, Uids
  <2> QED
    BY <1>3, <1>12, <2>1 DEF FetchMissing, TroubleInv, SingleLossIsSurvived, server, scanVars
<1>13. CASE Disconnect
  BY <1>3, <1>7, <1>13 DEF Disconnect, server, scanVars
<1> QED
  BY <1>2, <1>3, <1>4, <1>5, <1>9, <1>10, <1>11, <1>12, <1>13 DEF Next, Call, ListFolders, BeginOperation, Execute
-----------------------------------------------------------------------------
\* The message a policy acts on.

Alive == Message \in inbox \cup moved \/ DeleteBegun
FlagOK == Message \in flagged => Message \in moved \/ DeleteBegun

\* Whatever a command does to the folders, or does not, the message stays
\* somewhere until a delete has begun.
LEMMA FoldersKept ==
  ASSUME TypeOK, PolicyInv, Message \notin gone, at \in Commands,
         Effect(Name(at)) \/ UNCHANGED <<inbox, moved, flagged>>, UNCHANGED ops, DeleteBegun => DeleteBegun'
  PROVE  /\ Alive' /\ FlagOK' /\ moved \subseteq moved'
<1>0. Alive /\ FlagOK /\ (at \in {"STORE", "EXPUNGE"} => Message \in moved \/ DeleteBegun)
      /\ (at = "EXPUNGE_refused" => DeleteBegun)
  <2>1. user = "policy"
    BY DEF PolicyInv
  <2>2. ASSUME at = "EXPUNGE_refused" PROVE DeleteBegun
    <3>1. Op = "delete" /\ Len(results) < Len(ops)
      BY <2>1, <2>2 DEF PolicyInv
    <3>2. Len(results) + 1 \in DOMAIN ops /\ Len(results) + 1 <= Len(results) + 1
      BY <3>1, TypeParts DEF PolicyOK
    <3> QED
      BY <3>1, <3>2 DEF DeleteBegun, Op
  <2> QED
    BY <2>1, <2>2 DEF PolicyInv, Alive, FlagOK
<1>1. CASE UNCHANGED <<inbox, moved, flagged>>
  BY <1>0, <1>1 DEF Alive, FlagOK
<1>2. CASE Effect(Name(at))
  <2>1. CASE at \in {"select", "STORE", "COPY", "MOVE"}
    BY <1>0, <1>2, <2>1, EffectIs DEF Alive, FlagOK, Commands
  <2>2. CASE at \in {"EXPUNGE", "EXPUNGE_refused"}
    <3>1. Message \in moved \/ DeleteBegun
      BY <1>0, <2>2
    <3> QED
      BY <1>2, <2>2, <3>1, EffectIs DEF Alive, FlagOK, Commands
  <2> QED
    BY <2>1, <2>2 DEF Commands
<1> QED
  BY <1>1, <1>2

\* A MOVE or a COPY that was carried out has brought it to the destination.
LEMMA FoldersSettled ==
  ASSUME TypeOK, PolicyInv, user = "policy", Message \notin gone, at \in {"MOVE", "COPY"}, Effect(Name(at))
  PROVE  Message \in moved' \/ DeleteBegun
<1>1. Alive
  BY DEF PolicyInv, Alive
<1> QED
  BY <1>1, EffectIs DEF Alive, Commands

\* One more result: what is told of the first operation stays as it is.
LEMMA ResultAppended ==
  ASSUME TypeOK, NEW r \in {"true", "false", "raised"}, results' = Append(results, r), UNCHANGED ops
  PROVE  /\ results' # <<>> /\ Len(results') = Len(results) + 1
         /\ results # <<>> => results'[1] = results[1] /\ results' # <<"false">>
         /\ results = <<>> => results'[1] = r /\ (results' = <<"false">> => r = "false")
         /\ DeleteBegun => DeleteBegun'
<1>0. results \in Seq({"true", "false", "raised"}) /\ ops \in Seq({"move", "delete"})
  BY TypeParts DEF PolicyOK
<1>1. /\ Len(results') = Len(results) + 1 /\ Len(results) \in Nat
      /\ results'[Len(results) + 1] = r
      /\ \A i \in 1 .. Len(results) : results'[i] = results[i]
  BY <1>0
<1>2. Len(<<"false">>) = 1 /\ Len(<<>>) = 0 /\ <<"false">>[1] = "false"
  OBVIOUS
<1>3. results # <<>> => Len(results) >= 1
  BY <1>0
<1>4. results = <<>> => Len(results) = 0
  OBVIOUS
<1>5. results' # <<>>
  BY <1>1, <1>2
<1>6. results # <<>> => results'[1] = results[1] /\ results' # <<"false">>
  BY <1>1, <1>2, <1>3
<1>7. results = <<>> => results'[1] = r /\ (results' = <<"false">> => r = "false")
  BY <1>1, <1>2, <1>4
<1>8. DeleteBegun => DeleteBegun'
  BY <1>0, <1>1 DEF DeleteBegun
<1> QED
  BY <1>1, <1>5, <1>6, <1>7, <1>8

\* It is enough that the first operation, if it was a move, is told rightly.
LEMMA ToldRightly ==
  ASSUME TypeOK, PolicyInv, Message \notin gone, user = "policy", moved \subseteq moved',
         NEW r \in {"true", "false", "raised"}, results' = Append(results, r), UNCHANGED ops,
         results = <<>> /\ ops[1] = "move" =>
           (r = "true" => Message \in moved') /\ (r = "false" => Message \notin moved')
  PROVE  MovedAsTold'
<1>1. CASE results = <<>>
  BY <1>1, ResultAppended DEF MovedAsTold
<1>2. CASE results # <<>>
  BY <1>2, ResultAppended DEF MovedAsTold, PolicyInv
<1> QED
  BY <1>1, <1>2

\* As long as nothing has been returned, a move is the first operation.
LEMMA FirstIsMove ==
  ASSUME TypeOK, results = <<>>, ops[1] = "move"
  PROVE  Op = "move" /\ ~ DeleteBegun
<1>1. Len(results) = 0 /\ \A i \in DOMAIN ops : i \in Nat /\ i >= 1
  BY TypeParts DEF PolicyOK
<1>2. \A i \in DOMAIN ops : i <= Len(results) + 1 => i = 1
  BY <1>1
<1> QED
  BY <1>1, <1>2 DEF Op, DeleteBegun
\* The parts of PolicyInv that say where a policy is, and what it has of the
\* message.
Where ==
  /\ user = "policy" <=> at \in Commands \cup {"next"}
  /\ user = "policy" =>
       /\ at \in Commands => Len(results) < Len(ops)
       /\ at \in {"MOVE", "COPY"} => Op = "move"
       /\ at = "EXPUNGE_refused" => Op = "delete"

NotYetMoved ==
  results = <<>> /\ ops # <<>> /\ ops[1] = "move" /\ at \in {"next", "select", "MOVE", "COPY"} => Message \notin moved

Whole ==
  /\ Alive /\ FlagOK
  /\ at \in {"STORE", "EXPUNGE"} => Message \in moved \/ DeleteBegun
  /\ NotYetMoved
  /\ MovedAsTold

LEMMA PolicyParts == PolicyInv <=> Where /\ (user = "policy" /\ Message \notin gone => Whole)
  BY DEF PolicyInv, Where, Whole, Alive, FlagOK, NotYetMoved

\* An operation that returns, whatever the command did.
LEMMA Returned ==
  ASSUME TypeOK, PolicyInv, user = "policy", at \in Commands, UNCHANGED <<user, ops, gone>>,
         Effect(Name(at)) \/ UNCHANGED <<inbox, moved, flagged>>,
         at' = "next", NEW r \in {"true", "false", "raised"}, results' = Append(results, r),
         Message \notin gone /\ results = <<>> /\ ops[1] = "move" =>
           (r = "true" => Message \in moved') /\ (r = "false" => Message \notin moved')
  PROVE  PolicyInv'
<1>1. Where'
  BY DEF Where, Commands
<1>2. ASSUME Message \notin gone PROVE Whole'
  <2>1. Alive' /\ FlagOK' /\ moved \subseteq moved'
    BY <1>2, FoldersKept, ResultAppended
  <2>2. MovedAsTold'
    BY <1>2, <2>1, ToldRightly
  <2>3. results' # <<>>
    BY ResultAppended
  <2> QED
    BY <2>1, <2>2, <2>3 DEF Whole, NotYetMoved
<1>3. (PolicyInv <=> Where /\ (user = "policy" /\ Message \notin gone => Whole))'
  BY PolicyParts, PTL
<1> QED
  BY <1>1, <1>2, <1>3

\* A command that leads to another one.
LEMMA Followed ==
  ASSUME TypeOK, PolicyInv, user = "policy", at \in Commands, UNCHANGED <<user, ops, gone, results>>,
         Effect(Name(at)) \/ UNCHANGED <<inbox, moved, flagged>>,
         at' \in Commands, at' \in {"MOVE", "COPY"} => Op = "move", at' = "EXPUNGE_refused" => Op = "delete",
         at' \in {"MOVE", "COPY"} => UNCHANGED moved /\ at \in {"select", "MOVE"},
         Message \notin gone /\ at' \in {"STORE", "EXPUNGE"} => Message \in moved' \/ DeleteBegun,
         at' # "select"
  PROVE  PolicyInv'
<1>0. Op' = Op /\ (DeleteBegun' <=> DeleteBegun)
  BY DEF Op, DeleteBegun
<1>1. Where'
  BY <1>0, PolicyParts DEF Where
<1>2. ASSUME Message \notin gone PROVE Whole'
  <2>1. Alive' /\ FlagOK' /\ moved \subseteq moved'
    BY <1>0, <1>2, FoldersKept
  <2>2. MovedAsTold'
    BY <1>2, <2>1, PolicyParts DEF Whole, MovedAsTold, Commands
  <2>3. NotYetMoved'
    BY <1>2, PolicyParts DEF Whole, NotYetMoved, Commands
  <2> QED
    BY <1>0, <1>2, <2>1, <2>2, <2>3 DEF Whole
<1>3. (PolicyInv <=> Where /\ (user = "policy" /\ Message \notin gone => Whole))'
  BY PolicyParts, PTL
<1> QED
  BY <1>1, <1>2, <1>3
LEMMA PolicyInvKept ==
  ASSUME TypeOK, PolicyInv, Next
  PROVE  PolicyInv'
<1>0. ControlOK /\ PolicyOK
  BY TypeParts
<1>1. Where /\ (user = "policy" /\ Message \notin gone => Whole)
  BY PolicyParts
<1>2. (PolicyInv <=> Where /\ (user = "policy" /\ Message \notin gone => Whole))'
  BY PolicyParts, PTL
<1>3. CASE Arrive \/ \E u \in Uids : RemoveMessage(u)
  <2>1. /\ UNCHANGED <<user, at, ops, results, moved>> /\ gone \subseteq gone'
        /\ flagged' \subseteq flagged
        /\ Message \in inbox => Message \in inbox' \cup gone'
    BY <1>3 DEF Arrive, RemoveMessage, policyVars
  <2>2. Op' = Op /\ (DeleteBegun' <=> DeleteBegun)
    BY <2>1 DEF Op, DeleteBegun
  <2>3. Where'
    BY <1>1, <2>1, <2>2 DEF Where
  <2>4. ASSUME user = "policy", Message \notin gone' PROVE Whole'
    <3>1. Message \notin gone
      BY <2>1, <2>4
    <3> QED
      BY <1>1, <2>1, <2>2, <2>4, <3>1 DEF Whole, Alive, FlagOK, NotYetMoved, MovedAsTold
  <2> QED
    BY <1>2, <2>1, <2>3, <2>4
<1>4. ASSUME at \notin Commands \cup {"next"}, UNCHANGED user, at' \notin Commands \cup {"next"}
      PROVE  PolicyInv'
  <2>1. user # "policy"
    BY <1>1, <1>4 DEF Where
  <2> QED
    BY <1>2, <1>4, <2>1 DEF Where, Commands
<1>5. CASE Connect \/ Reconnect
  BY <1>4, <1>5 DEF Connect, Reconnect, Login, Commands
<1>6. CASE Select \/ Search
  BY <1>4, <1>6 DEF Select, Search, LoseCommand, NextFetch, Commands
<1>7. CASE Fetch \/ FetchMissing \/ Disconnect \/ ListFolders
  BY <1>4, <1>7 DEF Fetch, FetchMissing, Disconnect, ListFolders, LoseCommand, NextFetch, Commands
<1>8. CASE BeginOperation
  <2>1. /\ user = "policy" /\ at = "next" /\ Len(results) < Len(ops)
        /\ UNCHANGED <<user, ops, inbox, moved, flagged, gone>>
        /\ \/ at' = "select" /\ results' = results
           \/ at' = "next" /\ results' = Append(results, "raised")
    BY <1>1, <1>8 DEF BeginOperation, Return, server, Where
  <2>2. Op' = Op \/ at' = "next"
    BY <2>1 DEF Op
  <2>3. Where'
    BY <1>1, <2>1 DEF Where, Commands
  <2>4. ASSUME Message \notin gone PROVE Whole'
    <3>1. CASE results' = results /\ at' = "select"
      BY <1>1, <2>1, <2>4, <3>1 DEF Whole, Alive, FlagOK, NotYetMoved, MovedAsTold, DeleteBegun
    <3>2. CASE results' = Append(results, "raised") /\ at' = "next"
      <4>1. DeleteBegun => DeleteBegun'
        BY <2>1, <3>2, ResultAppended
      <4>2. MovedAsTold' /\ results' # <<>>
        BY <2>1, <2>4, <3>2, ToldRightly, ResultAppended
      <4> QED
        BY <1>1, <2>1, <2>4, <3>2, <4>1, <4>2 DEF Whole, Alive, FlagOK, NotYetMoved
    <3> QED
      BY <2>1, <3>1, <3>2
  <2> QED
    BY <1>2, <2>1, <2>3, <2>4
<1>9. CASE Execute
  <2>0. /\ at \in Commands /\ UNCHANGED <<user, ops, gone>>
        /\ user = "policy" /\ Len(results) < Len(ops)
        /\ \/ Effect(Name(at)) /\ Follow(After(at, "OK"))
           \/ Follow(After(at, "NO")) /\ UNCHANGED <<inbox, moved, flagged>>
           \/ /\ Effect(Name(at)) \/ UNCHANGED <<inbox, moved, flagged>>
              /\ at' = "next" /\ results' = Append(results, "raised")
    BY <1>1, <1>9 DEF Execute, Return, Where
  <2>1. Op \in {"move", "delete"} /\ (Op = "delete" => DeleteBegun)
    <3>1. Len(results) + 1 \in DOMAIN ops /\ Len(results) + 1 <= Len(results) + 1
      BY <1>0, <2>0 DEF PolicyOK
    <3> QED
      BY <1>0, <3>1 DEF PolicyOK, Op, DeleteBegun
  <2>2. CASE at' = "next" /\ results' = Append(results, "raised")
             /\ (Effect(Name(at)) \/ UNCHANGED <<inbox, moved, flagged>>)
    BY <2>0, <2>2, Returned
  \* EXPUNGE ends an operation, whatever its answer.
  <2>5. ASSUME at \in {"EXPUNGE", "EXPUNGE_refused"}, Effect(Name(at)) \/ UNCHANGED <<inbox, moved, flagged>>,
               Follow(After(at, "OK")) \/ Follow(After(at, "NO"))
        PROVE  PolicyInv'
    <3>1. moved' = moved
      BY <2>0, <2>5, EffectIs
    <3>2. results = <<>> /\ ops[1] = "move" => Op = "move" /\ ~ DeleteBegun
      BY FirstIsMove
    <3>3. CASE at = "EXPUNGE"
      <4>1. at' = "next" /\ results' = Append(results, "true")
        BY <2>5, <3>3, FollowIs
      <4>2. Message \notin gone => Message \in moved' \/ DeleteBegun
        BY <1>1, <2>0, <3>1, <3>3 DEF Whole
      <4> QED
        BY <2>0, <2>5, <3>2, <4>1, <4>2, Returned
    <3>4. CASE at = "EXPUNGE_refused"
      <4>1. at' = "next" /\ results' = Append(results, "false")
        BY <2>5, <3>4, FollowIs
      <4>2. Op = "delete"
        BY <1>1, <2>0, <3>4 DEF Where
      <4> QED
        BY <2>0, <2>5, <3>2, <4>1, <4>2, Returned
    <3> QED
      BY <2>5, <3>3, <3>4
  <2>3. CASE Effect(Name(at)) /\ Follow(After(at, "OK"))
    <3>1. CASE at = "select"
      <4>1. at' = FirstCommand /\ results' = results /\ UNCHANGED moved
        BY <2>3, <3>1, FollowIs, EffectIs DEF Commands
      <4> QED
        BY <2>0, <2>1, <2>3, <3>1, <4>1, Followed DEF FirstCommand, Commands
    <3>2. CASE at = "MOVE"
      <4>1. at' = "next" /\ results' = Append(results, "true")
        BY <2>3, <3>2, FollowIs
      <4>2. Message \notin gone => Message \in moved' \/ DeleteBegun
        BY <2>0, <2>3, <3>2, FoldersSettled
      <4>3. results = <<>> /\ ops[1] = "move" => ~ DeleteBegun
        BY FirstIsMove
      <4> QED
        BY <2>0, <2>3, <4>1, <4>2, <4>3, Returned
    <3>3. CASE at = "COPY"
      <4>1. at' = "STORE" /\ results' = results
        BY <2>3, <3>3, FollowIs
      <4>2. Message \notin gone => Message \in moved' \/ DeleteBegun
        BY <2>0, <2>3, <3>3, FoldersSettled
      <4> QED
        BY <2>0, <2>3, <4>1, <4>2, Followed DEF Commands
    <3>4. CASE at = "STORE"
      <4>1. at' = "EXPUNGE" /\ results' = results /\ UNCHANGED moved
        BY <2>3, <3>4, FollowIs, EffectIs DEF Commands
      <4>2. Message \notin gone => Message \in moved' \/ DeleteBegun
        BY <1>1, <2>0, <3>4, <4>1 DEF Whole
      <4> QED
        BY <2>0, <2>3, <4>1, <4>2, Followed DEF Commands
    <3>5. CASE at \in {"EXPUNGE", "EXPUNGE_refused"}
      BY <2>0, <2>3, <2>5, <3>5
    <3> QED
      BY <2>0, <3>1, <3>2, <3>3, <3>4, <3>5 DEF Commands
  <2>4. CASE Follow(After(at, "NO")) /\ UNCHANGED <<inbox, moved, flagged>>
    <3>1. CASE at = "select"
      <4>1. at' = "next" /\ results' = Append(results, "raised")
        BY <2>4, <3>1, FollowIs
      <4> QED
        BY <2>0, <2>4, <4>1, Returned
    <3>2. CASE at = "MOVE"
      <4>1. at' = "COPY" /\ results' = results /\ Op = "move"
        BY <1>1, <2>0, <2>4, <3>2, FollowIs DEF Where
      <4> QED
        BY <2>0, <2>4, <3>2, <4>1, Followed DEF Commands
    <3>3. CASE at = "COPY"
      <4>1. at' = "next" /\ results' = Append(results, "false")
        BY <2>4, <3>3, FollowIs
      <4>2. Message \notin gone /\ results = <<>> /\ ops[1] = "move" => Message \notin moved'
        <5>1. results = <<>> => ops # <<>>
          BY <1>0, <2>0 DEF PolicyOK
        <5> QED
          BY <1>1, <2>0, <2>4, <3>3, <5>1 DEF Whole, NotYetMoved
      <4> QED
        BY <2>0, <2>4, <4>1, <4>2, Returned
    <3>4. CASE at = "STORE"
      <4>1. /\ at' \in {"EXPUNGE", "EXPUNGE_refused"} /\ results' = results
            /\ at' = "EXPUNGE_refused" => Op = "delete"
        BY <2>1, <2>4, <3>4, FollowIs
      <4>2. Message \notin gone => Message \in moved' \/ DeleteBegun
        BY <1>1, <2>0, <2>4, <3>4 DEF Whole
      <4> QED
        BY <2>0, <2>4, <4>1, <4>2, Followed DEF Commands
    <3>5. CASE at \in {"EXPUNGE", "EXPUNGE_refused"}
      BY <2>0, <2>4, <2>5, <3>5
    <3> QED
      BY <2>0, <3>1, <3>2, <3>3, <3>4, <3>5 DEF Commands
  <2> QED
    BY <2>0, <2>2, <2>3, <2>4
<1> QED
  BY <1>3, <1>5, <1>6, <1>7, <1>8, <1>9 DEF Next, Call
-----------------------------------------------------------------------------
LEMMA ImapInvariant == Spec => [](TypeOK /\ FetchInv /\ TroubleInv /\ PolicyInv)
<1>1. Init => TypeOK /\ FetchInv /\ TroubleInv /\ PolicyInv
  <2> SUFFICES ASSUME Init PROVE TypeOK /\ FetchInv /\ TroubleInv /\ PolicyInv
    OBVIOUS
  <2>1. ServerOK
    BY ImapAssumption DEF Init, ServerOK, Uids
  <2>2. ControlOK /\ ScanOK
    BY DEF Init, ControlOK, ScanOK, Places, Ready, Commands
  <2>3. PolicyOK
    <3>1. <<>> \in Seq({"move", "delete"}) /\ <<>> \in Seq({"true", "false", "raised"}) /\ Len(<<>>) = 0
      OBVIOUS
    <3>2. ops \in Operations \/ ops = <<>>
      BY DEF Init
    <3>3. ops \in Seq({"move", "delete"}) /\ results = <<>>
      BY <3>1, <3>2, ImapAssumption DEF Init
    <3>4. Len(ops) \in Nat
      BY <3>3
    <3> QED
      BY <3>1, <3>3, <3>4 DEF PolicyOK
  <2>4. FetchInv
    BY DEF Init, FetchInv, Fetched, Wanted, Newest
  <2>5. TroubleInv
    BY DEF Init, TroubleInv, SingleLossIsSurvived
  <2>6. Where
    BY DEF Init, Where, Commands
  <2>7. user = "policy" /\ Message \notin gone => Message \in inbox
    BY ImapAssumption DEF Init
  <2>8. user = "policy" /\ Message \notin gone => Whole
    BY <2>7 DEF Init, Whole, Alive, FlagOK, NotYetMoved, MovedAsTold
  <2> QED
    BY <2>1, <2>2, <2>3, <2>4, <2>5, <2>6, <2>8, TypeParts, PolicyParts
<1>2. TypeOK /\ FetchInv /\ TroubleInv /\ PolicyInv /\ [Next]_vars => (TypeOK /\ FetchInv /\ TroubleInv /\ PolicyInv)'
  <2> SUFFICES ASSUME TypeOK, FetchInv, TroubleInv, PolicyInv, [Next]_vars
               PROVE  (TypeOK /\ FetchInv /\ TroubleInv /\ PolicyInv)'
    OBVIOUS
  <2>1. CASE UNCHANGED vars
    BY <2>1 DEF vars, TypeOK, FetchInv, Fetched, TroubleInv, SingleLossIsSurvived, PolicyInv, Op, DeleteBegun, MovedAsTold
  <2>2. CASE Next
    <3>1. ServerOK
      BY TypeParts
    <3>2. ServerOK'
      <4>1. \/ Arrive \/ (\E u \in Uids : RemoveMessage(u)) \/ (Execute /\ UNCHANGED <<arrived, gone>>)
            \/ UNCHANGED server
        BY <2>2 DEF Next, Call, Connect, Reconnect, Select, Search, Fetch, FetchMissing, Disconnect, ListFolders,
                    BeginOperation, Execute
      <4> QED
        BY <3>1, <4>1, ServerKept
    <3>3. (TypeOK <=> ServerOK /\ ControlOK /\ ScanOK /\ PolicyOK)'
      BY TypeParts, PTL
    <3> QED
      BY <2>2, <3>2, <3>3, ControlKept, ScanKept, PolicyKept, FetchKept, TroubleInvKept, PolicyInvKept
  <2> QED
    BY <2>1, <2>2
<1> QED
  BY <1>1, <1>2, PTL DEF Spec

\* Every variable stays in its range, and no command is sent on a connection
\* that is not logged in (imap_provider.py:116-119).
THEOREM TypeCorrect == Spec => []TypeOK
BY ImapInvariant, PTL

\* A scan that gets through has fetched, in order and each once, exactly what
\* its one listing wanted, whichever commands were retried.
THEOREM ScanFetchesExactly == Spec => []FetchIsExact
<1>1. FetchInv => FetchIsExact
  BY DEF FetchInv, Fetched, FetchIsExact
<1> QED
  BY <1>1, ImapInvariant, PTL

\* A scan survives one lost command wherever it is lost.
THEOREM OneLossIsSurvived == Spec => []SingleLossIsSurvived
<1>1. TroubleInv => SingleLossIsSurvived
  BY DEF TroubleInv, SingleLossIsSurvived
<1> QED
  BY <1>1, ImapInvariant, PTL

\* A message is moved or stays where it was, whatever a policy asks for, and
\* whenever the connection is lost.
THEOREM MoveIsAlwaysSafe == Spec => []MoveIsSafe
<1>1. PolicyInv => MoveIsSafe
  BY DEF PolicyInv, DeleteBegun, MoveIsSafe, Kept
<1> QED
  BY <1>1, ImapInvariant, PTL
=============================================================================
