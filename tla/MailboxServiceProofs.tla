------------------------ MODULE MailboxServiceProofs ------------------------
(***************************************************************************)
(* Theorems about MailboxService, for any number of sessions, any life of  *)
(* a token and any kind of mailbox.                                        *)
(***************************************************************************)
EXTENDS MailboxService, FiniteSetTheorems, TLAPS

Place == {"idle", "build", "refresh", "store", "connect", "fetch", "scan", "applied", "count", "commit"}
Columns == [status : Status \cup {"unknown"}, monitored : BOOLEAN,
            processed : 0 .. MaxMessages, threats : 0 .. MaxMessages]

\* What a session is while it works.
SessionsOK ==
  /\ job \in [Sessions -> Jobs \cup {"none", "policy"}]
  /\ pc \in [Sessions -> Place]
  /\ loaded \in [Sessions -> Columns]
  /\ held \in [Sessions -> Token] /\ waited \in [Sessions -> 0 .. Skew + 1] /\ failed \in [Sessions -> BOOLEAN]
  /\ clash \in [Sessions -> SUBSET {"status", "monitored"}]

\* The row, and what is counted beside it.
RowOK ==
  /\ live \in BOOLEAN /\ status \in Status /\ monitored \in BOOLEAN
  /\ processed \in 0 .. MaxMessages /\ threats \in 0 .. MaxMessages
  /\ token \in Token
  /\ handled \in 0 .. MaxMessages /\ threatening \in 0 .. handled /\ mixed \in BOOLEAN
  /\ refreshable \in BOOLEAN /\ holds \subseteq {"status", "monitored"}

LEMMA TypeSplit == TypeOK <=> RowOK /\ SessionsOK
  BY DEF TypeOK, RowOK, SessionsOK, Place, Columns

\* The counters as a scan has loaded them never exceed the truth, and there is
\* room for every message that is being counted.
Counting == {r \in Sessions : pc[r] = "count"}

CountInv ==
  /\ handled + Cardinality(Counting) <= MaxMessages
  /\ CountersNeverExceed
  /\ \A s \in Counting : loaded[s].processed <= handled /\ loaded[s].threats <= threatening
  /\ ~mixed => \A s \in Counting :
       /\ loaded[s].processed = processed /\ loaded[s].threats = threats
       /\ \A r \in Counting : r = s

LEMMA Room ==
  /\ Cardinality(Counting) \in Nat
  /\ \A s \in Counting : Cardinality(Counting \ {s}) = Cardinality(Counting) - 1
  /\ \A s \in Sessions \ Counting : Cardinality(Counting \cup {s}) = Cardinality(Counting) + 1
  /\ \A T \in SUBSET Counting : Cardinality(T) \in Nat /\ Cardinality(T) <= Cardinality(Counting)
<1>1. IsFiniteSet(Counting)
  BY FS_Subset, MailboxAssumption DEF Counting, MailboxAssumption
<1> QED
  BY <1>1, FS_CardinalityType, FS_AddElement, FS_RemoveElement, FS_Subset

-----------------------------------------------------------------------------
\* A session that ends.
LEMMA Left ==
  ASSUME SessionsOK, NEW s \in Sessions, Leave(s)
  PROVE  /\ SessionsOK'
         /\ pc'[s] = "idle" /\ job'[s] = "none"
         /\ \A r \in Sessions \ {s} :
              /\ pc'[r] = pc[r] /\ job'[r] = job[r] /\ loaded'[r] = loaded[r] /\ held'[r] = held[r]
              /\ waited'[r] = waited[r] /\ failed'[r] = failed[r] /\ clash'[r] = clash[r]
<1>1. Unloaded \in Columns /\ NoToken \in Token
  BY MailboxAssumption DEF Unloaded, Columns, NoToken, Token, Status
<1>2. 0 \in 0 .. Skew + 1
  BY MailboxAssumption
<1> QED
  BY <1>1, <1>2 DEF SessionsOK, Leave, DropToken, Place

\* What the sessions other than the one that steps keep.
Untouched(s) ==
  \A r \in Sessions \ {s} : pc'[r] = pc[r] /\ job'[r] = job[r] /\ loaded'[r] = loaded[r]

\* Steps that count nothing: no session starts counting, and those that are
\* counting keep what they have loaded.
LEMMA CountKept ==
  ASSUME TypeOK, CountInv, UNCHANGED <<processed, threats, countVars>>,
         \A r \in Sessions : pc'[r] = "count" => pc[r] = "count" /\ loaded'[r] = loaded[r]
  PROVE  CountInv'
<1>1. Counting' \subseteq Counting
  BY DEF Counting
<1>2. Cardinality(Counting') \in Nat /\ Cardinality(Counting') <= Cardinality(Counting)
  BY <1>1, Room
<1>3. handled' + Cardinality(Counting') <= MaxMessages
  BY <1>2, Room, MailboxAssumption DEF CountInv, countVars, TypeOK
<1>4. \A s \in Counting' : loaded'[s] = loaded[s]
  BY DEF Counting
<1> QED
  BY <1>1, <1>3, <1>4 DEF CountInv, CountersNeverExceed, countVars
\* A scan reads the counters to count one more message.
LEMMA CountStarts ==
  ASSUME TypeOK, CountInv, NEW s \in Sessions, ReadCounters(s)
  PROVE  TypeOK' /\ CountInv'
<1>1. RowOK /\ SessionsOK
  BY TypeSplit
<1>2. /\ pc[s] \in {"scan", "applied"} /\ pc'[s] = "count" /\ loaded'[s] = Snapshot
      /\ \A r \in Sessions \ {s} : pc'[r] = pc[r] /\ loaded'[r] = loaded[r]
      /\ UNCHANGED <<processed, threats, handled, threatening>>
      /\ handled + Cardinality(Counting) < MaxMessages
      /\ mixed' = (mixed \/ \E r \in Sessions : pc[r] = "count")
  BY <1>1 DEF ReadCounters, Goto, SessionsOK, row, Counting
<1>3. Snapshot \in Columns
  BY <1>1 DEF Snapshot, Columns, RowOK
<1>4. RowOK' /\ SessionsOK'
  BY <1>1, <1>3 DEF ReadCounters, Goto, RowOK, SessionsOK, row, tokenVars, ghosts, Place
<1>5. s \notin Counting /\ Counting' = Counting \cup {s}
  BY <1>2 DEF Counting
<1>6. handled' + Cardinality(Counting') <= MaxMessages
  BY <1>1, <1>2, <1>5, Room, MailboxAssumption DEF RowOK, Counting
<1>7. CountersNeverExceed'
  BY <1>2 DEF CountInv, CountersNeverExceed
<1>8. ASSUME NEW r \in Counting'
      PROVE  loaded'[r].processed <= handled' /\ loaded'[r].threats <= threatening'
  BY <1>2, <1>5, <1>8 DEF CountInv, CountersNeverExceed, Snapshot, Counting
<1>9. ASSUME ~ mixed', NEW r \in Counting'
      PROVE  /\ loaded'[r].processed = processed' /\ loaded'[r].threats = threats'
             /\ \A q \in Counting' : q = r
  <2>1. Counting = {}
    BY <1>1, <1>2, <1>9 DEF Counting, RowOK
  <2>2. r = s /\ Counting' = {s}
    BY <1>5, <2>1
  <2> QED
    BY <1>2, <2>2 DEF Snapshot
<1> QED
  BY <1>4, <1>6, <1>7, <1>8, <1>9, TypeSplit DEF CountInv, TypeOK, RowOK, SessionsOK, Place, Columns

\* A scan counts a message.
LEMMA CountEnds ==
  ASSUME TypeOK, CountInv, NEW s \in Sessions, SaveCounters(s)
  PROVE  TypeOK' /\ CountInv'
<1>1. RowOK /\ SessionsOK
  BY TypeSplit
<1>2. PICK isThreat \in BOOLEAN : Count(s, isThreat)
  BY DEF SaveCounters
<1>3. /\ pc[s] = "count" /\ pc'[s] = "scan"
      /\ \A r \in Sessions \ {s} : pc'[r] = pc[r] /\ loaded'[r] = loaded[r]
      /\ handled' = handled + 1 /\ UNCHANGED mixed
      /\ threatening' = threatening + (IF isThreat THEN 1 ELSE 0)
      /\ processed' = loaded[s].processed + 1
      /\ threats' = IF isThreat THEN loaded[s].threats + 1 ELSE threats
  BY <1>1, <1>2 DEF SaveCounters, Count, Goto, SessionsOK
<1>4. s \in Counting /\ Counting' = Counting \ {s}
  BY <1>3 DEF Counting
<1>5. loaded[s].processed \in Nat /\ loaded[s].threats \in Nat
      /\ loaded[s].processed <= handled /\ loaded[s].threats <= threatening
  BY <1>1, <1>4, MailboxAssumption DEF CountInv, SessionsOK, Columns
<1>6. /\ Cardinality(Counting) \in Nat /\ Cardinality(Counting) >= 1
      /\ Cardinality(Counting') = Cardinality(Counting) - 1
  <2>1. Cardinality(Counting \ {s}) \in Nat
    BY Room
  <2> QED
    BY <1>4, <2>1, Room
<1>7. /\ handled \in Nat /\ threatening \in Nat /\ threatening <= handled
      /\ threats \in Nat /\ processed \in Nat /\ threats <= threatening
  BY <1>1, MailboxAssumption DEF RowOK, CountInv, CountersNeverExceed
<1>8. /\ handled' \in 0 .. MaxMessages /\ threatening' \in 0 .. handled'
      /\ processed' \in 0 .. MaxMessages /\ threats' \in 0 .. MaxMessages
      /\ handled' + Cardinality(Counting') <= MaxMessages
      /\ processed' <= handled' /\ threats' <= threatening'
  BY <1>3, <1>5, <1>6, <1>7, MailboxAssumption DEF CountInv
<1>9. Unloaded \in Columns
  BY MailboxAssumption DEF Unloaded, Columns, Status
<1>10. RowOK' /\ SessionsOK'
  BY <1>1, <1>2, <1>8, <1>9 DEF SaveCounters, Count, Goto, RowOK, SessionsOK, tokenVars, ghosts, Place
<1>11. ASSUME ~ mixed
       PROVE  Counting' = {} /\ processed' = handled' /\ threats' = threatening'
  <2>1. \A r \in Counting : r = s
    BY <1>4, <1>11 DEF CountInv
  <2>2. loaded[s].processed = handled /\ loaded[s].threats = threatening /\ threats = threatening
    BY <1>4, <1>11 DEF CountInv, CountersNeverExceed
  <2>3. threats' = threatening'
    BY <1>2, <1>3, <1>7, <2>2
  <2> QED
    BY <1>3, <1>4, <2>1, <2>2, <2>3
<1>12. ASSUME NEW r \in Counting'
       PROVE  loaded'[r].processed <= handled' /\ loaded'[r].threats <= threatening'
  <2>1. r \in Counting /\ r # s /\ loaded'[r] = loaded[r]
    BY <1>3, <1>4, <1>12 DEF Counting
  <2>2. loaded[r].processed <= handled /\ loaded[r].threats <= threatening
        /\ loaded[r].processed \in Nat /\ loaded[r].threats \in Nat
    BY <1>1, <2>1, MailboxAssumption DEF CountInv, SessionsOK, Columns, Counting
  <2> QED
    BY <1>3, <1>7, <2>1, <2>2
<1> QED
  BY <1>3, <1>8, <1>10, <1>11, <1>12, TypeSplit
  DEF CountInv, CountersNeverExceed, TypeOK, RowOK, SessionsOK, Place, Columns
\* Whatever step is taken, values stay in range and counters below the truth.
LEMMA StepTypes ==
  ASSUME TypeOK, CountInv, [Next]_vars
  PROVE  TypeOK' /\ CountInv'
<1>0. RowOK /\ SessionsOK /\ Unloaded \in Columns
  BY TypeSplit, MailboxAssumption DEF Unloaded, Columns, Status
<1> USE DEF row, tokenVars, countVars, ghosts, Goto
<1>1. SUFFICES ASSUME ~ \E s \in Sessions : ReadCounters(s) \/ SaveCounters(s)
               PROVE  /\ RowOK' /\ SessionsOK' /\ UNCHANGED <<processed, threats, countVars>>
                      /\ \A r \in Sessions : pc'[r] = "count" => pc[r] = "count" /\ loaded'[r] = loaded[r]
  BY CountStarts, CountEnds, CountKept DEF TypeOK, RowOK, SessionsOK, Place, Columns
<1>2. CASE UNCHANGED vars
  BY <1>0, <1>2 DEF vars, RowOK, SessionsOK
<1>3. CASE Minute
  <2>1. \A t \in Token : Aged(t) \in Token
    BY MailboxAssumption DEF Aged, Token
  <2>2. \A s \in Sessions : waited[s] \in 0 .. Skew + 1
    BY <1>0 DEF SessionsOK
  <2>3. token' \in Token /\ held' \in [Sessions -> Token] /\ waited' \in [Sessions -> 0 .. Skew + 1]
    BY <1>0, <1>3, <2>1, <2>2, MailboxAssumption DEF Minute, RowOK, SessionsOK
  <2> QED
    BY <1>0, <1>3, <2>3 DEF Minute, RowOK, SessionsOK
<1>4. ASSUME NEW s \in Sessions, NEW j \in Jobs, Start(s, j)
      PROVE  /\ RowOK' /\ SessionsOK' /\ UNCHANGED <<processed, threats, countVars>>
             /\ \A r \in Sessions : pc'[r] = "count" => pc[r] = "count" /\ loaded'[r] = loaded[r]
  <2>1. Flags \in Columns
    BY <1>0, MailboxAssumption DEF Flags, Columns, RowOK
  <2>2. \A i : Touches(i) \subseteq {"status", "monitored"}
    BY DEF Touches
  <2>3. clash' \in [Sessions -> SUBSET {"status", "monitored"}]
    <3> SUFFICES ASSUME NEW r \in Sessions PROVE clash'[r] \subseteq {"status", "monitored"}
      BY <1>4 DEF Start
    <3>1. clash[r] \subseteq {"status", "monitored"}
      BY <1>0 DEF SessionsOK
    <3> QED
      BY <1>4, <2>2, <3>1 DEF Start
  <2>4. RowOK'
    BY <1>0, <1>4 DEF Start, RowOK
  <2>5. /\ loaded' \in [Sessions -> Columns] /\ job' \in [Sessions -> Jobs \cup {"none", "policy"}]
        /\ pc' \in [Sessions -> Place]
    BY <1>0, <1>4, <2>1 DEF Start, SessionsOK, Place
  <2> QED
    BY <1>0, <1>4, <2>3, <2>4, <2>5 DEF Start, SessionsOK
<1>5. ASSUME NEW s \in Sessions, BuildProvider(s) \/ TokenRefreshed(s) \/ RefreshFailed(s) \/ StoreToken(s)
      PROVE  /\ RowOK' /\ SessionsOK' /\ UNCHANGED <<processed, threats, countVars>>
             /\ \A r \in Sessions : pc'[r] = "count" => pc[r] = "count" /\ loaded'[r] = loaded[r]
  <2>1. [left |-> Life, dated |-> TRUE, refresh |-> TRUE] \in Token /\ 0 \in 0 .. Skew + 1
    BY MailboxAssumption DEF Token
  <2>2. CASE BuildProvider(s)
    BY <1>0, <2>1, <2>2 DEF BuildProvider, RowOK, SessionsOK, Place
  <2>3. CASE TokenRefreshed(s)
    BY <1>0, <2>1, <2>3 DEF TokenRefreshed, RowOK, SessionsOK, Place
  <2>4. CASE RefreshFailed(s)
    BY <1>0, <2>4 DEF RefreshFailed, RowOK, SessionsOK, Place
  <2>5. CASE StoreToken(s)
    BY <1>0, <2>5 DEF StoreToken, RowOK, SessionsOK, Place
  <2> QED
    BY <1>5, <2>2, <2>3, <2>4, <2>5
<1>6. ASSUME NEW s \in Sessions, Leave(s), RowOK', UNCHANGED <<processed, threats, countVars>>
      PROVE  /\ RowOK' /\ SessionsOK' /\ UNCHANGED <<processed, threats, countVars>>
             /\ \A r \in Sessions : pc'[r] = "count" => pc[r] = "count" /\ loaded'[r] = loaded[r]
  BY <1>0, <1>6, Left
<1>7. ASSUME NEW s \in Sessions, RowGone(s) \/ TestRaises(s) \/ EndScan(s) \/ Delete(s)
      PROVE  /\ RowOK' /\ SessionsOK' /\ UNCHANGED <<processed, threats, countVars>>
             /\ \A r \in Sessions : pc'[r] = "count" => pc[r] = "count" /\ loaded'[r] = loaded[r]
  BY <1>0, <1>6, <1>7 DEF RowGone, TestRaises, EndScan, Delete, RowOK
<1>8. ASSUME NEW s \in Sessions, ConnectScan(s) \/ Fetch(s) \/ BeginPolicy(s) \/ EndPolicy(s)
      PROVE  /\ RowOK' /\ SessionsOK' /\ UNCHANGED <<processed, threats, countVars>>
             /\ \A r \in Sessions : pc'[r] = "count" => pc[r] = "count" /\ loaded'[r] = loaded[r]
  <2>1. RowOK' /\ UNCHANGED <<processed, threats, countVars>>
    BY <1>0, <1>8 DEF ConnectScan, Fetch, BeginPolicy, EndPolicy, RowOK
  <2>2. CASE Leave(s)
    BY <1>6, <2>1, <2>2
  <2>3. CASE ~ Leave(s) /\ ConnectScan(s)
    BY <1>0, <2>1, <2>3 DEF ConnectScan, SessionsOK, Place
  <2>4. NoToken \in Token /\ 0 \in 0 .. Skew + 1
    BY MailboxAssumption DEF NoToken, Token
  <2>5. CASE ~ Leave(s) /\ Fetch(s)
    <3>1. /\ pc' = [pc EXCEPT ![s] = "scan"] /\ DropToken(s) /\ UNCHANGED <<job, loaded, clash>>
      BY <2>5 DEF Fetch
    <3>2. pc[s] = "fetch" /\ pc' \in [Sessions -> Place]
      BY <1>0, <1>8, <2>5, <3>1 DEF Fetch, SessionsOK, Place
    <3>3. SessionsOK'
      BY <1>0, <2>4, <3>1, <3>2 DEF DropToken, SessionsOK
    <3>4. \A r \in Sessions : pc'[r] = "count" => pc[r] = "count" /\ loaded'[r] = loaded[r]
      BY <1>0, <3>1 DEF SessionsOK
    <3> QED
      BY <2>1, <3>3, <3>4
  <2>6. CASE BeginPolicy(s)
    BY <1>0, <2>1, <2>6 DEF BeginPolicy, SessionsOK, Place
  <2>7. CASE EndPolicy(s)
    <3>1. "scan" \in Jobs
      BY DEF Jobs
    <3> QED
      BY <1>0, <2>1, <2>4, <2>7, <3>1 DEF EndPolicy, DropToken, SessionsOK, Place
  <2> QED
    BY <1>8, <2>2, <2>3, <2>5, <2>6, <2>7
<1>9. ASSUME NEW s \in Sessions, ConnectTest(s) \/ SetMonitoring(s) \/ Disconnect(s)
      PROVE  /\ RowOK' /\ SessionsOK' /\ UNCHANGED <<processed, threats, countVars>>
             /\ \A r \in Sessions : pc'[r] = "count" => pc[r] = "count" /\ loaded'[r] = loaded[r]
  <2>1. Leave(s) /\ UNCHANGED <<processed, threats, countVars>>
    BY <1>9 DEF ConnectTest, SetMonitoring, Disconnect
  <2>2. status' \in Status /\ monitored' \in BOOLEAN /\ holds' \subseteq {"status", "monitored"}
    BY <1>0, <1>9 DEF ConnectTest, SetMonitoring, Disconnect, Written, RowOK, Status
  <2>3. UNCHANGED <<live, token, refreshable>>
    BY <1>9 DEF ConnectTest, SetMonitoring, Disconnect
  <2>4. RowOK'
    BY <1>0, <2>1, <2>2, <2>3 DEF RowOK
  <2> QED
    BY <1>6, <2>1, <2>4
<1> QED
  BY <1>1, <1>2, <1>3, <1>4, <1>5, <1>7, <1>8, <1>9 DEF Next, Scan
LEMMA CountInvariant == Spec => [](TypeOK /\ CountInv)
<1>1. Init => TypeOK /\ CountInv
  <2> SUFFICES ASSUME Init PROVE TypeOK /\ CountInv
    OBVIOUS
  <2>1. Unloaded \in Columns /\ NoToken \in Token /\ 0 \in 0 .. Skew + 1 /\ 0 \in 0 .. MaxMessages
    BY MailboxAssumption DEF Unloaded, Columns, NoToken, Token, Status
  <2>2. token \in Token
    <3>1. [left : {Life}, dated : BOOLEAN, refresh : BOOLEAN] \subseteq Token
      BY MailboxAssumption DEF Token
    <3>2. token \in [left : {Life}, dated : BOOLEAN, refresh : BOOLEAN] \/ token = NoToken
      BY DEF Init
    <3> QED
      BY <2>1, <3>1, <3>2
  <2>3. RowOK
    <3>1. token.refresh \in BOOLEAN /\ token.dated \in BOOLEAN
      BY <2>2 DEF Token
    <3>2. status \in Status
      BY DEF Init, Status
    <3>3. /\ live \in BOOLEAN /\ monitored \in BOOLEAN /\ mixed \in BOOLEAN /\ refreshable \in BOOLEAN
          /\ holds \subseteq {"status", "monitored"}
      BY <3>1 DEF Init
    <3>4. 0 \in 0 .. MaxMessages /\ 0 \in 0 .. 0
      BY MailboxAssumption
    <3>5. /\ processed \in 0 .. MaxMessages /\ threats \in 0 .. MaxMessages
          /\ handled \in 0 .. MaxMessages /\ threatening \in 0 .. handled
      BY <3>4 DEF Init
    <3> QED
      BY <2>2, <3>2, <3>3, <3>5 DEF RowOK
  <2>4. SessionsOK
    BY <2>1 DEF Init, SessionsOK, Place
  <2>5. Counting = {}
    BY DEF Init, Counting
  <2>6. Cardinality(Counting) = 0
    BY <2>5, FS_EmptySet
  <2> QED
    BY <2>3, <2>4, <2>5, <2>6, TypeSplit, MailboxAssumption DEF Init, CountInv, CountersNeverExceed
<1> QED
  BY <1>1, StepTypes, PTL DEF Spec

\* Every variable stays in its range; in particular the counters stay below
\* their bound although scans count at the same time.
THEOREM TypeCorrect == Spec => []TypeOK
BY CountInvariant, PTL

\* However scans overlap, the counters are never higher than what was counted,
\* and what one scan at a time counts is counted exactly.
THEOREM CountersAreNeverHigher == Spec => []CountersNeverExceed
<1>1. CountInv => CountersNeverExceed
  BY DEF CountInv
<1> QED
  BY <1>1, CountInvariant, PTL

-----------------------------------------------------------------------------
\* Why a disconnect holds.  What it has set is only in holds while no session
\* is under way that could set it to something else; a disconnect that has read
\* disconnected, and therefore will write nothing, finds it unchanged unless
\* such a session was beside it.
HoldInv ==
  /\ \A s \in Sessions :
       /\ job[s] \in {"enable", "disable", "disconnect", "delete"} => pc[s] = "commit"
       /\ job[s] = "none" => pc[s] = "idle"
  /\ "status" \in holds => status = "disconnected"
  /\ "monitored" \in holds => ~ monitored
  /\ \A q \in Sessions :
       /\ job[q] = "test" =>
            "status" \notin holds /\ \A s \in Sessions : job[s] = "disconnect" => "status" \in clash[s]
       /\ job[q] = "enable" =>
            "monitored" \notin holds /\ \A s \in Sessions : job[s] = "disconnect" => "monitored" \in clash[s]
       /\ job[q] = "disconnect" /\ "status" \notin clash[q] /\ loaded[q].status = "disconnected" =>
            status = "disconnected"
       /\ job[q] = "disconnect" /\ "monitored" \notin clash[q] /\ ~ loaded[q].monitored => ~ monitored

\* Why a connection is made with a live token.
TokenInv ==
  /\ refreshable => Provider = "gmail" /\ token.dated /\ token.refresh
  /\ \A s \in Sessions :
       /\ pc[s] = "store" => held[s].dated /\ held[s].refresh /\ held[s].left + waited[s] > Skew
       /\ pc[s] \in {"connect", "fetch"} /\ refreshable => failed[s] \/ held[s].left + waited[s] > Skew

\* A step of one session leaves what the others are, and have loaded, alone.
LEMMA OthersUntouched ==
  ASSUME TypeOK, NEW s \in Sessions, NEW r \in Sessions \ {s},
         \/ RowGone(s) \/ Scan(s) \/ ConnectTest(s) \/ TestRaises(s)
         \/ SetMonitoring(s) \/ Disconnect(s) \/ Delete(s)
  PROVE  /\ pc'[r] = pc[r] /\ job'[r] = job[r] /\ loaded'[r] = loaded[r] /\ held'[r] = held[r]
         /\ waited'[r] = waited[r] /\ failed'[r] = failed[r] /\ clash'[r] = clash[r]
<1>0. SessionsOK
  BY TypeSplit
<1> USE DEF row, tokenVars, countVars, ghosts, Goto
<1>1. CASE Leave(s)
  BY <1>0, <1>1, Left
<1>2. CASE BuildProvider(s) \/ TokenRefreshed(s) \/ RefreshFailed(s) \/ StoreToken(s) \/ ReadCounters(s) \/ SaveCounters(s)
  BY <1>0, <1>2 DEF BuildProvider, TokenRefreshed, RefreshFailed, StoreToken, ReadCounters, SaveCounters, Count, SessionsOK
<1>3. CASE ConnectScan(s) /\ ~ Leave(s)
  BY <1>0, <1>3 DEF ConnectScan, SessionsOK
<1>4. CASE Fetch(s) /\ ~ Leave(s)
  <2>1. pc' = [pc EXCEPT ![s] = "scan"] /\ DropToken(s) /\ UNCHANGED <<job, loaded, clash>>
    BY <1>4 DEF Fetch
  <2> QED
    BY <1>0, <2>1 DEF DropToken, SessionsOK
<1>5. CASE BeginPolicy(s) \/ EndPolicy(s)
  BY <1>0, <1>5 DEF BeginPolicy, EndPolicy, DropToken, SessionsOK
<1> QED
  BY <1>1, <1>2, <1>3, <1>4, <1>5
  DEF RowGone, Scan, ConnectScan, EndScan, ConnectTest, TestRaises, SetMonitoring, Disconnect, Delete

LEMMA TouchesAre == Touches("test") = {"status"} /\ Touches("enable") = {"monitored"}
BY DEF Touches

\* A request or a scan that starts takes from holds what it may set, and tells
\* every disconnect that is under way; a disconnect that starts is told of what
\* is under way.
LEMMA HoldStarts ==
  ASSUME TypeOK, HoldInv, NEW s \in Sessions, NEW j \in Jobs, Start(s, j)
  PROVE  HoldInv'
<1>0. SessionsOK
  BY TypeSplit
<1>1. /\ job[s] = "none" /\ job'[s] = j
      /\ pc'[s] = IF j \in {"scan", "test"} THEN "build" ELSE "commit"
      /\ \A r \in Sessions \ {s} : job'[r] = job[r] /\ pc'[r] = pc[r] /\ loaded'[r] = loaded[r]
      /\ holds' = holds \ Touches(j) /\ UNCHANGED <<status, monitored>>
  BY <1>0 DEF Start, Goto, SessionsOK, row
<1>2. j = "disconnect" => loaded'[s].status = status /\ loaded'[s].monitored = monitored
  BY <1>0 DEF Start, SessionsOK, Flags
<1>3. j = "disconnect" => \A q \in Sessions : Touches(job[q]) \subseteq clash'[s]
  BY <1>0 DEF Start, SessionsOK
<1>4. \A r \in Sessions \ {s} :
        clash'[r] = IF job[r] = "disconnect" THEN clash[r] \cup Touches(j) ELSE clash[r]
  BY <1>0 DEF Start, SessionsOK
<1>5. \A q \in Sessions : /\ job[q] = "test" => {"status"} = Touches(job[q])
                          /\ job[q] = "enable" => {"monitored"} = Touches(job[q])
  BY TouchesAre
<1>6. \A q \in Sessions :
        /\ job'[q] = "test" =>
             "status" \notin holds' /\ \A r \in Sessions : job'[r] = "disconnect" => "status" \in clash'[r]
        /\ job'[q] = "enable" =>
             "monitored" \notin holds' /\ \A r \in Sessions : job'[r] = "disconnect" => "monitored" \in clash'[r]
  <2> SUFFICES ASSUME NEW q \in Sessions
      PROVE  /\ job'[q] = "test" =>
                  "status" \notin holds' /\ \A r \in Sessions : job'[r] = "disconnect" => "status" \in clash'[r]
             /\ job'[q] = "enable" =>
                  "monitored" \notin holds' /\ \A r \in Sessions : job'[r] = "disconnect" => "monitored" \in clash'[r]
    OBVIOUS
  <2>1. CASE q = s
    BY <1>1, <1>4, <2>1, TouchesAre
  <2>2. CASE q # s
    <3>1. job'[q] = job[q] /\ holds' \subseteq holds
      BY <1>1, <2>2
    <3>2. /\ job[q] = "test" => "status" \notin holds /\ Touches(job[q]) = {"status"}
          /\ job[q] = "enable" => "monitored" \notin holds /\ Touches(job[q]) = {"monitored"}
      BY <1>5 DEF HoldInv
    <3>3. ASSUME NEW r \in Sessions, job'[r] = "disconnect"
          PROVE  /\ job[q] = "test" => "status" \in clash'[r]
                 /\ job[q] = "enable" => "monitored" \in clash'[r]
      <4>1. CASE r = s
        BY <1>1, <1>3, <3>2, <3>3, <4>1
      <4>2. CASE r # s
        <5>1. job[r] = "disconnect" /\ clash[r] \subseteq clash'[r]
          BY <1>1, <1>4, <3>3, <4>2
        <5> QED
          BY <5>1 DEF HoldInv
      <4> QED
        BY <4>1, <4>2
    <3> QED
      BY <3>1, <3>2, <3>3
  <2> QED
    BY <2>1, <2>2
<1>7. ASSUME NEW q \in Sessions, job'[q] = "disconnect"
      PROVE  /\ "status" \notin clash'[q] /\ loaded'[q].status = "disconnected" => status' = "disconnected"
             /\ "monitored" \notin clash'[q] /\ ~ loaded'[q].monitored => ~ monitored'
  BY <1>1, <1>2, <1>4, <1>7 DEF HoldInv
<1>8. \A q \in Sessions :
        /\ job'[q] \in {"enable", "disable", "disconnect", "delete"} => pc'[q] = "commit"
        /\ job'[q] = "none" => pc'[q] = "idle"
  <2>1. j # "none"
    BY DEF Jobs
  <2> QED
    BY <1>1, <2>1 DEF HoldInv
<1>9. ("status" \in holds' => status' = "disconnected") /\ ("monitored" \in holds' => ~ monitored')
  BY <1>1 DEF HoldInv
<1> QED
  BY <1>6, <1>7, <1>8, <1>9 DEF HoldInv

\* Nothing but a test, a request that sets the monitoring and a disconnect
\* writes the columns that a disconnect sets.
LEMMA HoldKept ==
  ASSUME TypeOK, HoldInv, NEW s \in Sessions,
         RowGone(s) \/ Scan(s) \/ TestRaises(s) \/ Delete(s)
  PROVE  HoldInv'
<1>0. SessionsOK
  BY TypeSplit
<1> USE DEF row, tokenVars, countVars, ghosts, Goto
<1>1. UNCHANGED <<status, monitored, holds>>
  BY DEF RowGone, Scan, TestRaises, Delete, BuildProvider, TokenRefreshed, RefreshFailed, StoreToken, ConnectScan,
         Fetch, BeginPolicy, EndPolicy, ReadCounters, SaveCounters, Count, EndScan
<1>2. \A r \in Sessions \ {s} : /\ pc'[r] = pc[r] /\ job'[r] = job[r]
                               /\ loaded'[r] = loaded[r] /\ clash'[r] = clash[r]
  BY OthersUntouched
<1>3. \/ pc'[s] = "idle" /\ job'[s] = "none"
      \/ job'[s] \in {"scan", "policy"}
      \/ job'[s] = job[s] /\ job[s] \in {"scan", "test", "policy"}
  <2>1. CASE Leave(s)
    BY <1>0, <2>1, Left
  <2>2. CASE BeginPolicy(s) \/ EndPolicy(s)
    BY <1>0, <2>2 DEF BeginPolicy, EndPolicy, SessionsOK
  <2>3. CASE ~ Leave(s) /\ ~ BeginPolicy(s) /\ ~ EndPolicy(s)
    <3>1. job' = job /\ pc[s] # "commit" /\ pc[s] # "idle"
      BY <2>3 DEF RowGone, Scan, TestRaises, Delete, BuildProvider, TokenRefreshed, RefreshFailed, StoreToken,
                  ConnectScan, Fetch, ReadCounters, SaveCounters, Count, EndScan
    <3> QED
      BY <1>0, <3>1 DEF HoldInv, SessionsOK, Jobs
  <2> QED
    BY <2>1, <2>2, <2>3
<1> QED
  BY <1>1, <1>2, <1>3 DEF HoldInv

LEMMA HoldCommitted ==
  ASSUME TypeOK, HoldInv, NEW s \in Sessions, ConnectTest(s) \/ SetMonitoring(s) \/ Disconnect(s)
  PROVE  HoldInv'
<1>0. SessionsOK /\ monitored \in BOOLEAN /\ \A r \in Sessions : loaded[r].monitored \in BOOLEAN
  BY TypeSplit DEF RowOK, SessionsOK, Columns
<1>1. pc'[s] = "idle" /\ job'[s] = "none"
  BY <1>0, Left DEF ConnectTest, SetMonitoring, Disconnect
<1>2. \A r \in Sessions \ {s} : /\ pc'[r] = pc[r] /\ job'[r] = job[r]
                               /\ loaded'[r] = loaded[r] /\ clash'[r] = clash[r]
  BY OthersUntouched
<1>3. CASE ConnectTest(s)
  <2>1. job[s] = "test" /\ UNCHANGED <<monitored, holds>>
    BY <1>3 DEF ConnectTest
  <2> QED
    BY <1>1, <1>2, <2>1 DEF HoldInv
<1>4. CASE SetMonitoring(s)
  <2>1. UNCHANGED <<status, holds>> /\ job[s] \in {"enable", "disable"}
        /\ (job[s] = "disable" => ~ monitored' \/ monitored' = monitored)
    BY <1>4 DEF SetMonitoring, Written
  <2> QED
    BY <1>0, <1>1, <1>2, <2>1 DEF HoldInv
<1>5. CASE Disconnect(s)
  <2>1. /\ job[s] = "disconnect"
        /\ holds' = (holds \cup {"status", "monitored"}) \ clash[s]
        /\ status' = "disconnected" \/ (status' = status /\ loaded[s].status = "disconnected")
        /\ ~ monitored' \/ (monitored' = monitored /\ ~ loaded[s].monitored)
    BY <1>0, <1>5 DEF Disconnect, Written
  <2>2. "status" \in holds' => status' = "disconnected"
    BY <2>1 DEF HoldInv
  <2>3. "monitored" \in holds' => ~ monitored'
    BY <2>1 DEF HoldInv
  <2>4. \A q \in Sessions : /\ job'[q] = "test" => "status" \notin holds'
                            /\ job'[q] = "enable" => "monitored" \notin holds'
    BY <1>1, <1>2, <2>1 DEF HoldInv
  <2>5. (status = "disconnected" => status' = "disconnected") /\ (~ monitored => ~ monitored')
    BY <2>1
  <2> QED
    BY <1>1, <1>2, <2>2, <2>3, <2>4, <2>5 DEF HoldInv
<1> QED
  BY <1>3, <1>4, <1>5

LEMMA HoldInvariant == Spec => []HoldInv
<1>1. Init => HoldInv
  BY DEF Init, HoldInv
<1>2. TypeOK /\ HoldInv /\ [Next]_vars => HoldInv'
  <2> SUFFICES ASSUME TypeOK, HoldInv, [Next]_vars PROVE HoldInv'
    OBVIOUS
  <2>1. CASE Minute \/ UNCHANGED vars
    BY <2>1 DEF Minute, vars, HoldInv, ghosts
  <2> QED
    BY <2>1, HoldStarts, HoldKept, HoldCommitted DEF Next
<1> QED
  BY <1>1, <1>2, TypeCorrect, PTL DEF Spec

\* Once a disconnect is through, no scan and no other disconnect undoes it, and
\* only a request that begins later, or was beside it, can.
THEOREM DisconnectAlwaysHolds == Spec => []DisconnectHolds
<1>1. HoldInv => DisconnectHolds
  BY DEF HoldInv, DisconnectHolds
<1> QED
  BY <1>1, HoldInvariant, PTL

-----------------------------------------------------------------------------
\* The same for what a token needs: what a session connects with, and the
\* minutes it has had it, make up more than the skew.
LEMMA TokenKept ==
  ASSUME TypeOK, TokenInv, NEW s \in Sessions,
         \/ RowGone(s) \/ Scan(s) \/ ConnectTest(s) \/ TestRaises(s)
         \/ SetMonitoring(s) \/ Disconnect(s) \/ Delete(s)
  PROVE  TokenInv'
<1>0. SessionsOK /\ RowOK
  BY TypeSplit
<1> USE DEF row, tokenVars, countVars, ghosts, Goto
<1>1. \A r \in Sessions \ {s} :
        pc'[r] = pc[r] /\ held'[r] = held[r] /\ waited'[r] = waited[r] /\ failed'[r] = failed[r]
  BY OthersUntouched
<1>2. UNCHANGED refreshable
  BY DEF RowGone, Scan, BuildProvider, TokenRefreshed, RefreshFailed, StoreToken, ConnectScan, Fetch,
         BeginPolicy, EndPolicy, ReadCounters, SaveCounters, Count, EndScan, ConnectTest, TestRaises, SetMonitoring, Disconnect, Delete
<1>3. CASE StoreToken(s)
  <2>1. /\ pc[s] = "store" /\ pc'[s] = "connect" /\ token' = held[s]
        /\ UNCHANGED <<held, waited, failed>>
    BY <1>0, <1>3 DEF StoreToken, SessionsOK
  <2> QED
    BY <1>1, <1>2, <2>1 DEF TokenInv
<1>4. ASSUME ~ StoreToken(s) PROVE UNCHANGED token
  BY <1>4 DEF RowGone, Scan, BuildProvider, TokenRefreshed, RefreshFailed, StoreToken, ConnectScan, Fetch,
         BeginPolicy, EndPolicy, ReadCounters, SaveCounters, Count, EndScan, ConnectTest, TestRaises, SetMonitoring, Disconnect, Delete
<1>5. CASE BuildProvider(s)
  <2>1. /\ held'[s] = token /\ waited'[s] = 0
        /\ pc'[s] = IF Provider = "gmail" /\ token.refresh /\ TokenIsExpired(token) THEN "refresh" ELSE "connect"
    BY <1>0, <1>5 DEF BuildProvider, SessionsOK
  <2>2. token.left \in Nat /\ UNCHANGED token
    BY <1>0, <1>5, MailboxAssumption DEF RowOK, Token, BuildProvider
  <2>3. pc'[s] = "connect" /\ refreshable => held'[s].left + waited'[s] > Skew
    BY <2>1, <2>2, MailboxAssumption DEF TokenInv, TokenIsExpired
  <2> QED
    BY <1>1, <1>2, <2>1, <2>2, <2>3 DEF TokenInv
<1>6. CASE TokenRefreshed(s)
  <2>1. held'[s].left = Life /\ held'[s].dated /\ held'[s].refresh /\ waited'[s] = 0 /\ pc'[s] = "store" /\ UNCHANGED token
    BY <1>0, <1>6 DEF TokenRefreshed, SessionsOK
  <2>2. held'[s].left + waited'[s] > Skew
    BY <2>1, MailboxAssumption
  <2> QED
    BY <1>1, <1>2, <2>1, <2>2 DEF TokenInv
<1>7. CASE RefreshFailed(s)
  <2>1. failed'[s] /\ pc'[s] = "connect" /\ UNCHANGED token
    BY <1>0, <1>7 DEF RefreshFailed, SessionsOK
  <2> QED
    BY <1>1, <1>2, <2>1 DEF TokenInv
<1>8. ASSUME pc'[s] \notin {"store", "connect", "fetch"}, ~ StoreToken(s) PROVE TokenInv'
  BY <1>1, <1>2, <1>4, <1>8 DEF TokenInv
<1>9. CASE ConnectScan(s) /\ ~ Leave(s)
  <2>1. pc[s] = "connect" /\ pc'[s] = "fetch" /\ UNCHANGED <<token, held, waited, failed>>
    BY <1>0, <1>9 DEF ConnectScan, SessionsOK
  <2> QED
    BY <1>1, <1>2, <2>1 DEF TokenInv
<1>10. CASE Leave(s) \/ Fetch(s) \/ BeginPolicy(s) \/ EndPolicy(s) \/ ReadCounters(s) \/ SaveCounters(s)
  <2>1. pc'[s] \in {"idle", "build", "scan", "applied", "count"}
    BY <1>0, <1>10, Left DEF Fetch, BeginPolicy, EndPolicy, ReadCounters, SaveCounters, Count, SessionsOK
  <2>2. ~ StoreToken(s)
    BY <1>0, <2>1 DEF StoreToken, SessionsOK
  <2> QED
    BY <1>8, <2>1, <2>2
<1> QED
  BY <1>3, <1>5, <1>6, <1>7, <1>9, <1>10
  DEF RowGone, Scan, EndScan, ConnectTest, TestRaises, SetMonitoring, Disconnect, Delete

\* A minute takes from what is left what it adds to the time waited.
LEMMA TokenAges ==
  ASSUME TypeOK, TokenInv, Minute
  PROVE  TokenInv'
<1>0. RowOK /\ SessionsOK
  BY TypeSplit
<1>1. \A t \in Token : Aged(t).refresh = t.refresh /\ Aged(t).dated = t.dated /\ Aged(t).left \in Nat
                         /\ (t.left > 0 => Aged(t).left = t.left - 1)
  BY MailboxAssumption DEF Aged, Token
<1>2. /\ token'.refresh = token.refresh /\ token'.dated = token.dated
      /\ UNCHANGED <<refreshable, pc, failed>>
  BY <1>0, <1>1 DEF Minute, RowOK, ghosts
<1>3. ASSUME NEW s \in Sessions, pc[s] \in {"store", "connect", "fetch"}, held[s].left + waited[s] > Skew
      PROVE  held'[s].left + waited'[s] > Skew
  <2>1. /\ waited[s] \in Nat /\ held[s] \in Token /\ held[s].left \in Nat
        /\ held'[s] = Aged(held[s]) /\ held'[s].left \in Nat
        /\ waited'[s] = IF waited[s] <= Skew THEN waited[s] + 1 ELSE waited[s]
    BY <1>0, <1>1, <1>3, MailboxAssumption DEF Minute, SessionsOK, Token
  <2>2. CASE waited[s] <= Skew
    <3>1. held[s].left > 0
      BY <1>3, <2>1, <2>2, MailboxAssumption
    <3>2. held'[s].left = held[s].left - 1
      BY <1>1, <2>1, <3>1
    <3> QED
      BY <1>3, <2>1, <2>2, <3>2, MailboxAssumption
  <2>3. CASE waited[s] > Skew
    BY <2>1, <2>3, MailboxAssumption
  <2> QED
    BY <2>1, <2>2, <2>3, MailboxAssumption
<1>4. \A s \in Sessions : held'[s].refresh = held[s].refresh /\ held'[s].dated = held[s].dated
  BY <1>0, <1>1 DEF Minute, SessionsOK
<1> QED
  BY <1>2, <1>3, <1>4 DEF TokenInv

LEMMA TokenInvariant == Spec => []TokenInv
<1>1. Init => TokenInv
  <2> SUFFICES ASSUME Init PROVE TokenInv
    OBVIOUS
  <2>1. refreshable = (token.dated /\ token.refresh) /\ \A s \in Sessions : pc[s] = "idle"
    BY DEF Init
  <2>2. Provider # "gmail" => ~ token.refresh
    BY DEF Init, NoToken
  <2>3. refreshable => token.dated /\ token.refresh
    BY <2>1, Zenon
  <2> QED
    BY <2>1, <2>2, <2>3 DEF TokenInv
<1>2. TypeOK /\ TokenInv /\ [Next]_vars => TokenInv'
  <2> SUFFICES ASSUME TypeOK, TokenInv, [Next]_vars PROVE TokenInv'
    OBVIOUS
  <2>1. CASE UNCHANGED vars
    BY <2>1 DEF vars, TokenInv
  <2>2. ASSUME NEW s \in Sessions, NEW j \in Jobs, Start(s, j) PROVE TokenInv'
    <3>1. SessionsOK
      BY TypeSplit
    <3>2. UNCHANGED <<token, held, waited, failed, refreshable>>
      BY <2>2 DEF Start, row, tokenVars
    <3>3. \A r \in Sessions : pc'[r] = pc[r] \/ pc'[r] \in {"build", "commit"}
      BY <2>2, <3>1 DEF Start, Goto, SessionsOK
    <3> QED
      BY <3>2, <3>3 DEF TokenInv
  <2> QED
    BY <2>1, <2>2, TokenAges, TokenKept DEF Next
<1> QED
  BY <1>1, <1>2, TypeCorrect, PTL DEF Spec

\* A mailbox that was connected with a refresh_token and a date is connected to
\* with a token that still lives, whatever the other sessions store meanwhile,
\* by every scan, policy and test, and every reconnection, that is made within
\* the skew of having looked at it.
THEOREM ConnectionsUseLiveTokens == Spec => []ConnectsWithLiveToken
<1>1. TypeOK /\ TokenInv => ConnectsWithLiveToken
  <2> SUFFICES ASSUME TypeOK, TokenInv, NEW s \in Sessions, pc[s] \in {"connect", "fetch"}, refreshable,
                      waited[s] <= Skew, ~ failed[s]
               PROVE  held[s].left > 0
    BY DEF ConnectsWithLiveToken
  <2>1. held[s].left + waited[s] > Skew
    BY DEF TokenInv
  <2>2. held[s].left \in Nat /\ waited[s] \in Nat
    BY TypeSplit, MailboxAssumption DEF SessionsOK, Token
  <2> QED
    BY <2>1, <2>2, MailboxAssumption
<1> QED
  BY <1>1, TypeCorrect, TokenInvariant, PTL
=============================================================================
