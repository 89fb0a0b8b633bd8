-------------------------- MODULE SchedulerProofs --------------------------
(***************************************************************************)
(* Theorems about Scheduler, for any mailboxes and intervals, any number   *)
(* of ticks at a time, and ticks of any length.                            *)
(***************************************************************************)
EXTENDS Scheduler, FiniteSetTheorems, WellFoundedInduction, TLAPS

\* The mailboxes a tick goes through: each once, and none that is yet to be
\* connected.
GoodList(mailboxes) ==
  /\ mailboxes \in Seq(Mailboxes) /\ IsInjective(mailboxes)
  /\ \A i \in DOMAIN mailboxes : phase[mailboxes[i]] # "new"

LEMMA OldestIsNat == Oldest \in Nat
<1>1. \E i \in Intervals : \A j \in Intervals : j <= i
  BY SchedulerAssumption
<1> DEFINE longest == CHOOSE i \in Intervals : \A j \in Intervals : j <= i
<1>2. longest \in Intervals /\ Oldest = MaxLag + longest
  BY <1>1 DEF Oldest
<1> HIDE DEF longest
<1> QED
  BY <1>2, SchedulerAssumption

\* Where mailboxes are due, there is a first one.
LEMMA LeastOf ==
  ASSUME NEW S, S \subseteq Nat, S # {}
  PROVE  Min(S) \in S
<1>1. \E x \in S : \A y \in S : <<y, x>> \notin OpToRel(<, Nat)
  BY NatLessThanWellFounded, WFMin, Zenon
<1>2. PICK x \in S : \A y \in S : ~(y < x)
  BY <1>1, Zenon DEF OpToRel
<1>3. \A y \in S : x =< y
  BY <1>2
<1> QED
  BY <1>3 DEF Min

\* What is left of a list is a good list, whichever end it starts from.
LEMMA RestOfList ==
  ASSUME NEW l, GoodList(l), NEW n \in DOMAIN l
  PROVE  GoodList(SubSeq(l, n, Len(l))) /\ SubSeq(l, n, Len(l)) # <<>>
<1> DEFINE rest == SubSeq(l, n, Len(l))
<1>1. l \in Seq(Mailboxes) /\ Len(l) \in Nat /\ n \in 1 .. Len(l)
  BY DEF GoodList
<1>2. /\ rest \in Seq(Mailboxes) /\ Len(rest) = Len(l) - n + 1
      /\ \A i \in 1 .. Len(l) - n + 1 : rest[i] = l[i + n - 1]
  BY <1>1
<1>3. DOMAIN rest = 1 .. Len(l) - n + 1 /\ DOMAIN l = 1 .. Len(l)
  BY <1>1, <1>2
<1>4. \A i \in DOMAIN rest : i + n - 1 \in DOMAIN l /\ rest[i] = l[i + n - 1] /\ i \in Int
  BY <1>1, <1>2, <1>3
<1> HIDE DEF rest
<1>5. IsInjective(rest)
  BY <1>1, <1>4 DEF IsInjective, GoodList
<1>6. rest # <<>>
  BY <1>1, <1>2
<1> QED
  BY <1>2, <1>4, <1>5, <1>6 DEF GoodList, rest

LEMMA TailOfList ==
  ASSUME NEW l, GoodList(l), l # <<>>
  PROVE  GoodList(Tail(l))
<1>1. l \in Seq(Mailboxes) /\ Len(l) \in Nat
  BY DEF GoodList
<1>2. /\ Tail(l) \in Seq(Mailboxes) /\ Len(Tail(l)) = Len(l) - 1
      /\ \A i \in 1 .. Len(l) - 1 : Tail(l)[i] = l[i + 1]
  BY <1>1
<1>3. DOMAIN Tail(l) = 1 .. Len(l) - 1 /\ DOMAIN l = 1 .. Len(l)
  BY <1>1, <1>2
<1>4. \A i \in DOMAIN Tail(l) : i + 1 \in DOMAIN l /\ Tail(l)[i] = l[i + 1] /\ i \in Int
  BY <1>1, <1>2, <1>3
<1>5. IsInjective(Tail(l))
  BY <1>1, <1>4 DEF IsInjective, GoodList
<1> QED
  BY <1>2, <1>4, <1>5 DEF GoodList

LEMMA EmptyIsGood == GoodList(<<>>)
<1>1. <<>> \in Seq(Mailboxes) /\ DOMAIN <<>> = {}
  OBVIOUS
<1> QED
  BY <1>1 DEF GoodList, IsInjective

\* The rows of a query, in any order.
LEMMA QueriedIsGood ==
  ASSUME NEW order \in SetToSeqs(Monitored)
  PROVE  GoodList(order)
<1>1. Monitored \subseteq Mailboxes /\ \A m \in Monitored : phase[m] = "live"
  BY DEF Monitored, Live
<1>2. Cardinality(Monitored) \in Nat
  BY <1>1, SchedulerAssumption, FS_Subset, FS_CardinalityType
<1>3. /\ order \in [1 .. Cardinality(Monitored) -> Monitored]
      /\ \A i, j \in 1 .. Cardinality(Monitored) : i # j => order[i] # order[j]
  BY DEF SetToSeqs
<1>4. order \in Seq(Mailboxes)
  BY <1>1, <1>2, <1>3
<1> QED
  BY <1>1, <1>3, <1>4 DEF GoodList, IsInjective
-----------------------------------------------------------------------------
\* Where one tick is.
TickOK(t) ==
  /\ GoodList(list[t])
  /\ pc[t] = "scan" => list[t] # <<>>
  /\ pc[t] \notin {"loop", "scan"} => list[t] = <<>> /\ lag[t] = 0

Scalars ==
  /\ phase \in [Mailboxes -> {"new", "live", "deleted"}]
  /\ monitored \in [Mailboxes -> BOOLEAN]
  /\ interval \in [Mailboxes -> Intervals]
  /\ age \in [Mailboxes -> 0 .. Oldest]
  /\ poisoned \subseteq Live

Ranges ==
  /\ pc \in [Ticks -> {"idle", "fired", "loop", "scan", "lost", "down"}]
  /\ list \in [Ticks -> Seq(Mailboxes)]
  /\ lag \in [Ticks -> 0 .. MaxLag]

LEMMA TypeParts == TypeOK <=> Scalars /\ Ranges /\ \A t \in Ticks : TickOK(t)
<1>1. TypeOK => Scalars /\ Ranges /\ \A t \in Ticks : TickOK(t)
  BY DEF TypeOK, Scalars, Ranges, TickOK, GoodList
<1>2. ASSUME Scalars, Ranges, \A t \in Ticks : TickOK(t) PROVE TypeOK
  <2>1. /\ phase \in [Mailboxes -> {"new", "live", "deleted"}] /\ monitored \in [Mailboxes -> BOOLEAN]
        /\ interval \in [Mailboxes -> Intervals] /\ age \in [Mailboxes -> 0 .. Oldest]
        /\ pc \in [Ticks -> {"idle", "fired", "loop", "scan", "lost", "down"}]
        /\ lag \in [Ticks -> 0 .. MaxLag] /\ poisoned \subseteq Live
    BY <1>2 DEF Scalars, Ranges
  <2>2. list \in [Ticks -> Seq(Mailboxes)]
    BY <1>2 DEF Ranges
  <2>3. \A t \in Ticks :
          /\ pc[t] = "scan" => list[t] # <<>>
          /\ pc[t] \notin {"loop", "scan"} => list[t] = <<>> /\ lag[t] = 0
          /\ IsInjective(list[t]) /\ \A i \in DOMAIN list[t] : phase[list[t][i]] # "new"
    BY <1>2, Zenon DEF TickOK, GoodList
  <2> QED
    BY <2>1, <2>2, <2>3 DEF TypeOK
<1> QED
  BY <1>1, <1>2

LEMMA TypePartsNext ==
  ASSUME Scalars', Ranges', \A t \in Ticks : TickOK(t)'
  PROVE  TypeOK'
<1>1. (TypeOK <=> Scalars /\ Ranges /\ \A t \in Ticks : TickOK(t))'
  BY TypeParts, PTL
<1> QED
  BY <1>1

\* A step of one tick leaves the rows and the other ticks alone.
Alone(t) ==
  /\ UNCHANGED <<phase, monitored, interval, age>>
  /\ \A u \in Ticks \ {t} : pc'[u] = pc[u] /\ list'[u] = list[u] /\ lag'[u] = lag[u]

LEMMA RowsStay ==
  ASSUME Scalars, UNCHANGED rowVars
  PROVE  Scalars'
BY DEF Scalars, rowVars, Live

LEMMA OthersStay ==
  ASSUME TypeOK, NEW t \in Ticks, UNCHANGED phase, Ranges', TickOK(t)',
         \A u \in Ticks \ {t} : pc'[u] = pc[u] /\ list'[u] = list[u] /\ lag'[u] = lag[u]
  PROVE  \A u \in Ticks : TickOK(u)'
<1> SUFFICES ASSUME NEW u \in Ticks PROVE TickOK(u)'
  OBVIOUS
<1>1. TickOK(u)
  BY TypeParts
<1>2. CASE u = t
  BY <1>2
<1>3. CASE u # t
  BY <1>1, <1>3 DEF TickOK, GoodList
<1> QED
  BY <1>2, <1>3

\* A tick that ends, that begins a scan, or that goes on to the next mailbox.
LEMMA Ended ==
  ASSUME TypeOK, NEW t \in Ticks, EndTick(t), UNCHANGED phase
  PROVE  Ranges' /\ \A u \in Ticks : TickOK(u)'
<1> <<>> \in Seq(Mailboxes)
  OBVIOUS
<1>1. Ranges' /\ pc'[t] = "idle" /\ list'[t] = <<>> /\ lag'[t] = 0
  BY SchedulerAssumption DEF EndTick, TypeOK, Ranges
<1>2. \A u \in Ticks \ {t} : pc'[u] = pc[u] /\ list'[u] = list[u] /\ lag'[u] = lag[u]
  BY DEF EndTick, TypeOK
<1>3. TickOK(t)'
  BY <1>1, EmptyIsGood, EmptyIsGood DEF TickOK, GoodList
<1> QED
  BY <1>1, <1>2, <1>3, OthersStay

LEMMA Moved ==
  ASSUME TypeOK, NEW t \in Ticks, NEW at \in {"loop", "scan"}, NEW l, GoodList(l), at = "scan" => l # <<>>,
         pc' = [pc EXCEPT ![t] = at], list' = [list EXCEPT ![t] = l], UNCHANGED <<phase, lag>>
  PROVE  Ranges' /\ \A u \in Ticks : TickOK(u)'
<1>1. Ranges' /\ pc'[t] = at /\ list'[t] = l
  BY DEF TypeOK, Ranges, GoodList
<1>2. \A u \in Ticks \ {t} : pc'[u] = pc[u] /\ list'[u] = list[u] /\ lag'[u] = lag[u]
  BY DEF TypeOK
<1>3. TickOK(t)'
  BY <1>1 DEF TickOK, GoodList
<1> QED
  BY <1>1, <1>2, <1>3, OthersStay

\* Every step keeps the types.
LEMMA BeginKeeps ==
  ASSUME TypeOK, NEW t \in Ticks, NEW order, GoodList(order), Begin(t, order), UNCHANGED phase
  PROVE  Ranges' /\ \A u \in Ticks : TickOK(u)'
<1> DEFINE dueAt == {i \in DOMAIN order : IsDue(t, order[i])}
<1>1. CASE dueAt = {}
  BY <1>1, Ended DEF Begin
<1>2. CASE dueAt # {}
  <2>1. dueAt \subseteq DOMAIN order /\ dueAt \subseteq Nat
    BY DEF GoodList
  <2>2. Min(dueAt) \in DOMAIN order
    BY <1>2, <2>1, LeastOf
  <2>3. /\ list' = [list EXCEPT ![t] = SubSeq(order, Min(dueAt), Len(order))]
        /\ pc' = [pc EXCEPT ![t] = "scan"] /\ UNCHANGED lag
    BY <1>2 DEF Begin
  <2> QED
    BY <2>2, <2>3, RestOfList, Moved
<1> QED
  BY <1>1, <1>2

LEMMA TickKeeps ==
  ASSUME TypeOK, NEW t \in Ticks, TickStep(t)
  PROVE  TypeOK'
<1>1. Scalars /\ Ranges /\ TickOK(t) /\ Oldest \in Nat
  BY TypeParts, OldestIsNat
<1>2. CASE Query(t)
  <2>1. PICK order \in SetToSeqs(Monitored) : Begin(t, order)
    BY <1>2 DEF Query
  <2>2. UNCHANGED rowVars
    BY <1>2 DEF Query
  <2>3. Ranges' /\ \A u \in Ticks : TickOK(u)'
    BY <2>1, <2>2, QueriedIsGood, BeginKeeps DEF rowVars
  <2> QED
    BY <1>1, <2>2, <2>3, RowsStay, TypePartsNext
<1>3. CASE EndTick(t) /\ UNCHANGED rowVars
  <2>1. Ranges' /\ \A u \in Ticks : TickOK(u)'
    BY <1>3, Ended DEF rowVars
  <2> QED
    BY <1>1, <1>3, <2>1, RowsStay, TypePartsNext
<1>4. CASE QueryFails(t) \/ MissMailbox(t) \/ FinishTick(t) \/ AbortScan(t) \/ EndLost(t)
  <2>1. EndTick(t) /\ UNCHANGED rowVars
    BY <1>4 DEF QueryFails, MissMailbox, FinishTick, AbortScan, EndLost
  <2> QED
    BY <1>3, <2>1
<1>7. CASE LoseRace(t)
  <2>1. /\ pc' = [pc EXCEPT ![t] = "lost"] /\ list' = [list EXCEPT ![t] = <<>>]
        /\ lag' = [lag EXCEPT ![t] = 0] /\ UNCHANGED rowVars
    BY <1>7 DEF LoseRace
  <2>2. <<>> \in Seq(Mailboxes) /\ 0 \in 0 .. MaxLag
    BY SchedulerAssumption
  <2>3. Ranges' /\ pc'[t] = "lost" /\ list'[t] = <<>> /\ lag'[t] = 0
    BY <1>1, <2>1, <2>2 DEF Ranges
  <2>4. \A u \in Ticks \ {t} : pc'[u] = pc[u] /\ list'[u] = list[u] /\ lag'[u] = lag[u]
    BY <1>1, <2>1 DEF Ranges
  <2>5. TickOK(t)'
    BY <2>3, EmptyIsGood DEF TickOK, GoodList
  <2>6. \A u \in Ticks : TickOK(u)'
    BY <2>1, <2>3, <2>4, <2>5, OthersStay DEF rowVars
  <2> QED
    BY <1>1, <2>1, <2>3, <2>6, RowsStay, TypePartsNext
<1>5. CASE SkipMailbox(t) \/ TakeMailbox(t)
  <2>1. pc[t] = "loop" /\ list[t] # <<>> /\ UNCHANGED <<rowVars, lag>>
    BY <1>5 DEF SkipMailbox, TakeMailbox, InLoop
  <2>2. \/ pc' = [pc EXCEPT ![t] = "loop"] /\ list' = [list EXCEPT ![t] = Tail(list[t])]
        \/ pc' = [pc EXCEPT ![t] = "scan"] /\ list' = [list EXCEPT ![t] = list[t]]
    <3>1. pc = [pc EXCEPT ![t] = "loop"] /\ list = [list EXCEPT ![t] = list[t]]
      BY <1>1, <2>1 DEF Ranges
    <3> QED
      BY <1>5, <3>1 DEF SkipMailbox, TakeMailbox
  <2>3. GoodList(list[t]) /\ GoodList(Tail(list[t]))
    BY <1>1, <2>1, TailOfList DEF TickOK
  <2>4. Ranges' /\ \A u \in Ticks : TickOK(u)'
    BY <2>1, <2>2, <2>3, Moved DEF rowVars
  <2> QED
    BY <1>1, <2>1, <2>4, RowsStay, TypePartsNext
<1>6. CASE CompleteScan(t) \/ FailScan(t)
  <2>1. list[t] # <<>> /\ Current(t) \in Mailboxes
    <3>1. pc[t] = "scan" /\ list[t] # <<>> /\ list[t] \in Seq(Mailboxes)
      BY <1>1, <1>6 DEF CompleteScan, FailScan, TickOK, GoodList
    <3> QED
      BY <3>1 DEF Current
  <2>2. /\ pc' = [pc EXCEPT ![t] = "loop"] /\ list' = [list EXCEPT ![t] = Tail(list[t])]
        /\ UNCHANGED <<phase, monitored, interval, poisoned, lag>>
        /\ age' = [age EXCEPT ![Current(t)] = 0] \/ age' = age
    BY <1>6 DEF CompleteScan, FailScan, Continue, rowVars
  <2>3. GoodList(Tail(list[t]))
    BY <1>1, <2>1, TailOfList DEF TickOK
  <2>4. Ranges' /\ \A u \in Ticks : TickOK(u)'
    BY <2>2, <2>3, Moved
  <2>5. Scalars'
    <3>1. age' \in [Mailboxes -> 0 .. Oldest]
      BY <1>1, <2>1, <2>2 DEF Scalars
    <3>2. Live' = Live
      BY <2>2 DEF Live
    <3> QED
      BY <1>1, <2>2, <3>1, <3>2 DEF Scalars
  <2> QED
    BY <2>4, <2>5, TypePartsNext
<1> QED
  BY <1>2, <1>4, <1>5, <1>6, <1>7 DEF TickStep, Loop, EndScan

LEMMA RequestKeeps ==
  ASSUME TypeOK, NEW m \in Mailboxes, Request(m)
  PROVE  TypeOK'
<1>1. Scalars /\ Ranges /\ Oldest \in Nat /\ \A t \in Ticks : TickOK(t)
  BY TypeParts, OldestIsNat
<1>2. UNCHANGED tickVars /\ \A n \in Mailboxes : phase[n] # "new" => phase'[n] # "new"
  BY <1>1 DEF Request, Connect, SetMonitoring, Disconnect, Delete, ScanNow, Poison, Cure, Scalars
<1>3. Scalars'
  <2>1. CASE Connect(m) \/ Disconnect(m)
    BY <1>1, <2>1 DEF Connect, Disconnect, Scalars, Live
  <2>2. CASE Delete(m) \/ ScanNow(m)
    <3>1. 0 \in 0 .. Oldest /\ Oldest \in 0 .. Oldest /\ DefaultInterval \in Intervals
      BY <1>1, SchedulerAssumption
    <3>2. CASE Delete(m)
      BY <1>1, <3>1, <3>2 DEF Delete, Scalars, Live
    <3>3. CASE ScanNow(m)
      BY <1>1, <3>1, <3>3 DEF ScanNow, Scalars, Live
    <3> QED
      BY <2>2, <3>2, <3>3
  <2>3. ASSUME NEW enabled \in BOOLEAN, NEW minutes \in Intervals \cup {0}, SetMonitoring(m, enabled, minutes)
        PROVE  Scalars'
    <3>1. interval' \in [Mailboxes -> Intervals]
      BY <1>1, <2>3 DEF SetMonitoring, Scalars
    <3>2. monitored' \in [Mailboxes -> BOOLEAN]
      BY <1>1, <2>3 DEF SetMonitoring, Scalars
    <3> QED
      BY <1>1, <2>3, <3>1, <3>2 DEF SetMonitoring, Scalars, Live
  <2>4. CASE Poison(m) \/ Cure(m)
    BY <1>1, <2>4 DEF Poison, Cure, Scalars, Live
  <2> QED
    BY <2>1, <2>2, <2>3, <2>4 DEF Request
<1>4. \A t \in Ticks : TickOK(t)'
  <2> SUFFICES ASSUME NEW t \in Ticks PROVE TickOK(t)'
    OBVIOUS
  <2>1. \A i \in DOMAIN list[t] : list[t][i] \in Mailboxes
    BY <1>1 DEF TickOK, GoodList
  <2> QED
    BY <1>1, <1>2, <2>1 DEF TickOK, GoodList, tickVars
<1> QED
  BY <1>1, <1>2, <1>3, <1>4, TypePartsNext DEF Ranges, tickVars

\* All the ticks at once.
LEMMA TogetherKeeps ==
  ASSUME TypeOK, Minute \/ Kill \/ Restart
  PROVE  TypeOK'
<1>1. Scalars /\ Ranges /\ Oldest \in Nat /\ MaxLag \in Nat /\ \A t \in Ticks : TickOK(t)
  BY TypeParts, OldestIsNat, SchedulerAssumption
<1>2. CASE Minute
  <2>1. /\ UNCHANGED <<phase, list>>
        /\ lag' \in [Ticks -> 0 .. MaxLag]
        /\ \A t \in Ticks : pc[t] \notin {"loop", "scan"} => lag'[t] = 0
    BY <1>1, <1>2 DEF Minute, Ranges
  <2>2. /\ pc' \in [Ticks -> {"idle", "fired", "loop", "scan", "lost", "down"}]
        /\ \A t \in Ticks : pc'[t] = pc[t] \/ (pc[t] = "idle" /\ pc'[t] = "fired")
    <3> DEFINE idle == {t \in Ticks : pc[t] = "idle"}
    <3>1. CASE idle = {}
      <4>1. pc' = pc
        BY <1>2, <3>1 DEF Minute
      <4>2. pc \in [Ticks -> {"idle", "fired", "loop", "scan", "lost", "down"}]
        BY <1>1 DEF Ranges
      <4> QED
        BY <4>1, <4>2
    <3>2. CASE idle # {}
      <4> DEFINE u == CHOOSE t \in idle : TRUE
      <4>1. u \in idle /\ pc' = [pc EXCEPT ![u] = "fired"]
        BY <1>2, <3>2 DEF Minute
      <4>2. u \in Ticks /\ pc[u] = "idle"
        BY <4>1
      <4>3. pc \in [Ticks -> {"idle", "fired", "loop", "scan", "lost", "down"}]
        BY <1>1 DEF Ranges
      <4> HIDE DEF u, idle
      <4>4. pc' \in [Ticks -> {"idle", "fired", "loop", "scan", "lost", "down"}]
        BY <4>1, <4>3
      <4>5. \A t \in Ticks : pc'[t] = IF t = u THEN "fired" ELSE pc[t]
        BY <4>1, <4>3
      <4> QED
        BY <4>2, <4>4, <4>5
    <3> QED
      BY <3>1, <3>2
  <2>3. Scalars'
    BY <1>1, <1>2 DEF Minute, Scalars, Live
  <2>4. Ranges'
    BY <1>1, <2>1, <2>2 DEF Ranges
  <2>5. ASSUME NEW t \in Ticks PROVE TickOK(t)'
    <3>1. TickOK(t) /\ (pc'[t] = pc[t] \/ (pc[t] = "idle" /\ pc'[t] = "fired"))
      BY <1>1, <2>2
    <3>2. pc'[t] \notin {"loop", "scan"} => pc[t] \notin {"loop", "scan"}
      BY <3>1
    <3> QED
      BY <2>1, <3>1, <3>2 DEF TickOK, GoodList
  <2> QED
    BY <2>3, <2>4, <2>5, TypePartsNext
<1>3. CASE Kill
  <2>1. UNCHANGED rowVars /\ \A t \in Ticks : pc'[t] = "down" /\ list'[t] = <<>> /\ lag'[t] = 0
    BY <1>3 DEF Kill
  <2>2. <<>> \in Seq(Mailboxes) /\ 0 \in 0 .. MaxLag
    BY <1>1
  <2>3. Ranges'
    BY <1>3, <2>2 DEF Kill, Ranges
  <2>4. \A t \in Ticks : TickOK(t)'
    BY <2>1, EmptyIsGood DEF TickOK, GoodList, rowVars
  <2> QED
    BY <1>1, <2>1, <2>3, <2>4, RowsStay, TypePartsNext
<1>4. CASE Restart
  <2>1. UNCHANGED <<rowVars, list, lag>> /\ \A t \in Ticks : pc[t] = "down" /\ pc'[t] = "idle"
    BY <1>4 DEF Restart
  <2>2. Ranges'
    BY <1>1, <1>4 DEF Restart, Ranges
  <2>3. \A t \in Ticks : TickOK(t)'
    BY <1>1, <2>1 DEF TickOK, GoodList, rowVars
  <2> QED
    BY <1>1, <2>1, <2>2, <2>3, RowsStay, TypePartsNext
<1> QED
  BY <1>2, <1>3, <1>4

\* A tick in a scan has a mailbox to scan, and looks at no mailbox twice
\* (_run_all_monitored_mailboxes, however its instances overlap with each other, with
\* requests and with restarts).
THEOREM TypeCorrect == Spec => []TypeOK
<1>1. Init => TypeOK
  <2> SUFFICES ASSUME Init PROVE TypeOK
    OBVIOUS
  <2>1. Scalars /\ Ranges
    BY OldestIsNat, SchedulerAssumption DEF Init, Scalars, Ranges, Live
  <2>2. \A t \in Ticks : TickOK(t)
    <3> SUFFICES ASSUME NEW t \in Ticks PROVE TickOK(t)
      OBVIOUS
    <3>1. list[t] = <<>> /\ pc[t] = "idle" /\ lag[t] = 0
      BY DEF Init
    <3> QED
      BY <3>1, EmptyIsGood DEF TickOK
  <2> QED
    BY <2>1, <2>2, TypeParts
<1>2. TypeOK /\ [Next]_vars => TypeOK'
  <2> SUFFICES ASSUME TypeOK, [Next]_vars PROVE TypeOK'
    OBVIOUS
  <2>1. CASE UNCHANGED vars
    BY <2>1 DEF TypeOK, vars, Live
  <2> QED
    BY <2>1, TickKeeps, RequestKeeps, TogetherKeeps DEF Next
<1> QED
  BY <1>1, <1>2, PTL DEF Spec
=============================================================================
