------------------------- MODULE ScanPipelineProofs -------------------------
(***************************************************************************)
(* Theorems about ScanPipeline, for any number of workers and messages,    *)
(* any assignment of dedup_keys to messages and any mixture of messages.   *)
(***************************************************************************)
EXTENDS ScanPipeline, TLAPS, WellFoundedInduction

\* Every variable stays in its range, whatever the workers do.
THEOREM TypeCorrect == Spec => []TypeOK
<1>1. Init => TypeOK
  BY ScanAssumption DEF Init, TypeOK, RowState, JobStatus, Place, Uids, Expired
<1>2. TypeOK /\ [Next]_vars => TypeOK'
  <2> SUFFICES ASSUME TypeOK, [Next]_vars PROVE TypeOK'
    OBVIOUS
  <2> USE ScanAssumption DEF TypeOK, RowState, JobStatus, Place, Uids, mailVars, asideVars, dbVars, memVars, Goto,
                           Expired, Expire, Refresh
  <2>1. CASE Arrive
    BY <2>1 DEF Arrive
  <2>2. CASE Crash
    BY <2>2 DEF Crash, AfterRollback
  <2>3. ASSUME NEW w \in Workers, StartScan(w) PROVE TypeOK'
    BY <2>3 DEF StartScan, Running
  <2>4. ASSUME NEW w \in Workers, Connect(w) PROVE TypeOK'
    BY <2>4 DEF Connect
  <2>5. ASSUME NEW w \in Workers, Fetch(w) PROVE TypeOK'
    BY <2>5 DEF Fetch, ToFetch, Newest
  <2>6. ASSUME NEW w \in Workers, FailScan(w) PROVE TypeOK'
    BY <2>6 DEF FailScan, Leave
  <2>7. ASSUME NEW w \in Workers, BeginAnalysis(w) PROVE TypeOK'
    BY <2>7 DEF BeginAnalysis
  <2>8. ASSUME NEW w \in Workers, Finish(w) PROVE TypeOK'
    BY <2>8 DEF Finish, NewWatermark, Leave, AfterCommit
  <2>9. ASSUME NEW w \in Workers, NEW u \in Uids, Process(w, u) PROVE TypeOK'
    <3>1. CASE ParseError(w, u)
      BY <3>1 DEF ParseError, Skip
    <3>2. CASE SkipDuplicate(w, u)
      BY <3>2 DEF SkipDuplicate, Succeed
    <3>3. CASE MissDuplicate(w, u)
      BY <3>3 DEF MissDuplicate
    <3>4. CASE Insert(w, u)
      BY <3>4 DEF Insert
    <3>5. CASE InsertRejected(w, u)
      BY <3>5 DEF InsertRejected, Abort, Leave, AfterRollback
    <3>6. CASE LinkError(w, u)
      BY <3>6 DEF LinkError, Skip
    <3>7. CASE CommitWhitelisted(w, u)
      BY <3>7 DEF CommitWhitelisted, CommitAs, AfterCommit, Succeed
    <3>8. CASE CommitAnalysis(w, u)
      BY <3>8 DEF CommitAnalysis, CommitAs, AfterCommit
    <3>9. CASE CommitRejected(w, u)
      BY <3>9 DEF CommitRejected, Abort, Leave, AfterRollback
    <3>10. CASE ExecutePolicy(w, u)
      BY <3>10 DEF ExecutePolicy, CommitAs, AfterCommit, Succeed
    <3>11. CASE PolicyAborts(w, u)
      BY <3>11 DEF PolicyAborts, Abort, Leave, AfterRollback
    <3>12. CASE OutcomeRejected(w, u)
      BY <3>12 DEF OutcomeRejected, CommitAs, AfterCommit, Leave
    <3> QED
      BY <2>9, <3>1, <3>2, <3>3, <3>4, <3>5, <3>6, <3>7, <3>8, <3>9, <3>10, <3>11, <3>12 DEF Process
  <2>10. CASE UNCHANGED vars
    BY <2>10 DEF vars
  <2> QED
    BY <2>1, <2>2, <2>3, <2>4, <2>5, <2>6, <2>7, <2>8, <2>9, <2>10 DEF Next, Advance
<1> QED
  BY <1>1, <1>2, PTL DEF Spec

-----------------------------------------------------------------------------
\* Where the message a worker is about stands: nothing flushed for its key
\* before the INSERT, the row flushed when it is judged, committed as an
\* active threat when the policy runs.  Without the first conjunct a session
\* could insert a key twice; without the others a commit could create a row.
RowMatchesPlace ==
  \A w \in Workers, u \in Uids :
    IsNext(w, u) =>
      /\ pc[w] = "insert" => ~ Holds(w, KeyOf[u])
      /\ pc[w] = "judge" => row[w][u] = "pending"
      /\ pc[w] = "policy" => row[w][u] = "analysed"

RowInv == TypeOK /\ OneRowPerMessage /\ RowMatchesPlace

\* Steps that leave every row alone: only the place of worker w may change,
\* and what it is about next.
LEMMA RowsUnchanged ==
  ASSUME RowInv, NEW w \in Workers, UNCHANGED row,
         \A x \in Workers \ {w} : pc'[x] = pc[x] /\ todo'[x] = todo[x],
         \A u \in Uids : IsNext(w, u)' =>
           /\ pc'[w] = "insert" => ~ Holds(w, KeyOf[u])
           /\ pc'[w] = "judge" => row[w][u] = "pending"
           /\ pc'[w] = "policy" => row[w][u] = "analysed"
  PROVE  OneRowPerMessage' /\ RowMatchesPlace'
<1>1. OneRowPerMessage'
  BY DEF RowInv, OneRowPerMessage
<1>2. ASSUME NEW x \in Workers, NEW u \in Uids, IsNext(x, u)'
      PROVE  /\ pc'[x] = "insert" => ~ Holds(x, KeyOf[u])'
             /\ pc'[x] = "judge" => row'[x][u] = "pending"
             /\ pc'[x] = "policy" => row'[x][u] = "analysed"
  <2>1. CASE x = w
    BY <1>2, <2>1 DEF Holds
  <2>2. CASE x # w
    BY <1>2, <2>2 DEF RowInv, RowMatchesPlace, IsNext, Holds
  <2> QED
    BY <2>1, <2>2
<1> QED
  BY <1>1, <1>2 DEF RowMatchesPlace

\* Steps that only end or drop what worker w had open, and leave w where no
\* message is under way: the end of a scan, an abort, a commit.
LEMMA RowsSettled ==
  ASSUME RowInv, NEW w \in Workers,
         row' \in [Workers -> [Uids -> RowState]],
         \A x \in Workers \ {w} : row'[x] = row[x] /\ pc'[x] = pc[x] /\ todo'[x] = todo[x],
         \A u \in Uids : row'[w][u] # "none" => row[w][u] # "none",
         \A u \in Uids : IsNext(w, u)' =>
           /\ pc'[w] \notin {"insert", "judge"}
           /\ pc'[w] = "policy" => row'[w][u] = "analysed"
  PROVE  OneRowPerMessage' /\ RowMatchesPlace'
<1>1. OneRowPerMessage'
  <2> SUFFICES ASSUME NEW x \in Workers, NEW y \in Workers, NEW u \in Uids, NEW v \in Uids,
                      row'[x][u] # "none", row'[y][v] # "none", KeyOf[u] = KeyOf[v]
               PROVE  x = y /\ u = v
    BY DEF OneRowPerMessage
  <2>1. row[x][u] # "none" /\ row[y][v] # "none"
    OBVIOUS
  <2> QED
    BY <2>1 DEF RowInv, OneRowPerMessage
<1>2. ASSUME NEW x \in Workers, NEW u \in Uids, IsNext(x, u)'
      PROVE  /\ pc'[x] = "insert" => ~ Holds(x, KeyOf[u])'
             /\ pc'[x] = "judge" => row'[x][u] = "pending"
             /\ pc'[x] = "policy" => row'[x][u] = "analysed"
  <2>1. CASE x = w
    BY <1>2, <2>1
  <2>2. CASE x # w
    BY <1>2, <2>2 DEF RowInv, RowMatchesPlace, IsNext, Holds
  <2> QED
    BY <2>1, <2>2
<1> QED
  BY <1>1, <1>2 DEF RowMatchesPlace

\* The flush of a row.  The guards say that no row with the key is committed
\* and that no other session holds one; RowMatchesPlace says that this session
\* holds none either.
LEMMA RowFlushed ==
  ASSUME RowInv, NEW w \in Workers, NEW n \in Uids, Insert(w, n)
  PROVE  OneRowPerMessage' /\ RowMatchesPlace'
<1> USE DEF RowInv, TypeOK
<1>1. \A x \in Workers, v \in Uids : KeyOf[v] = KeyOf[n] => row[x][v] = "none"
  <2> SUFFICES ASSUME NEW x \in Workers, NEW v \in Uids, KeyOf[v] = KeyOf[n]
               PROVE  row[x][v] = "none"
    OBVIOUS
  <2>1. ~ Committed(row[x][v])
    BY DEF Insert, Stored
  <2>2. ~ Holds(x, KeyOf[n])
    <3>1. CASE x # w
      BY <3>1 DEF Insert, InsertMayProceed
    <3>2. CASE x = w
      BY <3>2 DEF Insert, RowMatchesPlace
    <3> QED
      BY <3>1, <3>2
  <2> QED
    BY <2>1, <2>2 DEF Holds, Committed
<1>2. row' = [row EXCEPT ![w][n] = "pending"]
  BY DEF Insert
<1>3. \A x \in Workers, v \in Uids :
        row'[x][v] = IF x = w /\ v = n THEN "pending" ELSE row[x][v]
  BY <1>2
<1>4. OneRowPerMessage'
  <2> SUFFICES ASSUME NEW x \in Workers, NEW y \in Workers, NEW u \in Uids, NEW v \in Uids,
                      row'[x][u] # "none", row'[y][v] # "none", KeyOf[u] = KeyOf[v]
               PROVE  x = y /\ u = v
    BY DEF OneRowPerMessage
  <2>1. CASE x = w /\ u = n
    BY <1>1, <1>3, <2>1
  <2>2. CASE y = w /\ v = n
    BY <1>1, <1>3, <2>2
  <2>3. CASE ~(x = w /\ u = n) /\ ~(y = w /\ v = n)
    BY <1>3, <2>3 DEF OneRowPerMessage
  <2> QED
    BY <2>1, <2>2, <2>3
<1>5. ASSUME NEW x \in Workers, NEW u \in Uids, IsNext(x, u)'
      PROVE  /\ pc'[x] = "insert" => ~ Holds(x, KeyOf[u])'
             /\ pc'[x] = "judge" => row'[x][u] = "pending"
             /\ pc'[x] = "policy" => row'[x][u] = "analysed"
  <2>1. IsNext(x, u)
    BY <1>5 DEF Insert, IsNext
  <2>2. CASE x = w
    <3>1. u = n
      BY <2>1, <2>2 DEF Insert, IsNext, Uids
    <3>2. pc'[x] = "judge"
      BY <2>2 DEF Insert, Goto
    <3> QED
      BY <1>3, <2>2, <3>1, <3>2
  <2>3. CASE x # w
    <3>1. pc'[x] = pc[x] /\ \A v \in Uids : row'[x][v] = row[x][v]
      BY <1>3, <2>3 DEF Insert, Goto
    <3> QED
      BY <2>1, <3>1 DEF RowMatchesPlace, Holds
  <2> QED
    BY <2>2, <2>3
<1> QED
  BY <1>4, <1>5 DEF RowMatchesPlace

\* RowInv is an invariant: the uniqueness of rows with what makes it inductive.
LEMMA RowInvariant == Spec => []RowInv
<1>1. Init => RowInv
  <2> SUFFICES ASSUME Init PROVE RowInv
    OBVIOUS
  <2>1. TypeOK
    BY ScanAssumption DEF Init, TypeOK, RowState, JobStatus, Place, Uids, Expired
  <2>2. OneRowPerMessage /\ RowMatchesPlace
    BY DEF Init, OneRowPerMessage, RowMatchesPlace
  <2> QED
    BY <2>1, <2>2 DEF RowInv
<1>2. RowInv /\ TypeOK' /\ [Next]_vars => RowInv'
  <2> SUFFICES ASSUME RowInv, TypeOK', [Next]_vars
               PROVE  OneRowPerMessage' /\ RowMatchesPlace'
    BY DEF RowInv
  <2> USE DEF TypeOK, mailVars, asideVars, dbVars, memVars, Goto
  <2>0. TypeOK /\ OneRowPerMessage /\ RowMatchesPlace
    BY DEF RowInv
  <2>1. CASE Arrive \/ UNCHANGED vars
    <3>1. UNCHANGED <<row, pc, todo>>
      BY <2>1 DEF Arrive, vars
    <3> QED
      BY <2>0, <3>1 DEF OneRowPerMessage, RowMatchesPlace, IsNext, Holds
  <2>2. CASE Crash
    BY <2>0, <2>2 DEF Crash, AfterRollback, OneRowPerMessage, RowMatchesPlace, IsNext
  <2>3. ASSUME NEW w \in Workers, StartScan(w) \/ Connect(w) \/ Fetch(w) \/ BeginAnalysis(w)
        PROVE  OneRowPerMessage' /\ RowMatchesPlace'
    <3>1. /\ UNCHANGED row
          /\ \A x \in Workers \ {w} : pc'[x] = pc[x] /\ todo'[x] = todo[x]
          /\ pc'[w] \notin {"insert", "judge", "policy"}
      BY <2>0, <2>3 DEF StartScan, Connect, Fetch, BeginAnalysis
    <3> QED
      BY <3>1, RowsUnchanged
  <2>4. ASSUME NEW w \in Workers, FailScan(w)
        PROVE  OneRowPerMessage' /\ RowMatchesPlace'
    <3>1. /\ UNCHANGED row
          /\ \A x \in Workers \ {w} : pc'[x] = pc[x] /\ todo'[x] = todo[x]
          /\ pc'[w] = "idle"
      BY <2>0, <2>4 DEF FailScan, Leave
    <3> QED
      BY <3>1, RowsUnchanged
  <2>5. ASSUME NEW w \in Workers, Finish(w)
        PROVE  OneRowPerMessage' /\ RowMatchesPlace'
    <3>1. /\ \A x \in Workers \ {w} : row'[x] = row[x] /\ pc'[x] = pc[x] /\ todo'[x] = todo[x]
          /\ \A u \in Uids : row'[w][u] # "none" => row[w][u] # "none"
          /\ pc'[w] = "idle"
      BY <2>0, <2>5 DEF Finish, Leave, AfterCommit
    <3> QED
      BY <3>1, RowsSettled
  <2>6. ASSUME NEW w \in Workers, NEW u \in Uids, Process(w, u)
        PROVE  OneRowPerMessage' /\ RowMatchesPlace'
    <3>1. CASE ParseError(w, u) \/ SkipDuplicate(w, u) \/ LinkError(w, u)
      <4>1. /\ UNCHANGED row
            /\ \A x \in Workers \ {w} : pc'[x] = pc[x] /\ todo'[x] = todo[x]
            /\ pc'[w] = "loop"
        BY <2>0, <3>1 DEF ParseError, SkipDuplicate, LinkError, Skip, Succeed
      <4> QED
        BY <4>1, RowsUnchanged
    <3>2. CASE MissDuplicate(w, u)
      <4>1. /\ UNCHANGED <<row, todo>>
            /\ \A x \in Workers \ {w} : pc'[x] = pc[x]
            /\ pc'[w] = "insert" /\ ~ Holds(w, KeyOf[u])
        BY <2>0, <3>2 DEF MissDuplicate
      <4>2. \A v \in Uids : IsNext(w, v)' => v = u
        BY <2>0, <3>2, <4>1 DEF MissDuplicate, IsNext, Uids
      <4> QED
        BY <4>1, <4>2, RowsUnchanged
    <3>3. CASE Insert(w, u)
      BY <3>3, RowFlushed
    <3>4. CASE InsertRejected(w, u) \/ CommitRejected(w, u) \/ PolicyAborts(w, u)
      <4>1. /\ \A x \in Workers \ {w} : row'[x] = row[x] /\ pc'[x] = pc[x] /\ todo'[x] = todo[x]
            /\ \A v \in Uids : row'[w][v] # "none" => row[w][v] # "none"
            /\ pc'[w] = "idle"
        BY <2>0, <3>4 DEF InsertRejected, CommitRejected, PolicyAborts, Abort, Leave, AfterRollback
      <4> QED
        BY <4>1, RowsSettled
    <3>5. CASE CommitWhitelisted(w, u)
      <4>1. row[w][u] # "none"
        BY <2>0, <3>5 DEF CommitWhitelisted, RowMatchesPlace
      <4>2. /\ \A x \in Workers \ {w} : row'[x] = row[x] /\ pc'[x] = pc[x] /\ todo'[x] = todo[x]
            /\ pc'[w] = "loop"
        BY <2>0, <3>5 DEF CommitWhitelisted, CommitAs, Succeed
      <4>3. \A v \in Uids : row'[w][v] # "none" => row[w][v] # "none"
        BY <2>0, <3>5, <4>1 DEF CommitWhitelisted, CommitAs, AfterCommit
      <4> QED
        BY <4>2, <4>3, RowsSettled
    <3>6. CASE CommitAnalysis(w, u)
      <4>1. row[w][u] # "none"
        BY <2>0, <3>6 DEF CommitAnalysis, RowMatchesPlace
      <4>2. /\ \A x \in Workers \ {w} : row'[x] = row[x] /\ pc'[x] = pc[x] /\ todo'[x] = todo[x]
            /\ \A v \in Uids : row'[w][v] # "none" => row[w][v] # "none"
            /\ pc'[w] = "policy" /\ row'[w][u] = "analysed"
        BY <2>0, <3>6, <4>1 DEF CommitAnalysis, CommitAs, AfterCommit
      <4>3. \A v \in Uids : IsNext(w, v)' => v = u
        BY <2>0, <3>6 DEF CommitAnalysis, IsNext, Uids
      <4> QED
        BY <4>2, <4>3, RowsSettled
    <3>7. CASE ExecutePolicy(w, u)
      <4>1. row[w][u] # "none"
        BY <2>0, <3>7 DEF ExecutePolicy, RowMatchesPlace
      <4>2. /\ \A x \in Workers \ {w} : row'[x] = row[x] /\ pc'[x] = pc[x] /\ todo'[x] = todo[x]
            /\ pc'[w] = "loop"
        BY <2>0, <3>7 DEF ExecutePolicy, CommitAs, Succeed
      <4>3. \A v \in Uids : row'[w][v] # "none" => row[w][v] # "none"
        BY <2>0, <3>7, <4>1 DEF ExecutePolicy, CommitAs, AfterCommit
      <4> QED
        BY <4>2, <4>3, RowsSettled
    <3>8. CASE OutcomeRejected(w, u)
      <4>1. row[w][u] # "none"
        BY <2>0, <3>8 DEF OutcomeRejected, RowMatchesPlace
      <4>2. /\ \A x \in Workers \ {w} : row'[x] = row[x] /\ pc'[x] = pc[x] /\ todo'[x] = todo[x]
            /\ pc'[w] = "idle"
        BY <2>0, <3>8 DEF OutcomeRejected, CommitAs, Leave
      <4>3. \A v \in Uids : row'[w][v] # "none" => row[w][v] # "none"
        BY <2>0, <3>8, <4>1 DEF OutcomeRejected, CommitAs, AfterCommit
      <4> QED
        BY <4>2, <4>3, RowsSettled
    <3> QED
      BY <2>6, <3>1, <3>2, <3>3, <3>4, <3>5, <3>6, <3>7, <3>8 DEF Process
  <2> QED
    BY <2>1, <2>2, <2>3, <2>4, <2>5, <2>6 DEF Next, Advance
<1> QED
  BY <1>1, <1>2, TypeCorrect, PTL DEF Spec

\* However scans overlap, fail, abort or die, no two Email rows have the same
\* dedup_key, not even in transactions that are still open.
THEOREM RowsAreUnique == Spec => []OneRowPerMessage
<1>1. RowInv => OneRowPerMessage
  BY DEF RowInv
<1> QED
  BY <1>1, RowInvariant, PTL

-----------------------------------------------------------------------------
\* Message u is accounted for once worker w commits.
Accounted(w, u) == Stored(KeyOf[u]) \/ Holds(w, KeyOf[u]) \/ kind[u] = "unparsable"

Fetched(w) == todo[w] \cup processed[w] \cup errors[w]

\* A worker sweeps the messages it fetched, and all the older ones were
\* accounted for when it fetched: what is not in front of it is accounted for.
\* highest_uid never passes a message in front of the worker.
SweepOf(w) ==
  /\ pc[w] \in {"idle", "connect", "fetch"} => Fetched(w) = {}
  /\ pc[w] \in {"idle", "connect", "fetch", "begin"} => highest[w] = 0
  /\ pc[w] = "fetch" => \A u \in Uids : u <= loaded[w] => Accounted(w, u)
  /\ \A u \in Uids, v \in Fetched(w) : u <= v => u \in todo[w] \/ Accounted(w, u)
  /\ \A u \in Uids : u <= highest[w] => Accounted(w, u)

CoverInv == WatermarkCovered /\ \A w \in Workers : SweepOf(w)

\* No step takes a committed row away.
CommittedKept ==
  \A w \in Workers, u \in Uids : Committed(row[w][u]) => Committed(row'[w][u])

\* Worker w's transaction does not lose a row.
TransactionKept(w) == \A u \in Uids : row[w][u] = "pending" => row'[w][u] # "none"

LEMMA StoredKept ==
  ASSUME CommittedKept
  PROVE  \A k : Stored(k) => Stored(k)'
BY DEF CommittedKept, Stored, Committed

LEMMA AccountedKept ==
  ASSUME CommittedKept, UNCHANGED kind, NEW w \in Workers, TransactionKept(w)
  PROVE  \A u \in Uids : Accounted(w, u) => Accounted(w, u)'
<1> SUFFICES ASSUME NEW u \in Uids, Accounted(w, u) PROVE Accounted(w, u)'
  OBVIOUS
<1>1. CASE Stored(KeyOf[u])
  BY <1>1, StoredKept DEF Accounted
<1>2. CASE Holds(w, KeyOf[u])
  <2>1. PICK v \in Uids : KeyOf[v] = KeyOf[u] /\ row[w][v] = "pending"
    BY <1>2 DEF Holds
  <2>2. CASE row'[w][v] = "pending"
    BY <2>1, <2>2 DEF Holds, Accounted
  <2>3. CASE row'[w][v] # "pending"
    BY <2>1, <2>3 DEF Stored, Committed, Accounted, TransactionKept
  <2> QED
    BY <2>2, <2>3
<1>3. CASE kind[u] = "unparsable"
  BY <1>3 DEF Accounted
<1> QED
  BY <1>1, <1>2, <1>3 DEF Accounted

\* A worker whose memory stays as it is, wherever it goes on from a fetch.
LEMMA SweepKept ==
  ASSUME CommittedKept, UNCHANGED kind, NEW w \in Workers, TransactionKept(w), SweepOf(w),
         todo'[w] = todo[w], processed'[w] = processed[w], errors'[w] = errors[w],
         highest'[w] = highest[w],
         pc'[w] # "fetch" \/ (pc[w] = "fetch" /\ loaded'[w] = loaded[w]),
         pc'[w] \in {"idle", "connect", "fetch"} => pc[w] \in {"idle", "connect", "fetch"},
         pc'[w] = "begin" => pc[w] = "begin"
  PROVE  SweepOf(w)'
BY AccountedKept DEF SweepOf, Fetched

\* A worker that has left run_scan.
LEMMA SweepLeft ==
  ASSUME NEW w \in Workers, TypeOK, Leave(w)
  PROVE  SweepOf(w)'
<1>1. Fetched(w)' = {} /\ highest'[w] = 0 /\ pc'[w] = "idle"
  BY DEF TypeOK, Leave, Goto, Fetched
<1> QED
  BY <1>1 DEF SweepOf, Uids

\* A worker done with its next message, counted as processed.
LEMMA SweepSucceeded ==
  ASSUME TypeOK, CommittedKept, UNCHANGED kind, NEW w \in Workers, TransactionKept(w), SweepOf(w),
         NEW n \in Uids, IsNext(w, n), Succeed(w, n), pc'[w] = "loop", Accounted(w, n)'
  PROVE  SweepOf(w)'
<1>1. Fetched(w)' = Fetched(w) /\ n \in Fetched(w) /\ todo'[w] = todo[w] \ {n}
  BY DEF TypeOK, Succeed, Fetched, IsNext
<1>2. ASSUME NEW u \in Uids, NEW v \in Fetched(w), u <= v
      PROVE  u \in todo'[w] \/ Accounted(w, u)'
  BY <1>1, <1>2, AccountedKept DEF SweepOf
<1>3. ASSUME NEW u \in Uids, u <= highest'[w]
      PROVE  Accounted(w, u)'
  <2>1. CASE u <= highest[w]
    BY <2>1, AccountedKept DEF SweepOf
  <2>2. CASE ~ (u <= highest[w])
    <3>1. u <= n
      BY <1>3, <2>2 DEF TypeOK, Succeed
    <3>2. u = n \/ u \notin todo[w]
      BY <3>1 DEF IsNext, Uids
    <3> QED
      BY <1>1, <3>1, <3>2, AccountedKept DEF SweepOf
  <2> QED
    BY <2>1, <2>2
<1> QED
  BY <1>1, <1>2, <1>3 DEF SweepOf

\* A worker that gave up on its next message, counted as an error.
LEMMA SweepSkipped ==
  ASSUME TypeOK, CommittedKept, UNCHANGED kind, NEW w \in Workers, TransactionKept(w), SweepOf(w),
         NEW n \in Uids, IsNext(w, n), Skip(w, n), pc'[w] = "loop", Accounted(w, n)'
  PROVE  SweepOf(w)'
<1>1. Fetched(w)' = Fetched(w) /\ todo'[w] = todo[w] \ {n} /\ highest'[w] = highest[w]
  BY DEF TypeOK, Skip, Fetched, IsNext
<1> QED
  BY <1>1, AccountedKept DEF SweepOf

LEMMA CoverInvariant ==
  ASSUME Limit >= MaxUid
  PROVE  Spec => []CoverInv
<1>1. Init => CoverInv
  BY DEF Init, CoverInv, WatermarkCovered, SweepOf, Fetched, Uids
<1>2. CoverInv /\ RowInv /\ RowInv' /\ [Next]_vars => CoverInv'
  <2> SUFFICES ASSUME CoverInv, RowInv, RowInv', [Next]_vars
               PROVE  CoverInv'
    OBVIOUS
  <2>0. TypeOK /\ TypeOK' /\ RowMatchesPlace /\ WatermarkCovered /\ \A w \in Workers : SweepOf(w)
    BY DEF CoverInv, RowInv
  <2> USE DEF mailVars, asideVars, dbVars, memVars, Expire, Refresh
  \* Only the step that completes a scan moves the watermark, and only the
  \* worker that takes a step is disturbed by it.
  <2>1. ASSUME CommittedKept, UNCHANGED <<kind, watermark>>
        PROVE  WatermarkCovered'
    BY <2>0, <2>1, StoredKept DEF WatermarkCovered, TypeOK, Uids
  <2>2. ASSUME NEW w \in Workers, CommittedKept, UNCHANGED kind,
               \A x \in Workers \ {w} :
                 /\ row'[x] = row[x] /\ pc'[x] = pc[x] /\ loaded'[x] = loaded[x] /\ highest'[x] = highest[x]
                 /\ todo'[x] = todo[x] /\ processed'[x] = processed[x] /\ errors'[x] = errors[x]
        PROVE  \A x \in Workers \ {w} : SweepOf(x)'
    <3> SUFFICES ASSUME NEW x \in Workers \ {w} PROVE SweepOf(x)'
      OBVIOUS
    <3>1. TransactionKept(x)
      BY <2>2 DEF TransactionKept
    <3> QED
      BY <2>0, <2>2, <3>1, SweepKept
  <2>3. CASE Arrive \/ UNCHANGED vars
    <3>1. /\ CommittedKept /\ \A w \in Workers : TransactionKept(w)
          /\ UNCHANGED <<kind, watermark, memVars>>
      BY <2>3 DEF Arrive, vars, CommittedKept, TransactionKept
    <3>2. \A w \in Workers : SweepOf(w)'
      BY <2>0, <3>1, SweepKept
    <3> QED
      BY <2>1, <3>1, <3>2 DEF CoverInv
  <2>4. CASE Crash
    <3>1. CommittedKept /\ UNCHANGED <<kind, watermark>>
      BY <2>0, <2>4 DEF Crash, CommittedKept, Committed, AfterRollback
    <3>2. \A w \in Workers : Fetched(w)' = {} /\ highest'[w] = 0 /\ pc'[w] = "idle"
      BY <2>4 DEF Crash, Fetched
    <3> QED
      BY <2>1, <3>1, <3>2 DEF CoverInv, SweepOf, Uids
  <2>5. ASSUME NEW w \in Workers, StartScan(w) \/ Connect(w)
        PROVE  CoverInv'
    <3>1. /\ CommittedKept /\ \A x \in Workers : TransactionKept(x)
          /\ UNCHANGED <<kind, watermark, row, todo, processed, errors, highest>>
      BY <2>5 DEF StartScan, Connect, CommittedKept, TransactionKept
    <3>2. /\ \A x \in Workers \ {w} : pc'[x] = pc[x] /\ loaded'[x] = loaded[x]
          /\ pc[w] \in {"idle", "connect"} /\ pc'[w] \in {"connect", "fetch"}
          /\ pc'[w] = "fetch" => loaded'[w] = watermark
      BY <2>0, <2>5 DEF StartScan, Connect, Goto, TypeOK
    <3>3. Fetched(w)' = {} /\ highest'[w] = 0
      BY <2>0, <3>1, <3>2 DEF SweepOf, Fetched
    <3>4. pc'[w] = "fetch" => \A u \in Uids : u <= loaded'[w] => Accounted(w, u)'
      BY <2>0, <3>1, <3>2, StoredKept DEF WatermarkCovered, Accounted, Uids, TypeOK
    <3>5. SweepOf(w)'
      BY <3>2, <3>3, <3>4 DEF SweepOf, Uids
    <3> QED
      BY <2>1, <2>2, <3>1, <3>2, <3>5 DEF CoverInv
  <2>6. ASSUME NEW w \in Workers, Fetch(w)
        PROVE  CoverInv'
    <3>1. /\ CommittedKept /\ TransactionKept(w)
          /\ UNCHANGED <<kind, watermark, row, loaded, processed, errors, highest>>
      BY <2>6 DEF Fetch, CommittedKept, TransactionKept
    <3>2. /\ \A x \in Workers \ {w} : pc'[x] = pc[x] /\ todo'[x] = todo[x]
          /\ pc[w] = "fetch" /\ pc'[w] = "begin"
          /\ todo'[w] = {u \in 1..arrived : u > loaded[w]}
      BY <2>0, <2>6, ScanAssumption DEF Fetch, ToFetch, Goto, Newest, TypeOK
    <3>3. processed[w] = {} /\ errors[w] = {} /\ highest[w] = 0
      BY <2>0, <3>2 DEF SweepOf, Fetched
    <3>4. ASSUME NEW u \in Uids, NEW v \in Fetched(w)', u <= v
          PROVE  u \in todo'[w] \/ Accounted(w, u)'
      <4>1. v \in 1..arrived
        BY <3>1, <3>2, <3>3 DEF Fetched
      <4>2. CASE u > loaded[w]
        BY <2>0, <3>2, <3>4, <4>1, <4>2 DEF Uids, TypeOK
      <4>3. CASE ~ (u > loaded[w])
        <5>1. u <= loaded[w]
          BY <2>0, <4>3, ScanAssumption DEF Uids, TypeOK, Expired
        <5> QED
          BY <2>0, <3>1, <3>2, <5>1, AccountedKept DEF SweepOf
      <4> QED
        BY <4>2, <4>3
    <3>5. SweepOf(w)'
      BY <3>1, <3>2, <3>3, <3>4 DEF SweepOf, Uids
    <3> QED
      BY <2>1, <2>2, <3>1, <3>2, <3>5 DEF CoverInv
  <2>7. ASSUME NEW w \in Workers, FailScan(w)
        PROVE  CoverInv'
    <3>1. CommittedKept /\ UNCHANGED <<kind, watermark, row>> /\ Leave(w)
      BY <2>7 DEF FailScan, CommittedKept
    <3> QED
      BY <2>0, <2>1, <2>2, <3>1, SweepLeft DEF CoverInv, Leave, Goto, TypeOK
  <2>8. ASSUME NEW w \in Workers, BeginAnalysis(w)
        PROVE  CoverInv'
    <3>1. CommittedKept /\ TransactionKept(w) /\ UNCHANGED <<kind, watermark, row, todo, processed, errors>>
      BY <2>8 DEF BeginAnalysis, CommittedKept, TransactionKept
    <3>2. /\ \A x \in Workers \ {w} : pc'[x] = pc[x] /\ loaded'[x] = loaded[x] /\ highest'[x] = highest[x]
          /\ pc'[w] = "loop" /\ highest'[w] = watermark
      BY <2>0, <2>8 DEF BeginAnalysis, Goto, TypeOK
    <3>3. \A u \in Uids, v \in Fetched(w)' : u <= v => u \in todo'[w] \/ Accounted(w, u)'
      BY <2>0, <3>1, AccountedKept DEF SweepOf, Fetched
    <3>4. \A u \in Uids : u <= highest'[w] => Accounted(w, u)'
      BY <2>0, <3>1, <3>2, StoredKept DEF WatermarkCovered, Accounted, Uids, TypeOK
    <3>5. SweepOf(w)'
      BY <3>2, <3>3, <3>4 DEF SweepOf
    <3> QED
      BY <2>1, <2>2, <3>1, <3>2, <3>5 DEF CoverInv
  <2>9. ASSUME NEW w \in Workers, Finish(w)
        PROVE  CoverInv'
    <3>1. CommittedKept /\ UNCHANGED kind /\ Leave(w)
      BY <2>0, <2>9 DEF Finish, CommittedKept, Committed, AfterCommit, TypeOK
    <3>2. \A x \in Workers \ {w} : row'[x] = row[x]
      BY <2>0, <2>9 DEF Finish, TypeOK
    <3>3. \A k : Holds(w, k) => Stored(k)'
      BY <2>0, <2>9 DEF Finish, Holds, Stored, Committed, AfterCommit, TypeOK
    <3>4. ASSUME NEW u \in 1..watermark'
          PROVE  Stored(KeyOf[u])' \/ kind'[u] = "unparsable"
      <4>1. u \in Uids
        BY <2>0, ScanAssumption DEF TypeOK, Uids
      <4>2. CASE watermark' = watermark
        BY <2>0, <3>1, <4>2, StoredKept DEF WatermarkCovered
      <4>3. CASE watermark' = highest[w]
        <5>1. Accounted(w, u)
          BY <2>0, <4>1, <4>3 DEF SweepOf, Uids
        <5> QED
          BY <3>1, <3>3, <5>1, StoredKept DEF Accounted
      <4> QED
        BY <2>9, <4>2, <4>3 DEF Finish, NewWatermark
    <3> QED
      BY <2>0, <2>2, <3>1, <3>2, <3>4, SweepLeft DEF CoverInv, WatermarkCovered, Leave, Goto, TypeOK
  <2>10. ASSUME NEW w \in Workers, NEW u \in Uids, Process(w, u)
         PROVE  CoverInv'
    <3> USE DEF TypeOK
    \* What each case shows: which worker moved, and that nothing is lost.
    <3>0. ASSUME CommittedKept, UNCHANGED <<kind, watermark>>, SweepOf(w)',
                 \A x \in Workers \ {w} :
                   /\ row'[x] = row[x] /\ pc'[x] = pc[x] /\ loaded'[x] = loaded[x]
                   /\ todo'[x] = todo[x] /\ processed'[x] = processed[x]
                   /\ errors'[x] = errors[x] /\ highest'[x] = highest[x]
          PROVE  CoverInv'
      BY <2>1, <2>2, <3>0 DEF CoverInv
    <3>1. CASE ParseError(w, u)
      <4>1. /\ CommittedKept /\ TransactionKept(w) /\ UNCHANGED <<kind, watermark, row, pc, loaded>>
            /\ IsNext(w, u) /\ Skip(w, u) /\ pc'[w] = "loop" /\ Accounted(w, u)'
        BY <3>1 DEF ParseError, CommittedKept, TransactionKept, Accounted
      <4> QED
        BY <2>0, <3>0, <4>1, SweepSkipped DEF Skip
    <3>2. CASE SkipDuplicate(w, u)
      <4>1. /\ CommittedKept /\ TransactionKept(w) /\ UNCHANGED <<kind, watermark, row, pc>>
            /\ \A x \in Workers \ {w} : loaded'[x] = loaded[x]
            /\ IsNext(w, u) /\ Succeed(w, u) /\ pc'[w] = "loop" /\ Accounted(w, u)
        BY <2>0, <3>2 DEF SkipDuplicate, CommittedKept, TransactionKept, Accounted
      <4>2. Accounted(w, u)'
        BY <4>1, AccountedKept
      <4> QED
        BY <2>0, <3>0, <4>1, <4>2, SweepSucceeded DEF Succeed
    <3>3. CASE MissDuplicate(w, u) \/ Insert(w, u)
      <4>1. /\ UNCHANGED <<kind, watermark, todo, processed, errors, highest>>
            /\ pc[w] \in {"loop", "insert"} /\ pc'[w] \in {"insert", "judge"}
            /\ \A x \in Workers \ {w} : pc'[x] = pc[x] /\ loaded'[x] = loaded[x] /\ row'[x] = row[x]
        BY <2>0, <3>3 DEF MissDuplicate, Insert, Goto
      <4>2. \A v \in Uids : row'[w][v] = row[w][v] \/ (v = u /\ row'[w][v] = "pending")
        BY <2>0, <3>3 DEF MissDuplicate, Insert
      <4>3. row[w][u] # "pending" /\ ~ Committed(row[w][u])
        BY <2>0, <3>3 DEF MissDuplicate, Insert, Stored, Holds, RowMatchesPlace
      <4>4. CommittedKept /\ TransactionKept(w)
        BY <4>1, <4>2, <4>3 DEF CommittedKept, TransactionKept, Committed
      <4>5. SweepOf(w)'
        BY <2>0, <4>1, <4>4, SweepKept
      <4> QED
        BY <3>0, <4>1, <4>4, <4>5
    <3>4. CASE InsertRejected(w, u) \/ CommitRejected(w, u) \/ PolicyAborts(w, u)
      <4>1. Abort(w)
        BY <3>4 DEF InsertRejected, CommitRejected, PolicyAborts
      <4>2. CommittedKept /\ Leave(w) /\ UNCHANGED <<kind, watermark>>
        BY <2>0, <4>1 DEF Abort, CommittedKept, Committed, AfterRollback
      <4>3. \A x \in Workers \ {w} : row'[x] = row[x]
        BY <2>0, <4>1 DEF Abort
      <4> QED
        BY <2>0, <3>0, <4>2, <4>3, SweepLeft DEF Leave, Goto
    <3>5. CASE LinkError(w, u)
      <4>1. /\ CommittedKept /\ TransactionKept(w) /\ UNCHANGED <<kind, watermark, row>>
            /\ \A x \in Workers \ {w} : pc'[x] = pc[x] /\ loaded'[x] = loaded[x]
            /\ IsNext(w, u) /\ Skip(w, u) /\ pc'[w] = "loop" /\ row[w][u] = "pending"
        BY <2>0, <3>5 DEF LinkError, Goto, CommittedKept, TransactionKept, RowMatchesPlace
      <4>2. Accounted(w, u)'
        BY <4>1 DEF Accounted, Holds
      <4> QED
        BY <2>0, <3>0, <4>1, <4>2, SweepSkipped DEF Skip
    <3>6. CASE CommitWhitelisted(w, u)
      <4>1. /\ IsNext(w, u) /\ row[w][u] # "none" /\ Succeed(w, u) /\ UNCHANGED <<kind, watermark>>
            /\ \A x \in Workers \ {w} : pc'[x] = pc[x]
            /\ pc'[w] = "loop"
        BY <2>0, <3>6 DEF CommitWhitelisted, RowMatchesPlace, Goto, TypeOK
      <4>2. /\ \A x \in Workers \ {w} : row'[x] = row[x] /\ loaded'[x] = loaded[x]
            /\ \A v \in Uids : row[w][v] # "none" => Committed(row'[w][v])
        BY <2>0, <3>6, <4>1 DEF CommitWhitelisted, CommitAs, AfterCommit, Committed, TypeOK
      <4>3. CommittedKept /\ TransactionKept(w) /\ Accounted(w, u)'
        BY <4>1, <4>2 DEF CommittedKept, TransactionKept, Committed, Accounted, Stored
      <4> QED
        BY <2>0, <3>0, <4>1, <4>2, <4>3, SweepSucceeded DEF Succeed
    <3>7. CASE ExecutePolicy(w, u)
      <4>1. /\ IsNext(w, u) /\ row[w][u] # "none" /\ Succeed(w, u) /\ UNCHANGED <<kind, watermark>>
            /\ \A x \in Workers \ {w} : pc'[x] = pc[x]
            /\ pc'[w] = "loop"
        BY <2>0, <3>7 DEF ExecutePolicy, RowMatchesPlace, Goto, TypeOK
      <4>2. /\ \A x \in Workers \ {w} : row'[x] = row[x] /\ loaded'[x] = loaded[x]
            /\ \A v \in Uids : row[w][v] # "none" => Committed(row'[w][v])
        BY <2>0, <3>7, <4>1 DEF ExecutePolicy, CommitAs, AfterCommit, Committed, TypeOK
      <4>3. CommittedKept /\ TransactionKept(w) /\ Accounted(w, u)'
        BY <4>1, <4>2 DEF CommittedKept, TransactionKept, Committed, Accounted, Stored
      <4> QED
        BY <2>0, <3>0, <4>1, <4>2, <4>3, SweepSucceeded DEF Succeed
    <3>8. CASE CommitAnalysis(w, u)
      <4>1. /\ UNCHANGED <<kind, watermark, todo, processed, errors, highest>>
            /\ \A x \in Workers \ {w} : pc'[x] = pc[x] /\ loaded'[x] = loaded[x] /\ row'[x] = row[x]
            /\ pc[w] = "judge" /\ pc'[w] = "policy"
            /\ \A v \in Uids : row[w][v] # "none" => Committed(row'[w][v])
        BY <2>0, <3>8 DEF CommitAnalysis, CommitAs, AfterCommit, Committed, Goto
      <4>2. CommittedKept /\ TransactionKept(w)
        BY <4>1 DEF CommittedKept, TransactionKept, Committed
      <4>3. SweepOf(w)'
        BY <2>0, <4>1, <4>2, SweepKept
      <4> QED
        BY <3>0, <4>1, <4>2, <4>3
    <3>9. CASE OutcomeRejected(w, u)
      <4>1. /\ row[w][u] = "analysed" /\ Leave(w) /\ UNCHANGED <<kind, watermark>>
            /\ CommitAs(w, u, "handled")
        BY <2>0, <3>9 DEF OutcomeRejected, RowMatchesPlace
      <4>2. CommittedKept /\ \A x \in Workers \ {w} : row'[x] = row[x]
        BY <2>0, <4>1 DEF CommitAs, CommittedKept, Committed, AfterCommit
      <4> QED
        BY <2>0, <3>0, <4>1, <4>2, SweepLeft DEF Leave, Goto
    <3> QED
      BY <2>10, <3>1, <3>2, <3>3, <3>4, <3>5, <3>6, <3>7, <3>8, <3>9 DEF Process
  <2> QED
    BY <2>3, <2>4, <2>5, <2>6, <2>7, <2>8, <2>9, <2>10 DEF Next, Advance
<1> QED
  BY <1>1, <1>2, RowInvariant, PTL DEF Spec

\* With a backlog that fits in one listing, the watermark passes a message only
\* when a scan has stored it or could not parse it.
THEOREM WatermarkIsCovered ==
  ASSUME Limit >= MaxUid
  PROVE  Spec => []WatermarkCovered
<1>1. CoverInv => WatermarkCovered
  BY DEF CoverInv
<1> QED
  BY <1>1, CoverInvariant, PTL

-----------------------------------------------------------------------------
WorkerStep(w) == StartScan(w) \/ Connect(w) \/ Fetch(w) \/ FailScan(w) \/ Advance(w)

\* A worker's step leaves the rows, the job and the memory of the others alone.
LEMMA OthersUntouched ==
  ASSUME TypeOK, NEW w \in Workers, WorkerStep(w)
  PROVE  /\ UNCHANGED <<kind, crashes>>
         /\ \A x \in Workers \ {w} :
              /\ row'[x] = row[x] /\ pc'[x] = pc[x] /\ status'[x] = status[x] /\ highest'[x] = highest[x]
              /\ todo'[x] = todo[x] /\ loaded'[x] = loaded[x]
<1> USE DEF TypeOK, mailVars, asideVars, dbVars, memVars, Goto, Leave, Expire, Refresh, CommitAs
<1>1. CASE StartScan(w) \/ Connect(w) \/ Fetch(w) \/ FailScan(w) \/ BeginAnalysis(w) \/ Finish(w)
  BY <1>1 DEF StartScan, Connect, Fetch, FailScan, BeginAnalysis, Finish
<1>2. ASSUME NEW u \in Uids, ParseError(w, u) \/ SkipDuplicate(w, u) \/ MissDuplicate(w, u) \/ LinkError(w, u)
      PROVE  /\ UNCHANGED <<kind, crashes>>
             /\ \A x \in Workers \ {w} :
                  /\ row'[x] = row[x] /\ pc'[x] = pc[x] /\ status'[x] = status[x] /\ highest'[x] = highest[x]
                  /\ todo'[x] = todo[x] /\ loaded'[x] = loaded[x]
  BY <1>2 DEF ParseError, SkipDuplicate, MissDuplicate, LinkError, Skip, Succeed
<1>3. ASSUME NEW u \in Uids, Insert(w, u) \/ InsertRejected(w, u) \/ CommitRejected(w, u) \/ PolicyAborts(w, u)
      PROVE  /\ UNCHANGED <<kind, crashes>>
             /\ \A x \in Workers \ {w} :
                  /\ row'[x] = row[x] /\ pc'[x] = pc[x] /\ status'[x] = status[x] /\ highest'[x] = highest[x]
                  /\ todo'[x] = todo[x] /\ loaded'[x] = loaded[x]
  BY <1>3 DEF Insert, InsertRejected, CommitRejected, PolicyAborts, Abort
<1>4. ASSUME NEW u \in Uids,
             CommitWhitelisted(w, u) \/ CommitAnalysis(w, u) \/ ExecutePolicy(w, u) \/ OutcomeRejected(w, u)
      PROVE  /\ UNCHANGED <<kind, crashes>>
             /\ \A x \in Workers \ {w} :
                  /\ row'[x] = row[x] /\ pc'[x] = pc[x] /\ status'[x] = status[x] /\ highest'[x] = highest[x]
                  /\ todo'[x] = todo[x] /\ loaded'[x] = loaded[x]
  BY <1>4 DEF CommitWhitelisted, CommitAnalysis, ExecutePolicy, OutcomeRejected, Succeed
<1> QED
  BY <1>1, <1>2, <1>3, <1>4 DEF WorkerStep, Advance, Process

\* Nothing but the commit of an analysis makes a row analysed.
LEMMA AnalysedBy ==
  ASSUME TypeOK, NEW w \in Workers, WorkerStep(w), NEW v \in Uids,
         row[w][v] # "analysed", row'[w][v] = "analysed"
  PROVE  \E u \in Uids : CommitAnalysis(w, u)
<1> USE DEF TypeOK, mailVars, asideVars, dbVars, memVars
<1>1. ~ (StartScan(w) \/ Connect(w) \/ Fetch(w) \/ FailScan(w) \/ BeginAnalysis(w))
  BY DEF StartScan, Connect, Fetch, FailScan, BeginAnalysis
<1>2. ~ Finish(w)
  BY DEF Finish, AfterCommit
<1>3. ASSUME NEW u \in Uids
      PROVE  ~ (ParseError(w, u) \/ SkipDuplicate(w, u) \/ MissDuplicate(w, u) \/ LinkError(w, u) \/ Insert(w, u))
  <2>1. ~ (ParseError(w, u) \/ SkipDuplicate(w, u) \/ MissDuplicate(w, u) \/ LinkError(w, u))
    BY DEF ParseError, SkipDuplicate, MissDuplicate, LinkError
  <2>2. ~ Insert(w, u)
    BY DEF Insert
  <2> QED
    BY <2>1, <2>2
<1>4. ASSUME NEW u \in Uids PROVE ~ (InsertRejected(w, u) \/ CommitRejected(w, u) \/ PolicyAborts(w, u))
  BY DEF InsertRejected, CommitRejected, PolicyAborts, Abort, AfterRollback
<1>5. ASSUME NEW u \in Uids PROVE ~ (CommitWhitelisted(w, u) \/ ExecutePolicy(w, u) \/ OutcomeRejected(w, u))
  <2>1. ASSUME NEW s \in {"whitelisted", "handled"}, CommitAs(w, u, s) PROVE FALSE
    BY <2>1 DEF CommitAs, AfterCommit
  <2> QED
    BY <2>1 DEF CommitWhitelisted, ExecutePolicy, OutcomeRejected
<1> QED
  BY <1>1, <1>2, <1>3, <1>4, <1>5 DEF WorkerStep, Advance, Process

\* Only the worker that committed an analysis makes a row analysed, and from
\* the policy it only goes on by executing it, unless a write of the policy is
\* one that the database rejects.
THEOREM AnalysedIsAlwaysInFlight == Spec => []AnalysedIsInFlight
<1>1. Init => AnalysedIsInFlight
  BY DEF Init, AnalysedIsInFlight
<1>2. RowInv /\ AnalysedIsInFlight /\ [Next]_vars => AnalysedIsInFlight'
  <2> SUFFICES ASSUME RowInv, AnalysedIsInFlight, [Next]_vars, ~ (crashes' > 0),
                      NEW x \in Workers, NEW v \in Uids, row'[x][v] = "analysed", kind'[v] # "unhandled"
               PROVE  pc'[x] = "policy" /\ IsNext(x, v)'
    BY DEF AnalysedIsInFlight
  <2> USE DEF TypeOK, mailVars, asideVars, dbVars, memVars, Goto
  <2>0. TypeOK /\ RowMatchesPlace
    BY DEF RowInv
  <2>1. CASE Arrive \/ UNCHANGED vars
    BY <2>1 DEF Arrive, vars, AnalysedIsInFlight, IsNext
  <2>2. ASSUME ~ (crashes > 0), row[x][v] = "analysed", kind[v] # "unhandled"
        PROVE  pc[x] = "policy" /\ IsNext(x, v)
    BY <2>2 DEF AnalysedIsInFlight
  <2>3. ~ Crash
    BY <2>0, ScanAssumption DEF Crash
  <2>4. ASSUME NEW w \in Workers, WorkerStep(w) PROVE pc'[x] = "policy" /\ IsNext(x, v)'
    <3>1. CASE x # w
      BY <2>0, <2>2, <2>4, <3>1, OthersUntouched DEF IsNext
    <3>2. CASE x = w
      <4>1. ~ (crashes > 0) /\ kind[v] # "unhandled"
        BY <2>0, <2>4, OthersUntouched
      <4>2. CASE row[x][v] = "analysed"
        <5>1. pc[w] = "policy" /\ IsNext(w, v) /\ row[w][v] = "analysed"
          BY <2>2, <3>2, <4>1, <4>2
        <5>2. PICK u \in Uids : ExecutePolicy(w, u) \/ PolicyAborts(w, u) \/ OutcomeRejected(w, u)
          BY <2>4, <5>1 DEF WorkerStep, StartScan, Connect, Fetch, FailScan, Advance, BeginAnalysis, Finish, Process,
             ParseError, SkipDuplicate, MissDuplicate, Insert, InsertRejected, LinkError, CommitWhitelisted,
             CommitAnalysis, CommitRejected
        <5>3. u = v /\ ExecutePolicy(w, u)
          BY <2>0, <4>1, <5>1, <5>2 DEF ExecutePolicy, PolicyAborts, OutcomeRejected, IsNext, Uids
        <5>4. row'[w][v] = "handled"
          BY <2>0, <5>3 DEF ExecutePolicy, CommitAs
        <5> QED
          BY <3>2, <5>4
      <4>3. CASE row[x][v] # "analysed"
        <5>1. PICK u \in Uids : CommitAnalysis(w, u)
          BY <2>0, <2>4, <3>2, <4>3, AnalysedBy
        <5>2. u = v
          BY <2>0, <3>2, <4>3, <5>1 DEF CommitAnalysis, CommitAs, AfterCommit
        <5> QED
          BY <2>0, <3>2, <5>1, <5>2 DEF CommitAnalysis, IsNext
      <4> QED
        BY <4>2, <4>3
    <3> QED
      BY <3>1, <3>2
  <2> QED
    BY <2>1, <2>3, <2>4 DEF Next, WorkerStep
<1> QED
  BY <1>1, <1>2, RowInvariant, PTL DEF Spec
-----------------------------------------------------------------------------
\* No waiting in circles.  A row that is open was flushed for a message before
\* the one its session is about, and no earlier message with its key could have
\* been stored: the session that waits for the key is about that very message,
\* and the session that has it is about a later one.  That needs keys that are
\* never repeated, or scans that list the whole backlog: a session that lists
\* only newer copies can hold what an older message of another session needs.
KeysDiffer == \A u, v \in Uids : KeyOf[u] = KeyOf[v] => u = v

OpenRows ==
  \A w \in Workers, v \in Uids : row[w][v] = "pending" =>
    /\ pc[w] \in {"loop", "insert", "judge"}
    /\ \A n \in todo[w] : v < n \/ (v = n /\ pc[w] = "judge")
    /\ \A u \in Uids : u < v /\ KeyOf[u] = KeyOf[v] => kind[u] = "unparsable"
\* When a session flushes a row, no earlier message with the key could have
\* been stored.
LEMMA NoEarlierCopy ==
  ASSUME RowInv, KeysDiffer \/ CoverInv, NEW w \in Workers, NEW n \in Uids, Insert(w, n),
         NEW u \in Uids, u < n, KeyOf[u] = KeyOf[n]
  PROVE  kind[u] = "unparsable"
<1>1. CASE KeysDiffer
  BY <1>1 DEF KeysDiffer, Uids
<1>2. CASE CoverInv
  <2>1. n \in todo[w] /\ u \notin todo[w] /\ u <= n
    BY DEF Insert, IsNext, Uids
  <2>2. Accounted(w, u)
    BY <1>2, <2>1 DEF CoverInv, SweepOf, Fetched
  <2> QED
    BY <2>2 DEF Accounted, Insert, RowInv, RowMatchesPlace
<1> QED
  BY <1>1, <1>2

\* A step of w that flushes nothing, leaves w with at most the messages it had,
\* and does not leave a row open where no message is under way.
LEMMA OpenRowsKept ==
  ASSUME RowInv, OpenRows, UNCHANGED kind, NEW w \in Workers,
         \A x \in Workers \ {w} : row'[x] = row[x] /\ pc'[x] = pc[x] /\ todo'[x] = todo[x],
         \A v \in Uids : row'[w][v] = "pending" =>
           /\ row[w][v] = "pending"
           /\ pc'[w] \in {"loop", "insert", "judge"}
           /\ \A n \in todo'[w] : n \in todo[w] /\ (v # n \/ pc'[w] = "judge")
  PROVE  OpenRows'
<1> SUFFICES ASSUME NEW x \in Workers, NEW v \in Uids, row'[x][v] = "pending"
             PROVE  /\ pc'[x] \in {"loop", "insert", "judge"}
                    /\ \A n \in todo'[x] : v < n \/ (v = n /\ pc'[x] = "judge")
                    /\ \A u \in Uids : u < v /\ KeyOf[u] = KeyOf[v] => kind[u] = "unparsable"
  BY DEF OpenRows
<1>1. CASE x = w
  BY <1>1 DEF OpenRows
<1>2. CASE x # w
  BY <1>2 DEF OpenRows
<1> QED
  BY <1>1, <1>2

LEMMA OpenInvariant ==
  ASSUME KeysDiffer \/ Limit >= MaxUid
  PROVE  Spec => []OpenRows
<1>1. Init => OpenRows
  BY DEF Init, OpenRows
<1>2. RowInv /\ (KeysDiffer \/ CoverInv) /\ OpenRows /\ [Next]_vars => OpenRows'
  <2> SUFFICES ASSUME RowInv, KeysDiffer \/ CoverInv, OpenRows, [Next]_vars PROVE OpenRows'
    OBVIOUS
  <2>0. TypeOK /\ RowMatchesPlace
    BY DEF RowInv
  <2> USE DEF TypeOK, mailVars, asideVars, dbVars, memVars, Goto, Leave
  <2>1. CASE Arrive \/ UNCHANGED vars
    BY <2>1 DEF Arrive, vars, OpenRows
  <2>2. CASE Crash
    BY <2>0, <2>2 DEF Crash, AfterRollback, OpenRows
  <2>3. ASSUME NEW w \in Workers, StartScan(w) \/ Connect(w) \/ Fetch(w) \/ FailScan(w) \/ BeginAnalysis(w)
        PROVE  OpenRows'
    <3>1. UNCHANGED row /\ pc[w] \in {"idle", "connect", "fetch", "begin"}
      BY <2>3 DEF StartScan, Connect, Fetch, FailScan, BeginAnalysis
    <3>2. \A v \in Uids : row'[w][v] # "pending"
      BY <3>1 DEF OpenRows
    <3> QED
      BY <2>0, <2>3, <3>2, OthersUntouched, OpenRowsKept DEF WorkerStep, Advance
  <2>4. ASSUME NEW w \in Workers, Finish(w) PROVE OpenRows'
    <3>1. \A v \in Uids : row'[w][v] # "pending"
      BY <2>0, <2>4 DEF Finish, AfterCommit
    <3> QED
      BY <2>0, <2>4, <3>1, OthersUntouched, OpenRowsKept DEF WorkerStep, Advance
  <2>5. ASSUME NEW w \in Workers, NEW u \in Uids, Process(w, u) PROVE OpenRows'
    <3>0. UNCHANGED kind /\ \A x \in Workers \ {w} : row'[x] = row[x] /\ pc'[x] = pc[x] /\ todo'[x] = todo[x]
      BY <2>0, <2>5, OthersUntouched DEF WorkerStep, Advance
    <3>1. CASE ParseError(w, u) \/ SkipDuplicate(w, u) \/ MissDuplicate(w, u) \/ LinkError(w, u)
      <4>1. UNCHANGED row /\ todo'[w] \subseteq todo[w]
        BY <2>0, <3>1 DEF ParseError, SkipDuplicate, MissDuplicate, LinkError, Skip, Succeed
      <4>2. pc'[w] \in {"loop", "insert"} /\ (pc[w] = "judge" => u \notin todo'[w] /\ IsNext(w, u))
        BY <2>0, <3>1 DEF ParseError, SkipDuplicate, MissDuplicate, LinkError, Skip, Succeed
      <4>3. ASSUME NEW v \in Uids, row[w][v] = "pending", NEW n \in todo'[w] PROVE v # n
        BY <2>0, <4>1, <4>2, <4>3 DEF OpenRows, IsNext, Uids
      <4> QED
        BY <3>0, <4>1, <4>2, <4>3, OpenRowsKept
    <3>2. CASE Insert(w, u)
      <4>1. /\ \A v \in Uids : row'[w][v] = IF v = u THEN "pending" ELSE row[w][v]
            /\ pc[w] = "insert" /\ pc'[w] = "judge" /\ todo'[w] = todo[w]
            /\ \A n \in todo[w] : u <= n
        BY <2>0, <3>2 DEF Insert, IsNext
      <4>2. SUFFICES ASSUME NEW x \in Workers, NEW v \in Uids, row'[x][v] = "pending"
                     PROVE  /\ pc'[x] \in {"loop", "insert", "judge"}
                            /\ \A n \in todo'[x] : v < n \/ (v = n /\ pc'[x] = "judge")
                            /\ \A k \in Uids : k < v /\ KeyOf[k] = KeyOf[v] => kind[k] = "unparsable"
        BY <3>0 DEF OpenRows
      <4>3. CASE x = w /\ v = u
        BY <2>0, <3>2, <4>1, <4>3, NoEarlierCopy DEF Uids
      <4>4. CASE x # w \/ v # u
        BY <3>0, <4>1, <4>2, <4>4 DEF OpenRows
      <4> QED
        BY <4>3, <4>4
    <3>3. CASE InsertRejected(w, u) \/ CommitRejected(w, u) \/ PolicyAborts(w, u)
      <4>1. row' = [row EXCEPT ![w] = [v \in Uids |-> AfterRollback(row[w][v])]]
        BY <3>3 DEF InsertRejected, CommitRejected, PolicyAborts, Abort
      <4>2. \A v \in Uids : row'[w][v] # "pending"
        BY <2>0, <4>1 DEF AfterRollback
      <4> QED
        BY <3>0, <4>2, OpenRowsKept
    <3>4. CASE CommitWhitelisted(w, u) \/ CommitAnalysis(w, u) \/ ExecutePolicy(w, u) \/ OutcomeRejected(w, u)
      <4>1. \E s \in {"whitelisted", "analysed", "handled"} : CommitAs(w, u, s)
        BY <3>4 DEF CommitWhitelisted, CommitAnalysis, ExecutePolicy, OutcomeRejected
      <4>2. \A v \in Uids : row'[w][v] # "pending"
        BY <2>0, <4>1 DEF CommitAs, AfterCommit
      <4> QED
        BY <3>0, <4>2, OpenRowsKept
    <3> QED
      BY <2>5, <3>1, <3>2, <3>3, <3>4 DEF Process
  <2> QED
    BY <2>1, <2>2, <2>3, <2>4, <2>5 DEF Next, Advance
<1>3. CASE KeysDiffer
  BY <1>1, <1>2, <1>3, RowInvariant, PTL DEF Spec
<1>4. CASE Limit >= MaxUid
  BY <1>1, <1>2, <1>4, RowInvariant, CoverInvariant, PTL DEF Spec
<1> QED
  BY <1>3, <1>4
\* Only messages that were parsed are flushed.
ParsedOnly ==
  \A w \in Workers, u \in Uids :
    row[w][u] = "pending" \/ (pc[w] = "insert" /\ IsNext(w, u)) => kind[u] # "unparsable"

LEMMA ParsedInvariant == Spec => []ParsedOnly
<1>1. Init => ParsedOnly
  BY DEF Init, ParsedOnly
<1>2. TypeOK /\ ParsedOnly /\ [Next]_vars => ParsedOnly'
  <2> SUFFICES ASSUME TypeOK, ParsedOnly, [Next]_vars,
                      NEW x \in Workers, NEW v \in Uids,
                      row'[x][v] = "pending" \/ (pc'[x] = "insert" /\ IsNext(x, v)')
               PROVE  kind'[v] # "unparsable"
    BY DEF ParsedOnly
  <2> USE DEF TypeOK, mailVars, asideVars, dbVars, memVars, Goto, Leave
  <2>1. CASE Arrive \/ UNCHANGED vars
    BY <2>1 DEF Arrive, vars, ParsedOnly, IsNext
  <2>2. CASE Crash
    BY <2>2 DEF Crash, AfterRollback
  <2>3. ASSUME NEW w \in Workers, WorkerStep(w), x # w PROVE kind'[v] # "unparsable"
    BY <2>3, OthersUntouched DEF ParsedOnly, IsNext
  <2>4. CASE StartScan(x) \/ Connect(x) \/ Fetch(x) \/ FailScan(x) \/ BeginAnalysis(x)
    BY <2>4 DEF StartScan, Connect, Fetch, FailScan, BeginAnalysis, ParsedOnly
  <2>5. CASE Finish(x)
    BY <2>5 DEF Finish, AfterCommit
  <2>6. ASSUME NEW u \in Uids, Process(x, u) PROVE kind'[v] # "unparsable"
    <3>1. CASE ParseError(x, u) \/ SkipDuplicate(x, u) \/ LinkError(x, u)
      BY <3>1 DEF ParseError, SkipDuplicate, LinkError, Skip, Succeed, ParsedOnly
    <3>2. CASE MissDuplicate(x, u)
      <4>1. UNCHANGED <<kind, row, todo>> /\ IsNext(x, u) /\ kind[u] # "unparsable"
        BY <3>2 DEF MissDuplicate
      <4>2. IsNext(x, v)' => v = u
        BY <4>1 DEF IsNext, Uids
      <4> QED
        BY <4>1, <4>2 DEF ParsedOnly
    <3>3. CASE Insert(x, u)
      <4>1. UNCHANGED kind /\ pc'[x] = "judge" /\ row'[x][v] = (IF v = u THEN "pending" ELSE row[x][v])
        BY <3>3 DEF Insert
      <4> QED
        BY <3>3, <4>1 DEF Insert, ParsedOnly
    <3>4. CASE InsertRejected(x, u) \/ CommitRejected(x, u) \/ PolicyAborts(x, u)
      <4>1. /\ row' = [row EXCEPT ![x] = [n \in Uids |-> AfterRollback(row[x][n])]]
            /\ pc'[x] = "idle"
        BY <3>4 DEF InsertRejected, CommitRejected, PolicyAborts, Abort
      <4> QED
        BY <4>1 DEF AfterRollback
    <3>5. CASE CommitWhitelisted(x, u) \/ CommitAnalysis(x, u) \/ ExecutePolicy(x, u) \/ OutcomeRejected(x, u)
      <4>1. PICK s \in {"whitelisted", "analysed", "handled"} : CommitAs(x, u, s)
        BY <3>5 DEF CommitWhitelisted, CommitAnalysis, ExecutePolicy, OutcomeRejected
      <4>2. pc'[x] \in {"loop", "policy", "idle"}
        BY <3>5 DEF CommitWhitelisted, CommitAnalysis, ExecutePolicy, OutcomeRejected
      <4> QED
        BY <4>1, <4>2 DEF CommitAs, AfterCommit
    <3> QED
      BY <2>6, <3>1, <3>2, <3>3, <3>4, <3>5 DEF Process
  <2> QED
    BY <2>1, <2>2, <2>3, <2>4, <2>5, <2>6 DEF Next, WorkerStep, Advance
<1> QED
  BY <1>1, <1>2, TypeCorrect, PTL DEF Spec

\* Whoever waits is about an earlier message than the session it waits for.
LEMMA WaitsForLater ==
  ASSUME RowInv, OpenRows, ParsedOnly, KeysDiffer \/ CoverInv,
         NEW w \in Workers, NEW x \in Workers, NEW n \in Uids, NEW m \in Uids,
         WaitsFor(w, x), IsNext(w, n), IsNext(x, m), pc[x] = "insert"
  PROVE  n < m
<1>1. x # w /\ Holds(x, KeyOf[n])
  <2>1. PICK u \in todo[w] : IsNext(w, u) /\ Holds(x, KeyOf[u])
    BY DEF WaitsFor
  <2>2. u \in Uids
    BY <2>1 DEF RowInv, TypeOK
  <2>3. u = n
    BY <2>1, <2>2 DEF IsNext, Uids
  <2> QED
    BY <2>1, <2>3 DEF WaitsFor
<1>2. PICK v \in Uids : KeyOf[v] = KeyOf[n] /\ row[x][v] = "pending"
  BY <1>1 DEF Holds
<1>3. v < m
  BY <1>2 DEF OpenRows, IsNext
<1>4. ~ (v < n)
  <2> SUFFICES ASSUME v < n PROVE FALSE
    OBVIOUS
  <2>1. CASE KeysDiffer
    BY <1>2, <2>1 DEF KeysDiffer, Uids
  <2>2. CASE CoverInv
    <3>1. v \notin todo[w] /\ v <= n /\ n \in Fetched(w)
      BY DEF IsNext, Uids, Fetched
    <3>2. Accounted(w, v)
      BY <2>2, <3>1 DEF CoverInv, SweepOf
    <3>3. ~ Stored(KeyOf[v])
      BY <1>2 DEF RowInv, OneRowPerMessage, Stored, Committed
    <3>4. ~ Holds(w, KeyOf[v])
      BY <1>1, <1>2 DEF RowInv, OneRowPerMessage, Holds
    <3> QED
      BY <1>2, <3>2, <3>3, <3>4 DEF Accounted, ParsedOnly
  <2> QED
    BY <2>1, <2>2
<1> QED
  BY <1>3, <1>4 DEF Uids

\* Any set of message numbers has a greatest one.
LEMMA GreatestUid ==
  ASSUME NEW T \in SUBSET Uids, T # {}
  PROVE  \E m \in T : \A n \in T : n <= m
<1> DEFINE Below == {k \in Nat : MaxUid - k \in T}
<1>0. MaxUid \in Nat
  BY ScanAssumption
<1>1. Below # {}
  <2>1. PICK t \in T : t \in 1..MaxUid
    BY DEF Uids
  <2>2. MaxUid - t \in Nat /\ MaxUid - (MaxUid - t) = t
    BY <1>0, <2>1
  <2> QED
    BY <2>1, <2>2
<1>2. PICK k \in Below : \A j \in Below : <<j, k>> \notin OpToRel(<, Nat)
  <2> HIDE DEF Below
  <2>1. Below \subseteq Nat
    BY DEF Below
  <2> QED
    BY <1>1, <2>1, WFMin, NatLessThanWellFounded, Zenon
<1>3. \A j \in Below : ~ (j < k)
  BY <1>2, Zenon DEF OpToRel
<1>4. \A n \in T : n <= MaxUid - k
  <2> SUFFICES ASSUME NEW n \in T PROVE n <= MaxUid - k
    OBVIOUS
  <2>1. n \in 1..MaxUid /\ MaxUid - (MaxUid - n) = n /\ MaxUid - n \in Nat
    BY <1>0 DEF Uids
  <2> QED
    BY <1>0, <1>3, <2>1
<1> QED
  BY <1>4

\* In any set of workers one waits for none of them: the one among the waiting
\* that is about the latest message.
THEOREM WaitsNeverCycle ==
  ASSUME KeysDiffer \/ Limit >= MaxUid
  PROVE  Spec => []NoWaitCycle
<1>1. RowInv /\ OpenRows /\ ParsedOnly /\ (KeysDiffer \/ CoverInv) => NoWaitCycle
  <2> SUFFICES ASSUME RowInv, OpenRows, ParsedOnly, KeysDiffer \/ CoverInv,
                      NEW S \in SUBSET Workers, S # {}, \A w \in S : \E x \in S : WaitsFor(w, x)
               PROVE  FALSE
    BY DEF NoWaitCycle
  <2> DEFINE T == {n \in Uids : \E w \in S : IsNext(w, n)}
  <2>1. \A w \in S : pc[w] = "insert" /\ \E n \in Uids : IsNext(w, n)
    BY DEF WaitsFor, RowInv, TypeOK
  <2>2. PICK m \in T : \A n \in T : n <= m
    <3>1. T # {} /\ T \in SUBSET Uids
      BY <2>1
    <3> HIDE DEF T
    <3> QED
      BY <3>1, GreatestUid
  <2>3. PICK w \in S : IsNext(w, m)
    BY <2>2
  <2>4. PICK x \in S : WaitsFor(w, x)
    OBVIOUS
  <2>5. PICK n \in Uids : IsNext(x, n)
    BY <2>1
  <2>6. m \in Uids /\ n \in T
    BY <2>2, <2>5
  <2> HIDE DEF T
  <2>7. m < n
    BY <2>1, <2>3, <2>4, <2>5, <2>6, WaitsForLater
  <2> QED
    BY <2>2, <2>5, <2>6, <2>7 DEF Uids
<1>2. CASE KeysDiffer
  BY <1>1, <1>2, RowInvariant, OpenInvariant, ParsedInvariant, PTL
<1>3. CASE Limit >= MaxUid
  BY <1>1, <1>3, RowInvariant, OpenInvariant, ParsedInvariant, CoverInvariant, PTL
<1> QED
  BY <1>2, <1>3
-----------------------------------------------------------------------------
\* A scan that runs beside no other, nor ever did, has the database to itself.
Alone ==
  \A w \in Workers \ overlapped, x \in Workers : pc[w] # "idle" /\ x # w => pc[x] = "idle"

\* The dedup query's answer still holds at the INSERT: nobody else stores.
MissStillHolds ==
  \A w \in Workers \ overlapped, u \in Uids : pc[w] = "insert" /\ IsNext(w, u) => ~ Stored(KeyOf[u])

\* Workers are about messages that have arrived.
HasArrived == \A w \in Workers : todo[w] \subseteq 1..arrived

\* highest_uid starts from the watermark, which only this scan moves.
Ahead ==
  \A w \in Workers \ overlapped : pc[w] \in {"loop", "insert", "judge", "policy"} => watermark <= highest[w]

LoneInv == Alone /\ MissStillHolds /\ HasArrived /\ Ahead

\* Between its first step and its last a scan does not touch the ghost.
LEMMA OverlappedBy ==
  ASSUME TypeOK, NEW w \in Workers, WorkerStep(w), ~ StartScan(w)
  PROVE  pc[w] # "idle" /\ (overlapped' = overlapped \/ (pc'[w] = "idle" /\ overlapped' = overlapped \ {w}))
<1> USE DEF TypeOK, mailVars, asideVars, memVars, Goto, Leave
<1>1. CASE Connect(w) \/ Fetch(w) \/ FailScan(w) \/ BeginAnalysis(w) \/ Finish(w)
  BY <1>1 DEF Connect, Fetch, FailScan, BeginAnalysis, Finish
<1>2. ASSUME NEW u \in Uids, Process(w, u)
      PROVE  pc[w] # "idle" /\ (overlapped' = overlapped \/ (pc'[w] = "idle" /\ overlapped' = overlapped \ {w}))
  BY <1>2 DEF Process, ParseError, SkipDuplicate, MissDuplicate, Insert, InsertRejected, LinkError,
              CommitWhitelisted, CommitAnalysis, CommitRejected, ExecutePolicy, PolicyAborts, OutcomeRejected, Abort
<1> QED
  BY <1>1, <1>2 DEF WorkerStep, Advance

\* Nobody but a scan that is alone takes steps.
LEMMA OnlyOneMoves ==
  ASSUME TypeOK, Alone, NEW x \in Workers, WorkerStep(x),
         NEW w \in Workers \ overlapped', pc'[w] # "idle"
  PROVE  x = w
<1> SUFFICES ASSUME x # w PROVE FALSE
  OBVIOUS
<1>1. pc[w] # "idle"
  BY OthersUntouched
<1>2. CASE StartScan(x)
  BY <1>1, <1>2 DEF StartScan, Running
<1>3. CASE ~ StartScan(x)
  BY <1>1, <1>3, OverlappedBy DEF Alone
<1> QED
  BY <1>2, <1>3

\* A scan's own steps keep what it relies on.
LEMMA MissKept ==
  ASSUME TypeOK, MissStillHolds, NEW w \in Workers, WorkerStep(w), w \notin overlapped',
         NEW v \in Uids, pc'[w] = "insert", IsNext(w, v)'
  PROVE  ~ Stored(KeyOf[v])'
<1> USE DEF TypeOK, mailVars, asideVars, dbVars, memVars, Goto, Leave
<1>1. PICK u \in Uids : MissDuplicate(w, u)
  <2>1. ~ (StartScan(w) \/ Connect(w) \/ Fetch(w) \/ FailScan(w) \/ BeginAnalysis(w) \/ Finish(w))
    BY DEF StartScan, Connect, Fetch, FailScan, BeginAnalysis, Finish
  <2>2. ASSUME NEW u \in Uids, Process(w, u) PROVE MissDuplicate(w, u)
    BY <2>2 DEF Process, ParseError, SkipDuplicate, Insert, InsertRejected, LinkError, CommitWhitelisted,
                CommitAnalysis, CommitRejected, ExecutePolicy, PolicyAborts, OutcomeRejected, Abort
  <2> QED
    BY <2>1, <2>2 DEF WorkerStep, Advance
<1>2. UNCHANGED <<row, todo>> /\ IsNext(w, u) /\ ~ Stored(KeyOf[u])
  BY <1>1 DEF MissDuplicate
<1>3. v = u
  BY <1>2 DEF IsNext, Uids
<1> QED
  BY <1>2, <1>3 DEF Stored

\* The messages a worker is about come from its listing.
LEMMA TodoFrom ==
  ASSUME TypeOK, NEW w \in Workers, WorkerStep(w)
  PROVE  UNCHANGED arrived /\ (todo'[w] \subseteq todo[w] \/ todo'[w] \subseteq 1..arrived)
<1> USE DEF TypeOK, mailVars, asideVars, dbVars, memVars, Leave
<1>1. CASE StartScan(w) \/ Connect(w) \/ FailScan(w) \/ BeginAnalysis(w) \/ Finish(w)
  BY <1>1 DEF StartScan, Connect, FailScan, BeginAnalysis, Finish
<1>2. CASE Fetch(w)
  BY <1>2 DEF Fetch, ToFetch, Newest
<1>3. ASSUME NEW u \in Uids, Process(w, u) PROVE UNCHANGED arrived /\ todo'[w] \subseteq todo[w]
  BY <1>3 DEF Process, ParseError, SkipDuplicate, MissDuplicate, Insert, InsertRejected, LinkError, CommitWhitelisted,
              CommitAnalysis, CommitRejected, ExecutePolicy, PolicyAborts, OutcomeRejected, Abort, Skip, Succeed
<1> QED
  BY <1>1, <1>2, <1>3 DEF WorkerStep, Advance

\* highest_uid only grows while messages are processed.
LEMMA HighestGrows ==
  ASSUME TypeOK, TypeOK', NEW w \in Workers, NEW u \in Uids, Process(w, u)
  PROVE  /\ UNCHANGED watermark
         /\ pc[w] \in {"loop", "insert", "judge", "policy"}
         /\ pc'[w] = "idle" \/ highest'[w] >= highest[w]
<1> USE DEF mailVars, asideVars, dbVars, memVars, Goto, Leave
<1>1. UNCHANGED watermark /\ pc[w] \in {"loop", "insert", "judge", "policy"}
  BY DEF Process, ParseError, SkipDuplicate, MissDuplicate, Insert, InsertRejected, LinkError,
         CommitWhitelisted, CommitAnalysis, CommitRejected, ExecutePolicy, PolicyAborts, OutcomeRejected, Abort
<1>2. pc'[w] = "idle" \/ highest'[w] >= highest[w]
  <2>0. highest \in [Workers -> 0..MaxUid] /\ pc \in [Workers -> Place]
    BY DEF TypeOK
  <2>1. CASE Succeed(w, u)
    <3>1. highest'[w] = IF u > highest[w] THEN u ELSE highest[w]
      BY <2>0, <2>1 DEF Succeed
    <3> QED
      BY <2>0, <3>1 DEF Uids
  <2>2. CASE UNCHANGED highest
    BY <2>0, <2>2
  <2>3. CASE Leave(w)
    BY <2>0, <2>3
  <2>4. Succeed(w, u) \/ UNCHANGED highest \/ Leave(w)
    <3>1. CASE ParseError(w, u) \/ SkipDuplicate(w, u) \/ MissDuplicate(w, u) \/ Insert(w, u) \/ LinkError(w, u)
      BY <3>1 DEF ParseError, SkipDuplicate, MissDuplicate, Insert, LinkError, Skip
    <3>2. CASE InsertRejected(w, u) \/ CommitRejected(w, u) \/ PolicyAborts(w, u) \/ OutcomeRejected(w, u)
      BY <3>2 DEF InsertRejected, CommitRejected, PolicyAborts, OutcomeRejected, Abort
    <3>3. CASE CommitWhitelisted(w, u) \/ CommitAnalysis(w, u) \/ ExecutePolicy(w, u)
      BY <3>3 DEF CommitWhitelisted, CommitAnalysis, ExecutePolicy
    <3> QED
      BY <3>1, <3>2, <3>3 DEF Process
  <2> QED
    BY <2>1, <2>2, <2>3, <2>4
<1> QED
  BY <1>1, <1>2

LEMMA LoneInvariant == Spec => []LoneInv
<1>1. Init => LoneInv
  BY DEF Init, LoneInv, Alone, MissStillHolds, HasArrived, Ahead
<1>2. TypeOK /\ TypeOK' /\ LoneInv /\ [Next]_vars => LoneInv'
  <2> SUFFICES ASSUME TypeOK, TypeOK', LoneInv, [Next]_vars PROVE LoneInv'
    OBVIOUS
  <2>0. Alone /\ MissStillHolds /\ HasArrived /\ Ahead
    BY DEF LoneInv
  <2>1. CASE Arrive \/ UNCHANGED vars
    <3>1. /\ UNCHANGED <<overlapped, watermark, row, pc, todo, highest>>
          /\ \A n \in 1..arrived : n \in 1..arrived'
      BY <2>1 DEF Arrive, vars, dbVars, memVars, TypeOK
    <3> QED
      BY <2>0, <3>1 DEF LoneInv, Alone, MissStillHolds, HasArrived, Ahead, IsNext, Stored
  <2>2. CASE Crash
    BY <2>2 DEF Crash, LoneInv, Alone, MissStillHolds, HasArrived, Ahead
  <2>3. ASSUME NEW y \in Workers, WorkerStep(y) PROVE LoneInv'
    <3>0. \A x \in Workers \ {y} : pc'[x] = pc[x] /\ todo'[x] = todo[x]
      BY <2>3, OthersUntouched
    <3>1. Alone'
      <4> SUFFICES ASSUME NEW w \in Workers \ overlapped', NEW x \in Workers, pc'[w] # "idle", x # w
                   PROVE  pc'[x] = "idle"
        BY DEF Alone
      <4>1. y = w /\ pc'[x] = pc[x]
        BY <2>0, <2>3, <3>0, OnlyOneMoves
      <4>2. CASE StartScan(w)
        BY <4>1, <4>2 DEF StartScan, Running, Goto, TypeOK
      <4>3. CASE ~ StartScan(w)
        BY <2>0, <2>3, <4>1, <4>3, OverlappedBy DEF Alone
      <4> QED
        BY <4>2, <4>3
    <3>2. MissStillHolds'
      BY <2>0, <2>3, OnlyOneMoves, MissKept DEF MissStillHolds
    <3>3. HasArrived'
      <4>1. UNCHANGED arrived /\ (todo'[y] \subseteq todo[y] \/ todo'[y] \subseteq 1..arrived)
        BY <2>3, TodoFrom
      <4> QED
        BY <2>0, <3>0, <4>1 DEF HasArrived
    <3>4. Ahead'
      <4> SUFFICES ASSUME NEW w \in Workers \ overlapped', pc'[w] \in {"loop", "insert", "judge", "policy"}
                   PROVE  watermark' <= highest'[w]
        BY DEF Ahead
      <4>1. y = w
        BY <2>0, <2>3, OnlyOneMoves
      <4>2. CASE StartScan(w) \/ Connect(w) \/ Fetch(w) \/ FailScan(w) \/ Finish(w)
        BY <4>2 DEF StartScan, Connect, Fetch, FailScan, Finish, Leave, Goto, TypeOK
      <4>3. CASE BeginAnalysis(w)
        BY <4>3 DEF BeginAnalysis, TypeOK
      <4>4. ASSUME NEW u \in Uids, Process(w, u) PROVE watermark' <= highest'[w]
        <5>1. ~ StartScan(w)
          BY <4>4, HighestGrows DEF StartScan
        <5>2. w \notin overlapped
          BY <2>3, <4>1, <4>4, <5>1, OverlappedBy
        <5>3. watermark' = watermark /\ highest'[w] >= highest[w] /\ watermark <= highest[w]
          BY <2>0, <4>4, <5>2, HighestGrows DEF Ahead
        <5> QED
          BY <2>0, <5>3 DEF TypeOK
      <4> QED
        BY <2>3, <4>1, <4>2, <4>3, <4>4 DEF WorkerStep, Advance
    <3> QED
      BY <3>1, <3>2, <3>3, <3>4 DEF LoneInv
  <2> QED
    BY <2>1, <2>2, <2>3 DEF Next, WorkerStep
<1> QED
  BY <1>1, <1>2, TypeCorrect, PTL DEF Spec

\* Whatever earlier scans left behind, and whatever connections and messages
\* fail: a scan that ran beside no other, of a mailbox without a message that
\* the database rejects, does not abort, and its job tells how it ended.
THEOREM LoneJobIsAlwaysTerminal == Spec => LoneJobIsTerminal
<1>1. TypeOK /\ LoneInv /\ [Next]_vars
        => \A w \in Workers \ overlapped : Returns(w) /\ Acceptable => Terminal(w)'
  <2> SUFFICES ASSUME TypeOK, LoneInv, [Next]_vars,
                      NEW w \in Workers \ overlapped, Returns(w), Acceptable
               PROVE  Terminal(w)'
    OBVIOUS
  <2>0. MissStillHolds /\ HasArrived /\ pc[w] # "idle" /\ pc'[w] = "idle" /\ crashes' = crashes
    BY DEF LoneInv, Returns
  <2>1. ~ (Arrive \/ Crash \/ UNCHANGED vars)
    BY <2>0 DEF Arrive, Crash, vars, memVars, TypeOK
  <2>2. WorkerStep(w)
    <3>1. PICK x \in Workers : WorkerStep(x)
      BY <2>1 DEF Next, WorkerStep
    <3> QED
      BY <2>0, <3>1, OthersUntouched
  <2>3. CASE StartScan(w) \/ Connect(w) \/ Fetch(w) \/ BeginAnalysis(w)
    BY <2>0, <2>3 DEF StartScan, Connect, Fetch, BeginAnalysis, Goto, TypeOK
  <2>4. CASE FailScan(w) \/ Finish(w)
    BY <2>4 DEF FailScan, Finish, Terminal, TypeOK
  <2>5. ASSUME NEW u \in Uids, Process(w, u) PROVE FALSE
    <3>1. InsertRejected(w, u) \/ CommitRejected(w, u) \/ PolicyAborts(w, u) \/ OutcomeRejected(w, u)
      <4>1. ~ (ParseError(w, u) \/ SkipDuplicate(w, u))
        BY <2>0 DEF ParseError, SkipDuplicate
      <4>2. ~ (MissDuplicate(w, u) \/ Insert(w, u) \/ LinkError(w, u))
        BY <2>0 DEF MissDuplicate, Insert, LinkError, Goto, TypeOK
      <4>3. ~ (CommitWhitelisted(w, u) \/ CommitAnalysis(w, u) \/ ExecutePolicy(w, u))
        BY <2>0 DEF CommitWhitelisted, CommitAnalysis, ExecutePolicy, Goto, TypeOK
      <4> QED
        BY <2>5, <4>1, <4>2, <4>3 DEF Process
    <3>2. u \in 1..arrived /\ kind[u] \notin {"oversize", "unhandled"}
      BY <2>0, <3>1 DEF InsertRejected, CommitRejected, PolicyAborts, OutcomeRejected, IsNext, HasArrived, Acceptable
    <3> QED
      BY <2>0, <3>1, <3>2 DEF InsertRejected, CommitRejected, PolicyAborts, OutcomeRejected, MissStillHolds
  <2> QED
    BY <2>2, <2>3, <2>4, <2>5 DEF WorkerStep, Advance
<1> QED
  BY <1>1, TypeCorrect, LoneInvariant, PTL DEF Spec, LoneJobIsTerminal

\* Between a scan's second reading of the watermark and the commit that ends
\* it, only another scan could move the watermark.
THEOREM WatermarkOnlyRises == Spec => WatermarkNeverMovesBack
<1>1. TypeOK /\ LoneInv /\ [Next]_vars => watermark' >= watermark \/ \E w \in overlapped : Returns(w)
  <2> SUFFICES ASSUME TypeOK, LoneInv, [Next]_vars
               PROVE  watermark' >= watermark \/ \E w \in overlapped : Returns(w)
    OBVIOUS
  <2> USE DEF dbVars
  <2>1. CASE Arrive \/ Crash \/ UNCHANGED vars
    BY <2>1 DEF Arrive, Crash, vars, TypeOK
  <2>2. ASSUME NEW w \in Workers, StartScan(w) \/ Connect(w) \/ Fetch(w) \/ FailScan(w) \/ BeginAnalysis(w)
        PROVE  watermark' >= watermark
    BY <2>2 DEF StartScan, Connect, Fetch, FailScan, BeginAnalysis, TypeOK
  <2>3. ASSUME NEW w \in Workers, Finish(w)
        PROVE  watermark' >= watermark \/ \E x \in overlapped : Returns(x)
    <3>1. CASE w \in overlapped
      BY <2>3, <3>1 DEF Finish, Leave, Goto, Returns, TypeOK
    <3>2. CASE w \notin overlapped
      BY <2>3, <3>2 DEF Finish, NewWatermark, LoneInv, Ahead, TypeOK
    <3> QED
      BY <3>1, <3>2
  <2>4. ASSUME NEW w \in Workers, NEW u \in Uids, Process(w, u) PROVE watermark' = watermark
    BY <2>4 DEF Process, ParseError, SkipDuplicate, MissDuplicate, Insert, InsertRejected, LinkError,
                CommitWhitelisted, CommitAnalysis, CommitRejected, ExecutePolicy, PolicyAborts, OutcomeRejected, Abort
  <2>5. watermark' = watermark => watermark' >= watermark
    BY DEF TypeOK
  <2> QED
    BY <2>1, <2>2, <2>3, <2>4, <2>5 DEF Next, Advance
<1> QED
  BY <1>1, TypeCorrect, LoneInvariant, PTL DEF Spec, WatermarkNeverMovesBack
-----------------------------------------------------------------------------
\* The pipeline implements Ingestion: seen through its commits, each step of a
\* worker is one transaction of the abstract specification or leaves every stage
\* as it is, and a crash leaves them all.

\* A key's stage is the state of its one committed row.
StageFacts ==
  /\ \A w \in Workers, u \in Uids : Committed(row[w][u]) => StageOf(KeyOf[u]) = row[w][u]
  /\ \A k \in Keys : ~ Stored(k) => StageOf(k) = "absent"

LEMMA StageLemma == RowInv => StageFacts
<1> SUFFICES ASSUME RowInv PROVE StageFacts
  OBVIOUS
<1>1. ASSUME NEW w \in Workers, NEW u \in Uids, Committed(row[w][u])
      PROVE  StageOf(KeyOf[u]) = row[w][u]
  <2>1. row[w][u] \in RowsOf(KeyOf[u])
    BY <1>1 DEF RowsOf, Committed
  <2>2. \A s \in RowsOf(KeyOf[u]) : s = row[w][u]
    BY <1>1 DEF RowsOf, Committed, RowInv, OneRowPerMessage
  <2> QED
    BY <2>1, <2>2 DEF StageOf
<1>2. ASSUME NEW k \in Keys, ~ Stored(k)
      PROVE  StageOf(k) = "absent"
  <2>1. RowsOf(k) = {}
    BY <1>2 DEF RowsOf, Stored, Committed
  <2> QED
    BY <2>1 DEF StageOf
<1> QED
  BY <1>1, <1>2 DEF StageFacts

LEMMA StageLemmaNext == RowInv' => StageFacts'
BY StageLemma, PTL

\* A step that leaves the committed rows as they are leaves the stages alone.
LEMMA StagesKept ==
  ASSUME RowInv, RowInv',
         \A w \in Workers, u \in Uids :
           Committed(row[w][u]) \/ Committed(row'[w][u]) => row'[w][u] = row[w][u]
  PROVE  UNCHANGED [k \in Keys |-> StageOf(k)]
<1> SUFFICES ASSUME NEW k \in Keys PROVE StageOf(k)' = StageOf(k)
  OBVIOUS
<1>1. CASE Stored(k)
  <2>1. PICK w \in Workers, u \in Uids : KeyOf[u] = k /\ Committed(row[w][u])
    BY <1>1 DEF Stored
  <2>2. StageOf(k) = row[w][u] /\ StageOf(k)' = row'[w][u]
    BY <2>1, StageLemma, StageLemmaNext DEF StageFacts
  <2> QED
    BY <2>1, <2>2
<1>2. CASE ~ Stored(k)
  <2>1. ~ Stored(k)'
    BY <1>2 DEF Stored
  <2> QED
    BY <1>2, <2>1, StageLemma, StageLemmaNext DEF StageFacts
<1> QED
  BY <1>1, <1>2

\* A commit of worker w about message u is a transaction about its key.
LEMMA CommitIsTransaction ==
  ASSUME RowInv, RowInv', NEW w \in Workers, NEW u \in Uids,
         \A x \in Workers, v \in Uids : x # w => row'[x][v] = row[x][v],
         \A v \in Uids : v # u => row'[w][v] = AfterCommit(row[w][v]),
         \/ row[w][u] = "pending" /\ row'[w][u] \in {"bare", "whitelisted", "analysed"}
         \/ row[w][u] = "analysed" /\ row'[w][u] = "handled"
  PROVE  Ingest!Transaction(KeyOf[u])
<1> DEFINE k == KeyOf[u]
           Stages == [j \in Keys |-> StageOf(j)]
<1>0. k \in Keys /\ Committed(row'[w][u])
  BY DEF Keys, Committed
<1>1. StageOf(k)' = row'[w][u]
  BY <1>0, StageLemmaNext DEF StageFacts
<1>2. StageOf(k) = IF row[w][u] = "pending" THEN "absent" ELSE row[w][u]
  <2>1. CASE row[w][u] = "pending"
    <3>1. ~ Stored(k)
      BY <2>1 DEF Stored, Committed, RowInv, OneRowPerMessage
    <3> QED
      BY <1>0, <2>1, <3>1, StageLemma DEF StageFacts
  <2>2. CASE row[w][u] # "pending"
    BY <2>2, StageLemma DEF StageFacts, Committed
  <2> QED
    BY <2>1, <2>2
<1>3. ASSUME NEW j \in Keys \ {k}
      PROVE  StageOf(j)' = StageOf(j) \/ (StageOf(j) = "absent" /\ StageOf(j)' = "bare")
  <2>1. CASE Stored(j)
    <3>1. PICK x \in Workers, v \in Uids : KeyOf[v] = j /\ Committed(row[x][v])
      BY <2>1 DEF Stored
    <3>2. row'[x][v] = row[x][v]
      BY <3>1 DEF AfterCommit, Committed
    <3> QED
      BY <3>1, <3>2, StageLemma, StageLemmaNext DEF StageFacts
  <2>2. CASE ~ Stored(j) /\ Stored(j)'
    <3>1. PICK x \in Workers, v \in Uids : KeyOf[v] = j /\ Committed(row'[x][v])
      BY <2>2 DEF Stored
    <3>2. ~ Committed(row[x][v])
      BY <2>2, <3>1 DEF Stored
    <3>3. row'[x][v] = "bare"
      BY <3>1, <3>2 DEF AfterCommit, Committed
    <3> QED
      BY <2>2, <3>1, <3>3, StageLemma, StageLemmaNext DEF StageFacts
  <2>3. CASE ~ Stored(j) /\ ~ Stored(j)'
    BY <2>3, StageLemma, StageLemmaNext DEF StageFacts
  <2> QED
    BY <2>1, <2>2, <2>3
<1>4. \A j \in Keys : StageOf(j)' \in Ingest!Stage
  <2> SUFFICES ASSUME NEW j \in Keys PROVE StageOf(j)' \in Ingest!Stage
    OBVIOUS
  <2>1. CASE Stored(j)'
    <3>1. PICK x \in Workers, v \in Uids : KeyOf[v] = j /\ Committed(row'[x][v])
      BY <2>1 DEF Stored
    <3>2. row'[x][v] \in RowState
      BY DEF RowInv, TypeOK
    <3> QED
      BY <3>1, <3>2, StageLemmaNext DEF StageFacts, Committed, RowState, Ingest!Stage
  <2>2. CASE ~ Stored(j)'
    BY <2>2, StageLemmaNext DEF StageFacts, Ingest!Stage
  <2> QED
    BY <2>1, <2>2
<1>5. /\ Stages' \in [Keys -> Ingest!Stage]
      /\ \A j \in Keys : Stages[j] = StageOf(j) /\ Stages'[j] = StageOf(j)'
  BY <1>4
<1>6. Ingest!Store(k) \/ Ingest!Act(k)
  BY <1>0, <1>1, <1>2, <1>5 DEF Ingest!Store, Ingest!Act
<1>7. \A j \in Keys \ {k} : Stages'[j] = Stages[j] \/ Ingest!StoredUnjudged(j)
  BY <1>3, <1>5 DEF Ingest!StoredUnjudged
<1> QED
  BY <1>5, <1>6, <1>7 DEF Ingest!Transaction

\* Every behaviour of the pipeline, with any number of overlapping workers and
\* with crashes, is one of the abstract ingestion.
THEOREM PipelineImplementsIngestion == Spec => ImplementsIngestion
<1>1. Init => Ingest!Init
  <2> SUFFICES ASSUME Init, NEW k \in Keys PROVE StageOf(k) = "absent"
    BY DEF Ingest!Init
  <2>1. RowsOf(k) = {}
    BY DEF Init, RowsOf
  <2> QED
    BY <2>1 DEF StageOf
<1>2. RowInv /\ RowInv' /\ [Next]_vars => [Ingest!Next]_([k \in Keys |-> StageOf(k)])
  <2> SUFFICES ASSUME RowInv, RowInv', [Next]_vars
               PROVE  (\E k \in Keys : Ingest!Transaction(k)) \/ UNCHANGED [k \in Keys |-> StageOf(k)]
    BY DEF Ingest!Next
  <2>0. TypeOK /\ RowMatchesPlace /\ OneRowPerMessage
    BY DEF RowInv
  <2> USE DEF TypeOK, mailVars, asideVars, dbVars, memVars
  <2>1. CASE Arrive \/ UNCHANGED vars
    <3>1. UNCHANGED row
      BY <2>1 DEF Arrive, vars
    <3> QED
      BY <3>1, StagesKept
  <2>2. CASE Crash
    <3>1. \A w \in Workers, u \in Uids : row'[w][u] = AfterRollback(row[w][u])
      BY <2>2 DEF Crash
    <3> QED
      BY <3>1, StagesKept DEF AfterRollback, Committed
  <2>3. ASSUME NEW w \in Workers, StartScan(w) \/ Connect(w) \/ Fetch(w) \/ FailScan(w) \/ BeginAnalysis(w)
        PROVE  UNCHANGED [k \in Keys |-> StageOf(k)]
    <3>1. UNCHANGED row
      BY <2>3 DEF StartScan, Connect, Fetch, FailScan, BeginAnalysis
    <3> QED
      BY <3>1, StagesKept
  <2>4. ASSUME NEW w \in Workers, Finish(w)
        PROVE  (\E k \in Keys : Ingest!Transaction(k)) \/ UNCHANGED [k \in Keys |-> StageOf(k)]
    <3>1. /\ \A x \in Workers, v \in Uids : x # w => row'[x][v] = row[x][v]
          /\ \A v \in Uids : row'[w][v] = AfterCommit(row[w][v])
      BY <2>0, <2>4 DEF Finish
    <3>2. CASE \E u \in Uids : row[w][u] = "pending"
      <4>1. PICK u \in Uids : row[w][u] = "pending"
        BY <3>2
      <4>2. row'[w][u] = "bare"
        BY <3>1, <4>1 DEF AfterCommit
      <4>3. Ingest!Transaction(KeyOf[u])
        BY <3>1, <4>1, <4>2, CommitIsTransaction
      <4> QED
        BY <4>3 DEF Keys
    <3>3. CASE ~ \E u \in Uids : row[w][u] = "pending"
      <4>1. \A x \in Workers, v \in Uids : row'[x][v] = row[x][v]
        BY <3>1, <3>3 DEF AfterCommit
      <4> QED
        BY <4>1, StagesKept
    <3> QED
      BY <3>2, <3>3
  <2>5. ASSUME NEW w \in Workers, NEW u \in Uids, Process(w, u)
        PROVE  (\E k \in Keys : Ingest!Transaction(k)) \/ UNCHANGED [k \in Keys |-> StageOf(k)]
    <3>1. CASE ParseError(w, u) \/ SkipDuplicate(w, u) \/ MissDuplicate(w, u) \/ LinkError(w, u)
      <4>1. UNCHANGED row
        BY <3>1 DEF ParseError, SkipDuplicate, MissDuplicate, LinkError
      <4> QED
        BY <4>1, StagesKept
    <3>2. CASE Insert(w, u)
      <4>1. \A x \in Workers, v \in Uids : row'[x][v] = IF x = w /\ v = u THEN "pending" ELSE row[x][v]
        BY <2>0, <3>2 DEF Insert
      <4>2. ~ Committed(row[w][u])
        BY <3>2 DEF Insert, Stored
      <4> QED
        BY <4>1, <4>2, StagesKept DEF Committed
    <3>3. CASE InsertRejected(w, u) \/ CommitRejected(w, u) \/ PolicyAborts(w, u)
      <4>1. row' = [row EXCEPT ![w] = [v \in Uids |-> AfterRollback(row[w][v])]]
        BY <3>3 DEF InsertRejected, CommitRejected, PolicyAborts, Abort
      <4>2. \A x \in Workers, v \in Uids : row'[x][v] = IF x = w THEN AfterRollback(row[x][v]) ELSE row[x][v]
        BY <2>0, <4>1
      <4> QED
        BY <4>2, StagesKept DEF AfterRollback, Committed
    <3>4. ASSUME NEW s \in {"whitelisted", "analysed", "handled"}, CommitAs(w, u, s),
                 row[w][u] = IF s = "handled" THEN "analysed" ELSE "pending"
          PROVE  \E k \in Keys : Ingest!Transaction(k)
      <4>1. /\ \A x \in Workers, v \in Uids : x # w => row'[x][v] = row[x][v]
            /\ \A v \in Uids : v # u => row'[w][v] = AfterCommit(row[w][v])
            /\ row'[w][u] = s
        BY <2>0, <3>4 DEF CommitAs
      <4>2. Ingest!Transaction(KeyOf[u])
        BY <3>4, <4>1, CommitIsTransaction
      <4> QED
        BY <4>2 DEF Keys
    <3>5. CASE CommitWhitelisted(w, u) \/ CommitAnalysis(w, u)
      BY <2>0, <3>4, <3>5 DEF CommitWhitelisted, CommitAnalysis, RowMatchesPlace
    <3>6. CASE ExecutePolicy(w, u) \/ OutcomeRejected(w, u)
      BY <2>0, <3>4, <3>6 DEF ExecutePolicy, OutcomeRejected, RowMatchesPlace
    <3> QED
      BY <2>5, <3>1, <3>2, <3>3, <3>5, <3>6 DEF Process
  <2> QED
    BY <2>1, <2>2, <2>3, <2>4, <2>5 DEF Next, Advance
<1> QED
  BY <1>1, <1>2, RowInvariant, PTL DEF Spec, ImplementsIngestion, Ingest!Spec
=============================================================================
