----------------------------- MODULE Scheduler -----------------------------
(***************************************************************************)
(* Which mailboxes are scanned, and when: the dispatch tick of             *)
(* app/services/scheduler.py, run every minute in at most max_instances    *)
(* threads, beside the requests that connect, monitor, disconnect, delete  *)
(* and scan a mailbox.  What a scan does to the mailbox's messages is      *)
(* ScanPipeline; here a scan completes, fails, or raises.                  *)
(*                                                                         *)
(* Time is kept as ages: age[m] is how many minutes ago the last completed *)
(* scan of m ended.  Every age from Oldest on is the same to the code, and *)
(* the same as never having been scanned.                                  *)
(***************************************************************************)
EXTENDS Integers, Sequences, FiniteSetsExt, SequencesExt

CONSTANTS
  Mailboxes,
  Ticks,            \* the instances of the job that may run at once
  Intervals,        \* values of scan_interval_minutes
  DefaultInterval,
  Reachable,        \* the mailboxes whose provider answers again and again
  Exposed,          \* bound: the mailboxes a message may poison
  MaxLag            \* bound: minutes a tick may take

\* There is a longest interval: the column is an INTEGER.
ASSUME SchedulerAssumption ==
  /\ IsFiniteSet(Mailboxes)
  /\ Intervals \subseteq Nat \ {0}
  /\ \E longest \in Intervals : \A i \in Intervals : i <= longest
  /\ DefaultInterval \in Intervals
  /\ Reachable \subseteq Mailboxes /\ Exposed \subseteq Mailboxes
  /\ MaxLag \in Nat

VARIABLES
  phase,     \* "new" before the mailbox is connected, "live", "deleted"
  monitored, \* monitoring_enabled
  interval,  \* scan_interval_minutes
  age,       \* minutes since last_scan_at
  poisoned,  \* the mailboxes with a message that makes every scan of them raise
  pc,        \* where a tick is
  list,      \* the mailboxes a tick has still to look at, the current one first
  lag        \* minutes since the tick read the clock

rowVars  == <<phase, monitored, interval, age, poisoned>>
tickVars == <<pc, list, lag>>
vars == <<phase, monitored, interval, age, poisoned, pc, list, lag>>

Oldest == MaxLag + CHOOSE i \in Intervals : \A j \in Intervals : j <= i

Init ==
  /\ phase \in [Mailboxes -> {"new", "live"}]
  /\ monitored = [m \in Mailboxes |-> FALSE]
  /\ interval = [m \in Mailboxes |-> DefaultInterval]
  /\ age = [m \in Mailboxes |-> Oldest]
  /\ pc = [t \in Ticks |-> "idle"]
  /\ list = [t \in Ticks |-> <<>>]
  /\ lag = [t \in Ticks |-> 0]
  /\ poisoned = {}

-----------------------------------------------------------------------------
\* The dispatch tick.

Current(t) == Head(list[t])

\* The interval has elapsed, by the clock the tick read when it began.
IsDue(t, m) == age[m] - lag[t] >= interval[m]

\* Another minute: the job is due.  With all its instances running the tick
\* is skipped; which of the idle ones runs it makes no difference.
Minute ==
  /\ \A t \in Ticks : pc[t] \in {"loop", "scan"} => lag[t] < MaxLag
  /\ age' = [m \in Mailboxes |-> IF age[m] < Oldest THEN age[m] + 1 ELSE Oldest]
  /\ lag' = [t \in Ticks |-> IF pc[t] \in {"loop", "scan"} THEN lag[t] + 1 ELSE 0]
  /\ LET idle == {t \in Ticks : pc[t] = "idle"}
     IN  pc' = IF idle = {} THEN pc ELSE [pc EXCEPT ![CHOOSE t \in idle : TRUE] = "fired"]
  /\ UNCHANGED <<phase, monitored, interval, poisoned, list>>

EndTick(t) ==
  /\ pc' = [pc EXCEPT ![t] = "idle"]
  /\ list' = [list EXCEPT ![t] = <<>>]
  /\ lag' = [lag EXCEPT ![t] = 0]

Live == {m \in Mailboxes : phase[m] = "live"}
Monitored == {m \in Live : monitored[m]}

\* The tick goes through the rows as the query loaded them up to the first
\* that is due, and scans that mailbox; from then on its session has
\* forgotten the rows, and loads each again when it comes to it.
Begin(t, order) ==
  LET dueAt == {i \in DOMAIN order : IsDue(t, order[i])}
  IN  IF dueAt = {} THEN EndTick(t)
      ELSE /\ list' = [list EXCEPT ![t] = SubSeq(order, Min(dueAt), Len(order))]
           /\ pc' = [pc EXCEPT ![t] = "scan"]
           /\ UNCHANGED lag

\* Mutant: every mailbox is queried.
QueryAll(t) ==
  /\ pc[t] = "fired"
  /\ \E order \in SetToSeqs(Live) : Begin(t, order)
  /\ UNCHANGED rowVars

\* One query loads the monitored mailboxes, in any order; then the clock.
Query(t) ==
  /\ pc[t] = "fired"
  /\ \E order \in SetToSeqs(Monitored) : Begin(t, order)
  /\ UNCHANGED rowVars

QueryFails(t) ==
  /\ pc[t] = "fired"
  /\ EndTick(t)
  /\ UNCHANGED rowVars

InLoop(t) == pc[t] = "loop" /\ list[t] # <<>>

\* The row is gone when the session loads it again: that raises outside the
\* loop's try, and the tick is over.
MissMailbox(t) ==
  /\ InLoop(t) /\ phase[Current(t)] = "deleted"
  /\ EndTick(t)
  /\ UNCHANGED rowVars

SkipMailbox(t) ==
  /\ InLoop(t) /\ phase[Current(t)] = "live"
  /\ ~IsDue(t, Current(t))
  /\ list' = [list EXCEPT ![t] = Tail(@)]
  /\ UNCHANGED <<rowVars, pc, lag>>

\* Neither monitoring_enabled nor the status is looked at again.
TakeMailbox(t) ==
  /\ InLoop(t) /\ phase[Current(t)] = "live"
  /\ IsDue(t, Current(t))
  /\ pc' = [pc EXCEPT ![t] = "scan"]
  /\ UNCHANGED <<rowVars, list, lag>>

FinishTick(t) ==
  /\ pc[t] = "loop" /\ list[t] = <<>>
  /\ EndTick(t)
  /\ UNCHANGED rowVars

\* run_scan has returned.
Continue(t) ==
  /\ list' = [list EXCEPT ![t] = Tail(@)]
  /\ pc' = [pc EXCEPT ![t] = "loop"]
  /\ UNCHANGED lag

\* A scan is the moment it lists the mailbox's messages.
CompleteScan(t) ==
  /\ pc[t] = "scan" /\ phase[Current(t)] = "live" /\ Current(t) \notin poisoned
  /\ age' = [age EXCEPT ![Current(t)] = 0]
  /\ Continue(t)
  /\ UNCHANGED <<phase, monitored, interval, poisoned>>

\* Mutant: a failed scan ends the tick.
FailTick(t) ==
  /\ pc[t] = "scan" /\ phase[Current(t)] = "live"
  /\ EndTick(t)
  /\ UNCHANGED rowVars

\* A handled failure leaves last_scan_at alone: the mailbox stays due.
FailScan(t) ==
  /\ pc[t] = "scan" /\ phase[Current(t)] = "live"
  /\ Continue(t)
  /\ UNCHANGED rowVars

\* Mutant: the thread ends with its list in hand.
AbortWithList(t) ==
  /\ pc[t] = "scan"
  /\ phase[Current(t)] = "deleted"
  /\ pc' = [pc EXCEPT ![t] = "idle"]
  /\ UNCHANGED <<rowVars, list, lag>>

\* A scan of a deleted or a poisoned mailbox raises, at every tick; so does
\* mailbox.id in the tick's handler, and the other mailboxes are not looked at.
AbortScan(t) ==
  /\ pc[t] = "scan"
  /\ phase[Current(t)] = "deleted" \/ Current(t) \in poisoned
  /\ EndTick(t)
  /\ UNCHANGED rowVars

\* So does one whose message another scan of the mailbox stored first: the
\* next scan finds it stored.
LoseRace(t) ==
  /\ pc[t] = "scan" /\ phase[Current(t)] = "live"
  /\ pc' = [pc EXCEPT ![t] = "lost"]
  /\ list' = [list EXCEPT ![t] = <<>>]
  /\ lag' = [lag EXCEPT ![t] = 0]
  /\ UNCHANGED rowVars

EndLost(t) ==
  /\ pc[t] = "lost"
  /\ EndTick(t)
  /\ UNCHANGED rowVars

-----------------------------------------------------------------------------
\* The requests on a mailbox.

Connect(m) ==
  /\ phase[m] = "new"
  /\ phase' = [phase EXCEPT ![m] = "live"]
  /\ UNCHANGED <<monitored, interval, age, poisoned, tickVars>>

\* An interval of None or 0 leaves the old one.
SetMonitoring(m, enabled, minutes) ==
  /\ phase[m] = "live"
  /\ monitored' = [monitored EXCEPT ![m] = enabled]
  /\ interval' = [interval EXCEPT ![m] = IF minutes = 0 THEN @ ELSE minutes]
  /\ UNCHANGED <<phase, age, poisoned, tickVars>>

Disconnect(m) ==
  /\ phase[m] = "live"
  /\ monitored' = [monitored EXCEPT ![m] = FALSE]
  /\ UNCHANGED <<phase, interval, age, poisoned, tickVars>>

\* The values of a row that is gone mean nothing: they are set back.
Delete(m) ==
  /\ phase[m] = "live"
  /\ phase' = [phase EXCEPT ![m] = "deleted"]
  /\ monitored' = [monitored EXCEPT ![m] = FALSE]
  /\ interval' = [interval EXCEPT ![m] = DefaultInterval]
  /\ age' = [age EXCEPT ![m] = Oldest]
  /\ poisoned' = poisoned \ {m}
  /\ UNCHANGED tickVars

\* A manual scan completes; one that does not leaves nothing behind here.
ScanNow(m) ==
  /\ phase[m] = "live" /\ m \notin poisoned
  /\ age' = [age EXCEPT ![m] = 0]
  /\ UNCHANGED <<phase, monitored, interval, poisoned, tickVars>>

\* A message comes in whose row, or whose policy's outcome, the database
\* rejects.  Nothing marks the message: the next scan lists it again.
Poison(m) ==
  /\ m \in Exposed \ poisoned /\ phase[m] = "live"
  /\ poisoned' = poisoned \cup {m}
  /\ UNCHANGED <<phase, monitored, interval, age, tickVars>>

\* Somebody removes the message, newer ones push it out of the listing, or its
\* row was committed before the policy raised, and is passed over from then on.
Cure(m) ==
  /\ m \in poisoned
  /\ poisoned' = poisoned \ {m}
  /\ UNCHANGED <<phase, monitored, interval, age, tickVars>>

\* The process is killed, and its ticks with it.
Kill ==
  /\ pc' = [t \in Ticks |-> "down"]
  /\ list' = [t \in Ticks |-> <<>>]
  /\ lag' = [t \in Ticks |-> 0]
  /\ UNCHANGED rowVars

\* It is started again.
Restart ==
  /\ \A t \in Ticks : pc[t] = "down"
  /\ pc' = [t \in Ticks |-> "idle"]
  /\ UNCHANGED <<rowVars, list, lag>>

Request(m) ==
  \/ Connect(m) \/ Disconnect(m) \/ Delete(m) \/ ScanNow(m) \/ Poison(m) \/ Cure(m)
  \/ \E enabled \in BOOLEAN, minutes \in Intervals \cup {0} : SetMonitoring(m, enabled, minutes)

EndScan(t) == CompleteScan(t) \/ FailScan(t) \/ AbortScan(t) \/ LoseRace(t) \/ EndLost(t)
Loop(t) == MissMailbox(t) \/ SkipMailbox(t) \/ TakeMailbox(t) \/ FinishTick(t)
TickStep(t) == Query(t) \/ QueryFails(t) \/ Loop(t) \/ EndScan(t)

Next ==
  \/ Minute
  \/ \E t \in Ticks : TickStep(t)
  \/ \E m \in Mailboxes : Request(m)
  \/ Kill \/ Restart

\* Minutes pass and threads run; a query of the database succeeds again and
\* again, and so does a scan of a reachable mailbox that is not poisoned.
Fairness ==
  /\ WF_vars(Minute)
  /\ SF_vars(\E t \in Ticks : Query(t))
  /\ \A t \in Ticks : WF_vars(TickStep(t))
  /\ \A m \in Reachable : SF_vars(\E t \in Ticks : pc[t] = "scan" /\ Current(t) = m /\ CompleteScan(t))

Spec == Init /\ [][Next]_vars /\ Fairness

-----------------------------------------------------------------------------
TypeOK ==
  /\ phase \in [Mailboxes -> {"new", "live", "deleted"}]
  /\ monitored \in [Mailboxes -> BOOLEAN]
  /\ interval \in [Mailboxes -> Intervals]
  /\ age \in [Mailboxes -> 0 .. Oldest]
  /\ pc \in [Ticks -> {"idle", "fired", "loop", "scan", "lost", "down"}]
  /\ list \in [Ticks -> Seq(Mailboxes)]
  /\ lag \in [Ticks -> 0 .. MaxLag]
  /\ poisoned \subseteq Live
  /\ \A t \in Ticks :
       /\ pc[t] = "scan" => list[t] # <<>>
       /\ pc[t] \notin {"loop", "scan"} => list[t] = <<>> /\ lag[t] = 0
       /\ IsInjective(list[t]) /\ \A i \in DOMAIN list[t] : phase[list[t][i]] # "new"

\* A monitored mailbox that can be reached is scanned again and again, however
\* the scans of the others fail, and whatever overlaps, is edited or deleted
\* meanwhile (one dispatch job for all mailboxes, docs/architecture.md:70-75),
\* once ticks are not cut short any more: the process stays up, no scan loses a
\* race, and no tick lists a poisoned mailbox.  Without the last, a poisoned
\* mailbox ends every tick, and those listed behind it are never scanned.
CalmInTheEnd ==
  <>[](\A t \in Ticks : pc[t] \notin {"lost", "down"} /\ ToSet(list[t]) \cap poisoned = {})
Served(m) == monitored[m] ~> (age[m] = 0 \/ ~monitored[m])
EveryMonitoredIsScanned == CalmInTheEnd => \A m \in Reachable : Served(m)

\* A mailbox that stays switched off, disconnected or deleted is left alone:
\* the ticks that had already listed it come to an end, and no later one
\* takes it.
Scanning(m) == \E t \in Ticks : pc[t] = "scan" /\ Current(t) = m
StoppedIsLeftAlone ==
  \A m \in Mailboxes : (<>[]~monitored[m]) => <>[]~Scanning(m)
=============================================================================
