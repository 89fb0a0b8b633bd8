------------------------ MODULE EmailLifecycleProofs ------------------------
(***************************************************************************)
(* Theorems about EmailLifecycle, for any action lists, any capabilities   *)
(* of the provider and any number of requests.                             *)
(***************************************************************************)
EXTENDS EmailLifecycle, TLAPS

Names == Action \cup {Fallback}

\* The steps that end a request.
Decide(r) == Release(r) \/ MarkSafe(r) \/ DeletePermanently(r) \/ DeleteEmail(r) \/ ReleaseNothing(r)

LEMMA DecideFinishes == \A r : Decide(r) => Finish(r)
  BY DEF Decide, Release, MarkSafe, DeletePermanently, DeleteEmail, ReleaseNothing

Reading == [item : QuarantineStatus \cup {"none"}, status : EmailStatus]

\* What a request's session has read changes where the route reads, for that
\* request and nowhere else.
LEMMA ReadItemReads ==
  ASSUME NEW r \in Requests, saw \in [Requests -> Reading], ReadItem(r),
         item \in QuarantineStatus \cup {"none"}
  PROVE  /\ saw' \in [Requests -> Reading]
         /\ saw'[r].item = item /\ saw'[r].status = saw[r].status
         /\ \A s \in Requests \ {r} : saw'[s] = saw[s]
<1>1. saw[r].item \in QuarantineStatus \cup {"none"} /\ saw[r].status \in EmailStatus
  BY DEF Reading
<1>2. [item |-> item, status |-> saw[r].status] \in Reading
  BY <1>1 DEF Reading
<1>3. saw' = [saw EXCEPT ![r] = [item |-> item, status |-> saw[r].status]]
  BY DEF ReadItem
<1> QED
  BY <1>2, <1>3

LEMMA ReadEmailReads ==
  ASSUME NEW r \in Requests, saw \in [Requests -> Reading], ReadEmail(r),
         status \in EmailStatus
  PROVE  /\ saw' \in [Requests -> Reading]
         /\ saw'[r].item = saw[r].item /\ saw'[r].status = status
         /\ \A s \in Requests \ {r} : saw'[s] = saw[s]
<1>1. saw[r].item \in QuarantineStatus \cup {"none"} /\ saw[r].status \in EmailStatus
  BY DEF Reading
<1>2. [item |-> saw[r].item, status |-> status] \in Reading
  BY <1>1 DEF Reading
<1>3. saw' = [saw EXCEPT ![r] = [item |-> saw[r].item, status |-> status]]
  BY DEF ReadEmail
<1> QED
  BY <1>2, <1>3

\* Every variable stays in its range, whatever policies and requests do.
THEOREM TypeCorrect == Spec => []TypeOK
<1> USE LifecycleAssumption DEF EmailStatus, QuarantineStatus
<1>1. ASSUME Init PROVE TypeOK
  <2>1. actions \in Policies /\ step \in 1..(Len(actions) + 1) /\ applied \in Seq(Names)
    BY <1>1 DEF Init, LifecycleAssumption
  <2>2. saw \in [Requests -> Reading]
    BY <1>1 DEF Init, Reading
  <2> QED
    BY <1>1, <2>1, <2>2 DEF Init, TypeOK, Names, Reading
<1>2. TypeOK /\ [Next]_vars => TypeOK'
  <2> SUFFICES ASSUME TypeOK, [Next]_vars PROVE TypeOK'
    OBVIOUS
  <2> USE DEF TypeOK, requestVars, rowVars
  <2>0. /\ actions \in Seq(Action) /\ Len(actions) \in Nat
        /\ \A a \in Action : Append(applied, a) \in Seq(Names)
        /\ Append(applied, Fallback) \in Seq(Names)
    BY DEF LifecycleAssumption, Names
  <2>1. CASE BeginPolicy
    BY <2>1 DEF BeginPolicy, Load
  <2>2. ASSUME NEW a \in {"allow", "flag"}, NEW s \in {"active", "flagged"}, Set(a, s) PROVE TypeOK'
    BY <2>0, <2>2 DEF Set, Now, Apply, Advance, Names, Action
  <2>3. CASE Quarantine
    BY <2>0, <2>3 DEF Quarantine, Now, Apply, Advance, Names, Action
  <2>4. CASE QuarantineRejected
    BY <2>4 DEF QuarantineRejected
  <2>5. CASE Notify
    BY <2>0, <2>5 DEF Notify, Commit, Saved, Now, Apply, Advance, Names, Action
  <2>6. ASSUME NEW a \in {"move_to_spam", "move_to_folder"}, NEW c, NEW folder \in {"spam", "folder"},
               Move(a, c, folder)
        PROVE  TypeOK'
    <3>1. place' \subseteq {"inbox", "spam", "folder"} /\ seen' \in EmailStatus \cup {"expired"}
      BY <2>6 DEF Move, Ask, AfterMove, Load
    <3>2. applied' \in Seq(Names)
      BY <2>0, <2>6 DEF Move, Ask, Apply, Names, Action
    <3> QED
      BY <2>0, <2>6, <3>1, <3>2 DEF Move, Now, Advance, Names
  <2>7. ASSUME NEW a \in {"move_to_spam", "move_to_folder"}, NEW c, MoveFallback(a, c) PROVE TypeOK'
    BY <2>0, <2>7 DEF MoveFallback, Now, Apply, Advance, Names
  <2>8. CASE Delete
    <3>1. place' \subseteq {"inbox", "spam", "folder"} /\ seen' \in EmailStatus \cup {"expired"}
      BY <2>8 DEF Delete, Load
    <3>2. applied' \in Seq(Names) /\ unsaved' \in EmailStatus \cup {"none"}
      BY <2>0, <2>8 DEF Delete, Apply, Names, Action
    <3> QED
      BY <2>0, <2>8, <3>1, <3>2 DEF Delete, Now, Advance, Names
  <2>9. CASE EndPolicy
    BY <2>9 DEF EndPolicy, Commit, Saved
  <2>10. CASE RecordActions
    BY <2>10 DEF RecordActions
  <2>11. CASE Kill
    BY <2>11 DEF Kill
  <2>12. ASSUME NEW r \in Requests, ReadFirst(r) \/ ReadSecond(r) PROVE TypeOK'
    <3>1. /\ at' \in [Requests -> {"start", "reading", "writing", "done"}]
          /\ UNCHANGED rowVars /\ UNCHANGED policyVars /\ UNCHANGED <<op, overlap>>
      BY <2>12 DEF ReadFirst, ReadSecond, Moveto
    <3>2. saw' \in [Requests -> Reading]
      BY <2>12, ReadItemReads, ReadEmailReads DEF ReadFirst, ReadSecond, Reading
    <3> QED
      BY <3>1, <3>2 DEF policyVars, Reading
  <2>13. ASSUME NEW r \in Requests, Decide(r) PROVE TypeOK'
    <3>1. /\ at' \in [Requests -> {"start", "reading", "writing", "done"}]
          /\ UNCHANGED policyVars /\ UNCHANGED <<op, saw, overlap>>
      BY <2>13, DecideFinishes DEF Finish, Moveto
    <3>2. item' \in QuarantineStatus \cup {"none"} /\ status' \in EmailStatus /\ class' \in {"threat", "clean"}
      BY <2>13 DEF Decide, Release, MarkSafe, DeletePermanently, DeleteEmail, ReleaseNothing, Write
    <3> QED
      BY <3>1, <3>2 DEF policyVars
  <2>14. CASE UNCHANGED vars
    BY <2>14 DEF vars
  <2> QED
    BY <2>1, <2>2, <2>3, <2>4, <2>5, <2>6, <2>7, <2>8, <2>9, <2>10, <2>11, <2>12, <2>13, <2>14
    DEF Next, PolicyStep, RequestStep, Decide, Allow, Flag
<1> QED
  BY <1>1, <1>2, PTL DEF Spec

-----------------------------------------------------------------------------
\* Marking safe is the only step that makes an item marked safe, and it makes
\* the email clean in the same commit; nothing makes it unclean again.
THEOREM MarkedSafeIsAlwaysClean == Spec => []MarkedSafeIsClean
<1>1. Init => MarkedSafeIsClean
  BY DEF Init, MarkedSafeIsClean
<1>2. TypeOK /\ MarkedSafeIsClean /\ [Next]_vars => MarkedSafeIsClean'
  <2> SUFFICES ASSUME TypeOK, MarkedSafeIsClean, [Next]_vars PROVE MarkedSafeIsClean'
    OBVIOUS
  <2> USE DEF MarkedSafeIsClean, rowVars
  <2>1. CASE PolicyStep \/ Kill
    <3>1. UNCHANGED class /\ (UNCHANGED item \/ item' = "quarantined")
      BY <2>1 DEF PolicyStep, Kill, BeginPolicy, Allow, Flag, Set, Quarantine, QuarantineRejected, Notify,
                  Move, MoveFallback, Delete, EndPolicy, RecordActions, Advance
    <3> QED
      BY <3>1
  <2>2. ASSUME NEW r \in Requests, ReadFirst(r) \/ ReadSecond(r) PROVE MarkedSafeIsClean'
    BY <2>2 DEF ReadFirst, ReadSecond
  <2>3. ASSUME NEW r \in Requests, Decide(r) PROVE MarkedSafeIsClean'
    BY <2>3 DEF Decide, Release, MarkSafe, DeletePermanently, DeleteEmail, ReleaseNothing, Write
  <2>4. CASE UNCHANGED vars
    BY <2>4 DEF vars
  <2> QED
    BY <2>1, <2>2, <2>3, <2>4 DEF Next, RequestStep, Decide
<1> QED
  BY <1>1, <1>2, TypeCorrect, PTL DEF Spec

\* The only step that may leave no folder with the message is the policy's
\* delete, which stands in the list being executed.
THEOREM MessageIsAlwaysKept == Spec => []MessageKept
<1>1. Init => MessageKept
  BY DEF Init, MessageKept
<1>2. TypeOK /\ MessageKept /\ [Next]_vars => MessageKept'
  <2> SUFFICES ASSUME TypeOK, MessageKept, [Next]_vars PROVE MessageKept'
    OBVIOUS
  <2>1. CASE UNCHANGED <<place, actions>>
    BY <2>1 DEF MessageKept
  <2>2. ASSUME NEW a, NEW c, NEW folder, Move(a, c, folder) PROVE MessageKept'
    BY <2>2 DEF Move, Ask, AfterMove, Advance, MessageKept
  <2>3. CASE Delete
    <3>1. step \in DOMAIN actions /\ actions[step] = "delete" /\ UNCHANGED actions
      BY <2>3, LifecycleAssumption DEF Delete, Now, Advance, TypeOK, LifecycleAssumption
    <3> QED
      BY <3>1 DEF MessageKept
  <2>4. CASE PolicyStep
    BY <2>1, <2>2, <2>3, <2>4
    DEF PolicyStep, BeginPolicy, Allow, Flag, Set, Quarantine, QuarantineRejected, Notify,
        MoveFallback, EndPolicy, RecordActions, Advance
  <2>5. ASSUME NEW r \in Requests, RequestStep(r) PROVE MessageKept'
    BY <2>1, <2>5, DecideFinishes DEF RequestStep, Decide, ReadFirst, ReadSecond, Finish, policyVars
  <2> QED
    BY <2>1, <2>4, <2>5 DEF Next, Kill, vars
<1> QED
  BY <1>1, <1>2, TypeCorrect, PTL DEF Spec

-----------------------------------------------------------------------------
\* What holds before an item and its email can be shown to agree.

\* There is an item only after the policy's quarantine.
QuarantinedBefore ==
  item # "none" => \E i \in DOMAIN actions : i < step /\ actions[i] = "quarantine"

\* What a request has read of an item does not come to nothing.
ItemsStay ==
  \A r \in Requests :
    /\ saw[r].item # "none" => item # "none"
    /\ at[r] \in {"reading", "writing"} /\ op[r] \in ByItem => saw[r].item # "none"

\* The one request between its reading and its writing still sees what is
\* there, where its writing depends on it.
UpToDate(r) ==
  /\ at[r] = "reading" /\ op[r] \in ByItem => saw[r].item = item
  /\ at[r] = "writing" /\ saw[r].item # "none" => saw[r].item = item
  /\ at[r] = "writing" /\ op[r] \in ByItem => saw[r].status = status
  /\ at[r] \in {"reading", "writing"} /\ op[r] = "release_email" /\ saw[r].status = "released" => status = "released"

Idle(r) == at[r] \in {"start", "done"}

Agreement ==
  /\ item # "none" => unsaved = "none" /\ status = Standing[item]
  /\ item = "none" => status # "released"
  /\ \A r, s \in Requests : r # s => Idle(r) \/ Idle(s)
  /\ \A r \in Requests : UpToDate(r)

OrderInv ==
  /\ QuarantinedBefore /\ ItemsStay
  /\ unsaved \in {"none", "active", "flagged", "deleted"}
  /\ InOrder => Agreement

\* A policy step leaves the list and the requests alone, never goes back in the
\* list, and makes an item only by quarantining.
LEMMA PolicyFrame ==
  ASSUME TypeOK, PolicyStep \/ Kill
  PROVE  /\ UNCHANGED <<class, actions, op, at, saw, overlap>>
         /\ step \in Nat /\ step' \in {step, step + 1}
         /\ item' # item => /\ item = "none" /\ item' = "quarantined" /\ status' = "quarantined"
                            /\ unsaved' = "none" /\ step' = step + 1
                            /\ step \in DOMAIN actions /\ actions[step] = "quarantine"
<1>1. Len(actions) \in Nat /\ DOMAIN actions = 1..Len(actions) /\ step \in Nat /\ step >= 1
  BY LifecycleAssumption DEF TypeOK, LifecycleAssumption
<1> QED
  BY <1>1 DEF PolicyStep, Kill, BeginPolicy, Allow, Flag, Set, Quarantine, QuarantineRejected, Notify,
              Move, MoveFallback, Delete, EndPolicy, RecordActions, Advance, Now, rowVars, requestVars

\* As long as all is in order, a policy that runs on after its quarantine only
\* notifies: it changes nothing of the email and its item.
LEMMA PolicyRunsOut ==
  ASSUME TypeOK, OrderInv, InOrder, item # "none", PolicyStep \/ Kill
  PROVE  UNCHANGED <<status, class, item>> /\ unsaved' = "none"
<1>1. unsaved = "none"
  BY DEF OrderInv, Agreement
<1>2. \A a \in Action \ {"notify"} : ~ Now(a)
  <2>1. PICK i \in DOMAIN actions : i < step /\ actions[i] = "quarantine"
    BY DEF OrderInv, QuarantinedBefore
  <2>2. DOMAIN actions = 1..Len(actions) /\ Len(actions) \in Nat /\ step \in Nat /\ step >= 1
    BY LifecycleAssumption DEF TypeOK, LifecycleAssumption
  <2> QED
    BY <2>1, <2>2 DEF InOrder, Now
<1>3. \/ BeginPolicy \/ QuarantineRejected \/ Notify \/ EndPolicy \/ RecordActions \/ Kill
  BY <1>2 DEF PolicyStep, Allow, Flag, Set, Quarantine, Move, MoveFallback, Delete, Action
<1> QED
  BY <1>1, <1>3 DEF BeginPolicy, QuarantineRejected, Notify, EndPolicy, RecordActions, Kill, Commit, Saved,
                    Advance, rowVars

\* Before there is an item, the policy gives the email only the statuses that
\* its actions know.
LEMMA PolicySets ==
  ASSUME TypeOK, PolicyStep \/ Kill, unsaved \in {"none", "active", "flagged", "deleted"}
  PROVE  /\ unsaved' \in {"none", "active", "flagged", "deleted"}
         /\ status' \in {status, "active", "flagged", "deleted", "quarantined"}
BY DEF PolicyStep, Kill, BeginPolicy, Allow, Flag, Set, Quarantine, QuarantineRejected, Notify, Move, MoveFallback,
       Delete, EndPolicy, RecordActions, Advance, Commit, Saved, rowVars

\* What a request may do to the email and its item.
LEMMA RequestFrame ==
  ASSUME TypeOK, ItemsStay, NEW r \in Requests, RequestStep(r)
  PROVE  /\ UNCHANGED policyVars /\ UNCHANGED <<op, overlap>>
         /\ at' \in [Requests -> {"start", "reading", "writing", "done"}]
         /\ at'[r] # at[r] /\ \A s \in Requests \ {r} : at'[s] = at[s]
         /\ item' # "none" <=> item # "none"
<1>1. CASE ReadFirst(r) \/ ReadSecond(r)
  BY <1>1 DEF TypeOK, ReadFirst, ReadSecond, Moveto, rowVars
<1>2. CASE Decide(r)
  <2>1. Finish(r)
    BY <1>2, DecideFinishes
  <2>2. item' # "none" <=> item # "none"
    BY <1>2, <2>1 DEF Decide, Release, MarkSafe, DeletePermanently, DeleteEmail, ReleaseNothing, Write, Finish,
                      ItemsStay, ByItem, rowVars
  <2> QED
    BY <2>1, <2>2 DEF TypeOK, Finish, Moveto
<1> QED
  BY <1>1, <1>2 DEF RequestStep, Decide

LEMMA InOrderStays ==
  ASSUME UNCHANGED <<actions, op, overlap>>
  PROVE  InOrder' <=> InOrder
BY DEF InOrder

LEMMA PolicyKeepsOrder ==
  ASSUME TypeOK, OrderInv, PolicyStep \/ Kill
  PROVE  OrderInv'
<1>1. QuarantinedBefore'
  <2>1. DOMAIN actions \subseteq Nat
    BY LifecycleAssumption DEF TypeOK, LifecycleAssumption
  <2> QED
    BY <2>1, PolicyFrame DEF OrderInv, QuarantinedBefore
<1>2. ItemsStay'
  BY PolicyFrame DEF OrderInv, ItemsStay
<1>3. unsaved' \in {"none", "active", "flagged", "deleted"}
  BY PolicySets DEF OrderInv
<1>4. ASSUME InOrder PROVE Agreement'
  <2>1. Agreement /\ UNCHANGED <<op, at, saw>>
    BY <1>4, PolicyFrame DEF OrderInv
  <2>2. CASE item # "none"
    <3>1. UNCHANGED <<status, item>> /\ unsaved' = "none"
      BY <1>4, <2>2, PolicyRunsOut
    <3> QED
      BY <2>1, <3>1 DEF Agreement, UpToDate, Idle
  <2>3. CASE item = "none"
    <3>1. /\ item' # "none" => item' = "quarantined" /\ status' = "quarantined" /\ unsaved' = "none"
          /\ status # "released" /\ status' # "released"
      BY <2>1, <2>3, PolicyFrame, PolicySets DEF Agreement, OrderInv
    <3>2. \A r \in Requests : saw[r].item = "none" /\ (at[r] \in {"reading", "writing"} => op[r] \notin ByItem)
      BY <2>3 DEF OrderInv, ItemsStay
    <3>3. \A r \in Requests : UpToDate(r)'
      BY <2>1, <3>1, <3>2 DEF Agreement, UpToDate
    <3> QED
      BY <2>1, <3>1, <3>3 DEF Agreement, Idle, Standing
  <2> QED
    BY <2>2, <2>3
<1> QED
  BY <1>1, <1>2, <1>3, <1>4, PolicyFrame, InOrderStays DEF OrderInv

\* A request that starts reads what is there.
LEMMA ReadingKeepsOrder ==
  ASSUME TypeOK, OrderInv, NEW r \in Requests, ReadFirst(r) \/ ReadSecond(r)
  PROVE  OrderInv'
<1>1. /\ UNCHANGED <<status, class, item>> /\ UNCHANGED policyVars /\ UNCHANGED <<op, overlap>>
      /\ \A s \in Requests \ {r} : saw'[s] = saw[s] /\ at'[s] = at[s]
      /\ saw' \in [Requests -> Reading] /\ saw \in [Requests -> Reading]
  <2>1. saw \in [Requests -> Reading] /\ item \in QuarantineStatus \cup {"none"} /\ status \in EmailStatus
    BY DEF TypeOK, Reading
  <2> QED
    BY <2>1, ReadItemReads, ReadEmailReads DEF ReadFirst, ReadSecond, Moveto, rowVars, TypeOK
<1>2. /\ ReadFirst(r) => at[r] = "start" /\ at'[r] = "reading" /\ MayStart(r)
      /\ ReadSecond(r) => at[r] = "reading" /\ at'[r] = "writing"
  BY DEF ReadFirst, ReadSecond, Moveto, TypeOK
<1>3. \/ ReadFirst(r) /\ op[r] \in ByItem /\ item # "none" /\ ReadItem(r)
      \/ ReadFirst(r) /\ op[r] \notin ByItem /\ ReadEmail(r)
      \/ ReadSecond(r) /\ op[r] \in ByItem /\ ReadEmail(r)
      \/ ReadSecond(r) /\ op[r] \notin ByItem /\ ReadItem(r)
  BY DEF ReadFirst, ReadSecond
<1>4. /\ ReadItem(r) => saw'[r].item = item /\ saw'[r].status = saw[r].status
      /\ ReadEmail(r) => saw'[r].item = saw[r].item /\ saw'[r].status = status
  BY ReadItemReads, ReadEmailReads DEF TypeOK, Reading
<1>5. QuarantinedBefore' /\ unsaved' \in {"none", "active", "flagged", "deleted"}
  BY <1>1 DEF OrderInv, QuarantinedBefore, policyVars
<1>6. ItemsStay'
  BY <1>1, <1>2, <1>3, <1>4 DEF OrderInv, ItemsStay
<1>7. ASSUME InOrder PROVE Agreement'
  <2>1. Agreement /\ ~overlap
    BY <1>7 DEF OrderInv, InOrder
  <2>2. \A s \in Requests \ {r} : Idle(s)
    BY <1>2, <2>1 DEF Agreement, Idle, MayStart
  <2>3. UpToDate(r)'
    BY <1>1, <1>2, <1>3, <1>4, <2>1 DEF Agreement, UpToDate, ByItem
  <2>4. \A s \in Requests \ {r} : UpToDate(s)' /\ Idle(s)'
    BY <1>1, <2>2 DEF UpToDate, Idle
  <2> QED
    BY <1>1, <2>1, <2>3, <2>4 DEF Agreement, policyVars
<1> QED
  BY <1>1, <1>5, <1>6, <1>7, InOrderStays DEF OrderInv, policyVars

\* A request that ends leaves the item and the email in agreement.
LEMMA DecidingKeepsOrder ==
  ASSUME TypeOK, OrderInv, NEW r \in Requests, Decide(r)
  PROVE  OrderInv'
<1>1. /\ UNCHANGED policyVars /\ UNCHANGED <<op, overlap, saw>>
      /\ \A s \in Requests \ {r} : at'[s] = at[s]
      /\ item' # "none" <=> item # "none"
  BY RequestFrame, DecideFinishes DEF RequestStep, Decide, Finish, OrderInv
<1>2. at[r] = "writing" /\ at'[r] = "done"
  BY DecideFinishes DEF Finish, Moveto, TypeOK
<1>3. QuarantinedBefore' /\ unsaved' \in {"none", "active", "flagged", "deleted"}
  BY <1>1 DEF OrderInv, QuarantinedBefore, policyVars
<1>4. ItemsStay'
  BY <1>1, <1>2 DEF OrderInv, ItemsStay
<1>5. ASSUME InOrder PROVE Agreement'
  <2>1. Agreement /\ op[r] # "delete_email" /\ UpToDate(r)
    BY <1>5 DEF OrderInv, InOrder, Agreement
  <2>2. \A s \in Requests \ {r} : Idle(s)
    BY <1>2, <2>1 DEF Agreement, Idle
  <2>3. \A s \in Requests : UpToDate(s)' /\ Idle(s)'
    BY <1>1, <1>2, <2>2 DEF UpToDate, Idle
  <2>4. CASE ReleaseNothing(r)
    <3>1. UNCHANGED <<status, item>>
      BY <2>4 DEF ReleaseNothing, rowVars
    <3> QED
      BY <1>1, <2>1, <2>3, <3>1 DEF Agreement, policyVars
  <2>5. CASE ~ ReleaseNothing(r)
    <3>1. saw[r].item # "none" /\ saw[r].item = item
      BY <1>2, <2>1, <2>5 DEF Decide, Release, MarkSafe, DeletePermanently, DeleteEmail, OrderInv, ItemsStay, UpToDate, ByItem
    <3>2. item' # "none" /\ status' = Standing[item']
      BY <1>2, <2>1, <2>5, <3>1
      DEF Decide, Release, MarkSafe, DeletePermanently, DeleteEmail, Write, UpToDate, ByItem, Standing
    <3> QED
      BY <1>1, <2>1, <2>3, <3>1, <3>2 DEF Agreement, policyVars
  <2> QED
    BY <2>4, <2>5
<1> QED
  BY <1>1, <1>3, <1>4, <1>5, InOrderStays DEF OrderInv, policyVars

THEOREM OrderIsKept == Spec => []OrderInv
<1>1. Init => OrderInv
  BY DEF Init, OrderInv, QuarantinedBefore, ItemsStay, Agreement, UpToDate, Idle
<1>2. TypeOK /\ OrderInv /\ [Next]_vars => OrderInv'
  <2> SUFFICES ASSUME TypeOK, OrderInv, [Next]_vars PROVE OrderInv'
    OBVIOUS
  <2>1. CASE UNCHANGED vars
    BY <2>1 DEF vars, OrderInv, QuarantinedBefore, ItemsStay, InOrder, Agreement, UpToDate, Idle
  <2> QED
    BY <2>1, PolicyKeepsOrder, ReadingKeepsOrder, DecidingKeepsOrder DEF Next, RequestStep, Decide
<1> QED
  BY <1>1, <1>2, TypeCorrect, PTL DEF Spec

\* One server process, no deletion from the email's page and nothing but
\* notifications after a quarantine: then the quarantine page and the email
\* page always agree, for any list of actions and any number of requests.
THEOREM ItemAlwaysMatchesEmail == Spec => []ItemMatchesEmail
<1>1. OrderInv => ItemMatchesEmail
  BY DEF OrderInv, Agreement, ItemMatchesEmail
<1> QED
  BY <1>1, OrderIsKept, PTL

\* Under the same conditions a step that is no request's leaves the decision a
\* user has made as it is.
THEOREM PolicyAlwaysKeepsDecision == Spec => PolicyKeepsDecision
<1>1. TypeOK /\ OrderInv /\ [Next]_vars =>
        [InOrder /\ item \notin {"none", "quarantined"} /\ UNCHANGED at => UNCHANGED rowVars]_vars
  <2> SUFFICES ASSUME TypeOK, OrderInv, Next, InOrder, item # "none", UNCHANGED at
               PROVE  UNCHANGED rowVars
    BY DEF rowVars, vars
  <2>1. ~ \E r \in Requests : RequestStep(r)
    BY RequestFrame DEF OrderInv
  <2> QED
    BY <2>1, PolicyRunsOut DEF Next, rowVars
<1> QED
  BY <1>1, TypeCorrect, OrderIsKept, PTL DEF Spec, PolicyKeepsDecision
=============================================================================
