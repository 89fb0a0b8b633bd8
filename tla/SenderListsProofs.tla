------------------------- MODULE SenderListsProofs -------------------------
(***************************************************************************)
(* Theorems about SenderLists, and with it about Accounts: for any number  *)
(* of sessions, emails, names and requests.                                *)
(***************************************************************************)
EXTENDS SenderLists, FiniteSetTheorems, WellFoundedInduction, TLAPS

ColumnKinds == {"role", "active", "super"}
EntryKinds == {"add", "toggle", "delete", "list", "import"}
Rows == [id : 1 .. MaxRequests, type : Types, state : {"on", "off"}]

ReadKinds == ColumnKinds \cup {"delete", "list"}

\* What a request holds, with these organizations and accounts.
RequestFits(r, slugs, emails) ==
  /\ r.kind \in {"idle", "register"} \cup ColumnKinds \cup EntryKinds
  /\ r.kind = "idle" <=> r = Idle
  /\ r.kind = "register" => r.email \in Emails /\ r.name \in Names /\ r.slug \in Slug \cup {NoSlug}
  /\ r.kind \in ColumnKinds =>
       /\ r.email \in emails /\ r.email \in Emails
       /\ r.kind = "role" => r.new \in Roles
       /\ r.kind # "role" => r.new \in Flag
  /\ r.kind \in EntryKinds => r.org \in slugs /\ r.values \subseteq Values /\ r.values # {}
  /\ r.kind \in {"add", "toggle", "delete", "list"} => \A v, w \in r.values : v = w
  /\ r.kind \in {"add", "list", "import"} => r.type \in Types
  /\ r.kind \in {"toggle", "delete"} => r.saw \in Rows
  /\ r.kind = "list" =>
       /\ r.saw \in Rows \cup {NoEntry}
       /\ r.values = {IF r.type = "email" THEN "address" ELSE "domain"}
  /\ r.kind = "import" => r.values = Values /\ r.pending \subseteq Values /\ r.rest \in Seq(Values)

RequestsOK ==
  /\ DOMAIN request = Sessions
  /\ \A s \in Sessions : RequestFits(request[s], organizations, Registered)
  /\ \A s \in Sessions : request[s].kind # "idle" => started > 0
  /\ started \in 0 .. MaxRequests

AccountsOK ==
  /\ DOMAIN accounts = Emails
  /\ organizations \subseteq Slug /\ IsFiniteSet(organizations)
  /\ \A e \in Registered : accounts[e].role \in Roles /\ accounts[e].active \in Flag /\ accounts[e].super \in Flag
  /\ EveryOrganizationHasOneAccount

EntriesOK ==
  /\ DOMAIN entries \subseteq organizations \X Values
  /\ \A c \in DOMAIN entries : entries[c] \in Rows

OverlapsOK == \A c \in overlapped : InFlight(c)

\* A value that only one request is under way on: that request knows it.
AtCell(column, row) == IF column = "entry" THEN EntryOf(row[1], row[2]) ELSE ValueIn(accounts[row], column)

OwnCells ==
  \A s \in Sessions : \A c \in Touches(request[s]) \ overlapped :
    /\ \A q \in Sessions \ {s} : c \notin Touches(request[q])
    /\ request[s].kind \in ReadKinds => request[s].saw = AtCell(c[1], c[2])

\* What was answered of a value holds until requests meet on it; of a sender
\* that was listed, for the type that scans look at.
TypeFor(v) == IF v = "address" THEN "email" ELSE "domain"

Firm(column, row, answer) ==
  IF column # "entry" THEN AtCell(column, row) = answer
  ELSE IF answer = "listed" THEN AtCell(column, row).state = "on" /\ AtCell(column, row).type = TypeFor(row[2])
  ELSE AtCell(column, row).state = answer

AnswersFirm ==
  /\ DOMAIN told \subseteq ColumnKinds \X Emails \cup {"entry"} \X (organizations \X Values)
  /\ \A c \in DOMAIN told : c \in overlapped \/ \A answer \in told[c] : Firm(c[1], c[2], answer)
  /\ \A key \in DOMAIN entries : <<"entry", key>> \in DOMAIN told

ListsInv == RequestsOK /\ AccountsOK /\ EntriesOK /\ OverlapsOK /\ OwnCells /\ AnswersFirm
-----------------------------------------------------------------------------
\* Operators of the model.
LEMMA NoSlugIsNone == NoSlug \notin Slug
  BY DEF NoSlug, Slug

LEMMA RegisteredIs == AccountsOK => Registered = {e \in Emails : accounts[e].org \in Slug}
<1>1. NoAccount.org = NoSlug
  BY DEF NoAccount
<1> QED
  BY <1>1, NoSlugIsNone DEF Registered, AccountsOK, EveryOrganizationHasOneAccount

LEMMA TouchesIs ==
  ASSUME NEW r
  PROVE  /\ r.kind \in ColumnKinds => Touches(r) = {<<r.kind, r.email>>}
         /\ r.kind = "register" => Touches(r) = Columns(r.email)
         /\ r.kind = "idle" => Touches(r) = {}
         /\ r.kind \in EntryKinds => Touches(r) = {"entry"} \X ({r.org} \X r.values)
<1>1. r.kind \in ColumnKinds => Touches(r) = {<<r.kind, r.email>>}
  BY Zenon DEF Touches, ColumnKinds
<1>2. r.kind = "register" => Touches(r) = Columns(r.email)
  BY Zenon DEF Touches
<1>3. r.kind = "idle" => Touches(r) = {}
  BY Zenon DEF Touches
<1>4. r.kind \in EntryKinds => Touches(r) = {"entry"} \X ({r.org} \X r.values)
  BY ZenonT(60) DEF Touches, EntryKinds
<1> QED
  BY <1>1, <1>2, <1>3, <1>4

LEMMA LeastOf ==
  ASSUME NEW S, S \subseteq Nat, S # {}
  PROVE  Min(S) \in S
<1>1. \E x \in S : \A y \in S : <<y, x>> \notin OpToRel(<, Nat)
  BY NatLessThanWellFounded, WFMin, Zenon
<1>2. PICK x \in S : \A y \in S : ~(y < x)
  BY <1>1, Zenon DEF OpToRel
<1>3. \A y \in S : x =< y
  BY <1>2
<1> QED
  BY <1>3 DEF Min

\* A name has a free suffix: there are more suffixes to try than organizations.
LEMMA FreeSuffix ==
  ASSUME IsFiniteSet(organizations), NEW name
  PROVE  Min({k \in 1 .. Cardinality(organizations) + 1 : <<name, k>> \notin organizations}) \in Nat \ {0}
<1> DEFINE N == Cardinality(organizations)
           free == {k \in 1 .. N + 1 : <<name, k>> \notin organizations}
           f == [k \in 1 .. N + 1 |-> <<name, k>>]
<1>1. N \in Nat
  BY FS_CardinalityType
<1>2. free # {}
  <2> SUFFICES ASSUME free = {} PROVE FALSE
    OBVIOUS
  <2>1. \A k \in 1 .. N + 1 : f[k] \in organizations /\ f[k] = <<name, k>>
    OBVIOUS
  <2>2. f \in [1 .. N + 1 -> organizations]
    BY <2>1
  <2>3. DOMAIN f = 1 .. N + 1
    OBVIOUS
  <2> HIDE DEF f
  <2>4. IsInjective(f)
    BY <2>1, <2>3 DEF IsInjective
  <2>5. f \in Injection(1 .. N + 1, organizations)
    BY <2>2, <2>4 DEF Injection
  <2>6. Cardinality(1 .. N + 1) = N + 1
    BY <1>1, FS_Interval
  <2>7. Cardinality(1 .. N + 1) <= N
    BY <2>5, FS_Injection
  <2> QED
    BY <1>1, <2>6, <2>7
<1>3. free \subseteq Nat /\ 0 \notin free
  BY <1>1
<1> HIDE DEF free
<1>4. Min(free) \in free
  BY <1>2, <1>3, LeastOf
<1> QED
  BY <1>3, <1>4 DEF free-----------------------------------------------------------------------------
\* What a step does, whichever request it is of.

\* A request begins, with what it reads.
Begins(s, r) ==
  /\ Start(s, r) /\ UNCHANGED <<accountVars, entries>>
  /\ RequestFits(r, organizations, Registered) /\ r.kind # "idle"
  /\ r.kind \in ReadKinds => \A c \in Touches(r) : r.saw = AtCell(c[1], c[2])
  /\ r.kind = "register" => r.email \notin Registered
  /\ r.kind \in {"role", "active"} => Manages(r.email) # {}

\* It reads more.
Continues(s, r) ==
  /\ request' = [request EXCEPT ![s] = r] /\ UNCHANGED <<accountVars, overlapped, told, started, entries>>
  /\ RequestFits(r, organizations, Registered) /\ Touches(r) = Touches(request[s])
  /\ request[s].kind \in {"register", "import"} /\ r.kind = request[s].kind

\* It commits, or fails: the values it changes are among those it answers,
\* and nobody else's.
Commits(s, answers) ==
  /\ End(s, answers) /\ request[s].kind # "idle" /\ DOMAIN answers \subseteq Touches(request[s])
  /\ AccountsOK' /\ EntriesOK'
  /\ organizations \subseteq organizations' /\ Registered \subseteq Registered'
  /\ \A c \in DOMAIN answers : c \in overlapped \/ Firm(c[1], c[2], answers[c])'
  /\ \A column \in ColumnKinds, e \in Emails :
       <<column, e>> \in DOMAIN answers \/ UNCHANGED AtCell(column, e)
  /\ \A key \in organizations \X Values :
       <<"entry", key>> \in DOMAIN answers \/ UNCHANGED AtCell("entry", key)
  /\ \A key \in DOMAIN entries' \ DOMAIN entries : <<"entry", key>> \in DOMAIN answers

\* No two requests are taken for one, and one that is under way stays there.
LEMMA TouchesFits ==
  ASSUME NEW r, NEW slugs, NEW emails, RequestFits(r, slugs, emails)
  PROVE  /\ Touches(r) \subseteq ColumnKinds \X Emails \cup {"entry"} \X (slugs \X Values)
         /\ r = Idle <=> Touches(r) = {}
<1>1. CASE r.kind \in ColumnKinds
  <2>1. Touches(r) = {<<r.kind, r.email>>} /\ r.email \in Emails
    BY <1>1, TouchesIs DEF RequestFits
  <2>2. r # Idle
    BY <1>1 DEF Idle, ColumnKinds
  <2> QED
    BY <1>1, <2>1, <2>2
<1>2. CASE r.kind = "register"
  <2>1. Touches(r) = ColumnKinds \X {r.email}
    BY <1>2, TouchesIs DEF Columns, ColumnKinds
  <2>2. <<"role", r.email>> \in Touches(r) /\ r.email \in Emails
    BY <1>2, <2>1 DEF RequestFits, ColumnKinds
  <2> QED
    BY <1>2, <2>1, <2>2 DEF RequestFits, Idle
<1>3. CASE r.kind \in EntryKinds
  <2>1. Touches(r) = {"entry"} \X ({r.org} \X r.values)
    BY <1>3, TouchesIs
  <2>2. r.org \in slugs /\ r.values \subseteq Values /\ \E v : v \in r.values
    BY <1>3 DEF RequestFits
  <2>3. Touches(r) \subseteq {"entry"} \X (slugs \X Values) /\ Touches(r) # {}
    <3>1. PICK v : v \in r.values
      BY <2>2
    <3>2. <<"entry", <<r.org, v>>>> \in Touches(r)
      BY <2>1, <3>1
    <3> QED
      BY <2>1, <2>2, <3>2
  <2>4. r # Idle
    BY <1>3 DEF Idle, EntryKinds
  <2> QED
    BY <2>3, <2>4
<1>4. CASE r.kind = "idle"
  BY <1>4, TouchesIs DEF RequestFits
<1> QED
  BY <1>1, <1>2, <1>3, <1>4 DEF RequestFits

LEMMA RequestsKept ==
  ASSUME RequestsOK, NEW s \in Sessions, NEW r, request' = [request EXCEPT ![s] = r],
         RequestFits(r, organizations', Registered'),
         organizations \subseteq organizations', Registered \subseteq Registered',
         started' \in 0 .. MaxRequests, started' >= started, r.kind # "idle" => started' > 0
  PROVE  RequestsOK'
<1>1. \A q \in Sessions : request'[q] = IF q = s THEN r ELSE request[q]
  BY DEF RequestsOK
<1>2. \A q \in Sessions : RequestFits(request'[q], organizations', Registered')
  <2>1. \A q \in Sessions : RequestFits(request[q], organizations', Registered')
    BY DEF RequestsOK, RequestFits
  <2> QED
    BY <1>1, <2>1
<1>3. \A q \in Sessions : request'[q].kind # "idle" => started' > 0
  BY <1>1 DEF RequestsOK
<1>4. DOMAIN request' = Sessions
  BY DEF RequestsOK
<1> QED
  BY <1>2, <1>3, <1>4 DEF RequestsOK-----------------------------------------------------------------------------
\* Every one of the three keeps the invariant.
LEMMA BeginKeeps ==
  ASSUME ListsInv, NEW s \in Sessions, NEW r, Begins(s, r)
  PROVE  ListsInv'
<1> USE DEF ListsInv
<1>1. /\ request[s] = Idle /\ request' = [request EXCEPT ![s] = r] /\ started < MaxRequests /\ started' = started + 1
      /\ overlapped' = overlapped \cup {c \in Touches(r) : InFlight(c)}
      /\ UNCHANGED <<organizations, accounts, entries, told>>
  BY DEF Begins, Start, accountVars
<1>2. Registered' = Registered
  BY <1>1 DEF Registered
<1>3. RequestsOK'
  <2>1. started' \in 0 .. MaxRequests /\ started' >= started /\ started' > 0
    BY <1>1, AccountsAssumption DEF RequestsOK
  <2> QED
    BY <1>1, <1>2, <2>1, RequestsKept DEF Begins
<1>4. AccountsOK' /\ EntriesOK'
  BY <1>1, <1>2 DEF AccountsOK, EntriesOK, EveryOrganizationHasOneAccount
<1>5. \A q \in Sessions : request'[q] = IF q = s THEN r ELSE request[q]
  BY <1>1 DEF RequestsOK
<1>6. Touches(request[s]) = {}
  BY <1>1, TouchesIs DEF Idle
<1>7. \A c : InFlight(c) => InFlight(c)'
  BY <1>5, <1>6 DEF InFlight
<1>8. OverlapsOK'
  BY <1>1, <1>7 DEF OverlapsOK
<1>9. \A column, row : AtCell(column, row)' = AtCell(column, row)
  BY <1>1 DEF AtCell, EntryOf
<1>10. OwnCells'
  <2> SUFFICES ASSUME NEW q \in Sessions, NEW c \in Touches(request'[q]) \ overlapped'
               PROVE  /\ \A p \in Sessions \ {q} : c \notin Touches(request'[p])
                      /\ request'[q].kind \in ReadKinds => request'[q].saw = AtCell(c[1], c[2])
    BY <1>9 DEF OwnCells
  <2>1. CASE q = s
    <3>1. c \in Touches(r) /\ ~InFlight(c)
      BY <1>1, <1>5, <2>1
    <3> QED
      BY <1>5, <2>1, <3>1 DEF InFlight, Begins
  <2>2. CASE q # s
    <3>1. c \in Touches(request[q]) /\ c \notin overlapped /\ InFlight(c)
      BY <1>1, <1>5, <2>2 DEF InFlight
    <3>2. c \notin Touches(r)
      BY <1>1, <3>1
    <3> QED
      BY <1>5, <2>2, <3>1, <3>2 DEF OwnCells
  <2> QED
    BY <2>1, <2>2
<1>11. AnswersFirm'
  <2>1. \A c : c \in overlapped => c \in overlapped'
    BY <1>1
  <2>2. \A column, row, answer : Firm(column, row, answer)' <=> Firm(column, row, answer)
    BY <1>9 DEF Firm
  <2> QED
    BY <1>1, <2>1, <2>2 DEF AnswersFirm
<1> QED
  BY <1>3, <1>4, <1>8, <1>10, <1>11

LEMMA ContinueKeeps ==
  ASSUME ListsInv, NEW s \in Sessions, NEW r, Continues(s, r)
  PROVE  ListsInv'
<1> USE DEF ListsInv
<1>1. /\ request' = [request EXCEPT ![s] = r] /\ Touches(r) = Touches(request[s])
      /\ UNCHANGED <<organizations, accounts, overlapped, told, started, entries>>
      /\ r.kind \notin ReadKinds /\ request[s].kind # "idle"
  BY DEF Continues, accountVars, ReadKinds, ColumnKinds
<1>2. Registered' = Registered
  BY <1>1 DEF Registered
<1>3. RequestsOK'
  <2>1. started' \in 0 .. MaxRequests /\ started' >= started /\ started' > 0
    BY <1>1, AccountsAssumption DEF RequestsOK
  <2> QED
    BY <1>1, <1>2, <2>1, RequestsKept DEF Continues
<1>4. AccountsOK' /\ EntriesOK'
  BY <1>1, <1>2 DEF AccountsOK, EntriesOK, EveryOrganizationHasOneAccount
<1>5. \A q \in Sessions : request'[q] = IF q = s THEN r ELSE request[q]
  BY <1>1 DEF RequestsOK
<1>6. \A q \in Sessions : Touches(request'[q]) = Touches(request[q])
  BY <1>1, <1>5
<1>7. OverlapsOK'
  BY <1>1, <1>6 DEF OverlapsOK, InFlight
<1>8. \A column, row : AtCell(column, row)' = AtCell(column, row)
  BY <1>1 DEF AtCell, EntryOf
<1>9. OwnCells'
  BY <1>1, <1>5, <1>6, <1>8 DEF OwnCells
<1>10. AnswersFirm'
  <2>1. \A column, row, answer : Firm(column, row, answer)' <=> Firm(column, row, answer)
    BY <1>8 DEF Firm
  <2> QED
    BY <1>1, <2>1 DEF AnswersFirm
<1> QED
  BY <1>3, <1>4, <1>7, <1>9, <1>10

LEMMA CommitKeeps ==
  ASSUME ListsInv, NEW s \in Sessions, NEW answers, Commits(s, answers)
  PROVE  ListsInv'
<1> USE DEF ListsInv
<1> DEFINE met == Touches(request[s]) \cap overlapped
<1>1. /\ request' = [request EXCEPT ![s] = Idle]
      /\ overlapped' = overlapped \ {c \in met : \A q \in Sessions \ {s} : c \notin Touches(request[q])}
      /\ told' = Over([c \in met |-> {}], Over([c \in DOMAIN answers |-> {answers[c]}], told))
      /\ UNCHANGED started
  BY DEF Commits, End
<1>2. AccountsOK' /\ EntriesOK' /\ organizations \subseteq organizations' /\ Registered \subseteq Registered'
  BY DEF Commits
<1>3. RequestsOK'
  <2>1. started' \in 0 .. MaxRequests /\ started' >= started
    BY <1>1, AccountsAssumption DEF RequestsOK
  <2>2. RequestFits(Idle, organizations', Registered') /\ Idle.kind = "idle"
    BY DEF RequestFits, Idle, ColumnKinds, EntryKinds
  <2> QED
    BY <1>1, <1>2, <2>1, <2>2, RequestsKept
<1>4. \A q \in Sessions : request'[q] = IF q = s THEN Idle ELSE request[q]
  BY <1>1 DEF RequestsOK
<1>5. Touches(Idle) = {}
  BY TouchesIs DEF Idle
<1>6. \A c \in overlapped' : c \in overlapped /\ (c \in met => \E q \in Sessions \ {s} : c \in Touches(request[q]))
  BY <1>1
<1>7. OverlapsOK'
  <2> SUFFICES ASSUME NEW c \in overlapped' PROVE \E q \in Sessions : c \in Touches(request'[q])
    BY DEF OverlapsOK, InFlight
  <2>1. PICK q \in Sessions : c \in Touches(request[q])
    BY <1>6 DEF OverlapsOK, InFlight
  <2>2. \E p \in Sessions \ {s} : c \in Touches(request[p])
    BY <1>6, <2>1
  <2> QED
    BY <1>4, <2>2
<1>8. ASSUME NEW c, c \in Touches(request[s]), c \notin overlapped
      PROVE  \A q \in Sessions \ {s} : c \notin Touches(request[q])
  BY <1>8 DEF OwnCells
<1>9. ASSUME NEW c \in ColumnKinds \X Emails \cup {"entry"} \X (organizations \X Values), c \notin DOMAIN answers
      PROVE  AtCell(c[1], c[2])' = AtCell(c[1], c[2])
  <2>1. CASE c \in ColumnKinds \X Emails
    <3>1. c[1] \in ColumnKinds /\ c[2] \in Emails /\ c = <<c[1], c[2]>>
      BY <2>1
    <3> QED
      BY <1>9, <3>1 DEF Commits
  <2>2. CASE c \in {"entry"} \X (organizations \X Values)
    <3>1. c[1] = "entry" /\ c[2] \in organizations \X Values /\ c = <<"entry", c[2]>>
      BY <2>2
    <3>2. UNCHANGED AtCell("entry", c[2])
      BY <1>9, <3>1 DEF Commits
    <3> QED
      BY <3>1, <3>2
  <2> QED
    BY <1>9, <2>1, <2>2
<1>10. OwnCells'
  <2> SUFFICES ASSUME NEW q \in Sessions, NEW c \in Touches(request'[q]) \ overlapped'
               PROVE  /\ \A p \in Sessions \ {q} : c \notin Touches(request'[p])
                      /\ request'[q].kind \in ReadKinds => request'[q].saw = AtCell(c[1], c[2])'
    BY DEF OwnCells
  <2>1. q # s /\ c \in Touches(request[q]) /\ request'[q] = request[q]
    BY <1>4, <1>5
  <2>2. c \notin overlapped
    BY <1>1, <2>1
  <2>3. \A p \in Sessions \ {q} : c \notin Touches(request[p])
    BY <2>1, <2>2 DEF OwnCells
  <2>4. c \notin DOMAIN answers
    BY <2>1, <2>3 DEF Commits
  <2>5. c \in ColumnKinds \X Emails \cup {"entry"} \X (organizations \X Values)
    BY <2>1, TouchesFits DEF RequestsOK
  <2>6. request[q].kind \in ReadKinds => request[q].saw = AtCell(c[1], c[2])'
    BY <1>9, <2>1, <2>2, <2>4, <2>5 DEF OwnCells
  <2> QED
    BY <1>4, <1>5, <2>1, <2>3, <2>6
<1>11. AnswersFirm'
  <2> DEFINE empty == [c \in met |-> {}]
             singles == [c \in DOMAIN answers |-> {answers[c]}]
  <2>1. /\ DOMAIN told' = met \cup DOMAIN answers \cup DOMAIN told
        /\ \A c \in met : told'[c] = {}
        /\ \A c \in DOMAIN answers \ met : told'[c] = {answers[c]}
        /\ \A c \in DOMAIN told \ (met \cup DOMAIN answers) : told'[c] = told[c]
    <3>1. DOMAIN empty = met /\ DOMAIN singles = DOMAIN answers
      OBVIOUS
    <3>2. (\A c \in met : empty[c] = {}) /\ (\A c \in DOMAIN answers : singles[c] = {answers[c]})
      OBVIOUS
    <3>3. PICK inner : inner = Over(singles, told)
      OBVIOUS
    <3>4. told' = Over(empty, inner)
      BY <1>1, <3>3
    <3> HIDE DEF empty, singles, met
    <3>5. /\ DOMAIN inner = DOMAIN answers \cup DOMAIN told
          /\ \A c \in DOMAIN answers : inner[c] = {answers[c]}
          /\ \A c \in DOMAIN told \ DOMAIN answers : inner[c] = told[c]
      <4>1. /\ DOMAIN inner = DOMAIN singles \cup DOMAIN told
            /\ \A c \in DOMAIN singles : inner[c] = singles[c]
            /\ \A c \in DOMAIN told \ DOMAIN singles : inner[c] = told[c]
        BY <3>3 DEF Over
      <4> QED
        BY <3>1, <3>2, <4>1
    <3>6. /\ DOMAIN told' = met \cup DOMAIN inner
          /\ \A c \in met : told'[c] = {}
          /\ \A c \in DOMAIN inner \ met : told'[c] = inner[c]
      <4>1. /\ DOMAIN told' = DOMAIN empty \cup DOMAIN inner
            /\ \A c \in DOMAIN empty : told'[c] = empty[c]
            /\ \A c \in DOMAIN inner \ DOMAIN empty : told'[c] = inner[c]
        BY <3>4 DEF Over
      <4> QED
        BY <3>1, <3>2, <4>1
    <3> QED
      BY <3>5, <3>6
  <2>2. DOMAIN answers \subseteq Touches(request[s]) /\ met \subseteq Touches(request[s])
    BY DEF Commits
  <2>3. DOMAIN told' \subseteq ColumnKinds \X Emails \cup {"entry"} \X (organizations' \X Values)
    <3>1. Touches(request[s]) \subseteq ColumnKinds \X Emails \cup {"entry"} \X (organizations \X Values)
      BY TouchesFits DEF RequestsOK
    <3>2. DOMAIN told' \subseteq ColumnKinds \X Emails \cup {"entry"} \X (organizations \X Values)
      BY <2>1, <2>2, <3>1 DEF AnswersFirm
    <3> QED
      BY <1>2, <3>2
  <2>4. ASSUME NEW c \in DOMAIN told', c \notin overlapped', NEW answer \in told'[c]
        PROVE  Firm(c[1], c[2], answer)'
    <3>1. c \notin met
      BY <2>1, <2>4
    <3>2. c \notin overlapped
      BY <1>1, <2>4, <3>1
    <3>3. CASE c \in DOMAIN answers
      BY <2>1, <2>4, <3>1, <3>2, <3>3 DEF Commits
    <3>4. CASE c \notin DOMAIN answers
      <4>1. c \in DOMAIN told /\ answer \in told[c]
        BY <2>1, <2>4, <3>1, <3>4
      <4>2. Firm(c[1], c[2], answer) /\ AtCell(c[1], c[2])' = AtCell(c[1], c[2])
        BY <1>9, <3>2, <3>4, <4>1 DEF AnswersFirm
      <4> QED
        BY <4>2 DEF Firm
    <3> QED
      BY <3>3, <3>4
  <2>5. \A key \in DOMAIN entries' : <<"entry", key>> \in DOMAIN told'
    BY <2>1 DEF Commits, AnswersFirm
  <2> QED
    BY <2>3, <2>4, <2>5 DEF AnswersFirm
<1> QED
  BY <1>2, <1>3, <1>7, <1>10, <1>11-----------------------------------------------------------------------------
\* Every step is one of the three.
LEMMA SettingBegins ==
  ASSUME ListsInv, NEW s \in Sessions, NEW column \in ColumnKinds, NEW e \in Registered, NEW new,
         column = "role" => new \in Roles, column # "role" => new \in Flag,
         column \in {"role", "active"} => Manages(e) # {},
         Start(s, Setting(column, e, new)), UNCHANGED <<accountVars, entries>>
  PROVE  Begins(s, Setting(column, e, new))
<1> DEFINE r == Setting(column, e, new)
<1>1. r.kind = column /\ r.email = e /\ r.new = new /\ r.saw = ValueIn(accounts[e], column)
  BY DEF Setting
<1>2. column \notin EntryKinds \cup {"idle", "register"} /\ e \in Emails
  BY DEF ColumnKinds, EntryKinds, Registered
<1>3. r # Idle
  BY <1>1, <1>2 DEF Idle
<1> HIDE DEF r
<1>4. RequestFits(r, organizations, Registered)
  BY <1>1, <1>2, <1>3 DEF RequestFits, EntryKinds
<1>5. \A c \in Touches(r) : c[1] = column /\ c[2] = e
  BY <1>1, TouchesIs
<1>6. column # "entry"
  BY DEF ColumnKinds
<1>7. \A c \in Touches(r) : r.saw = AtCell(c[1], c[2])
  BY <1>1, <1>5, <1>6 DEF AtCell
<1> QED
  BY <1>1, <1>2, <1>4, <1>7 DEF Begins, r

LEMMA AccountsBegin ==
  ASSUME ListsInv, NEW s \in Sessions, UNCHANGED entries, NEW e \in Emails,
         \/ \E name \in Names : Register(s, e, name)
         \/ \E role \in Roles \cup {"owner"} : SetRole(s, e, role)
         \/ ToggleActive(s, e)
         \/ \E super \in Flag : SetSuperAdmin(s, e, super)
         \/ EnsureSuperAdmin(s, e)
  PROVE  \E r : Begins(s, r)
<1>1. ASSUME NEW name \in Names, Register(s, e, name) PROVE \E r : Begins(s, r)
  <2> DEFINE r == Registration(e, name, NoSlug)
  <2>1. r.kind = "register" /\ r.email = e /\ r.name = name /\ r.slug = NoSlug
    BY DEF Registration
  <2>2. r # Idle
    BY <2>1 DEF Idle
  <2>3. Start(s, r) /\ UNCHANGED <<accountVars, entries>> /\ e \notin Registered
    BY <1>1 DEF Register, accountVars
  <2> HIDE DEF r
  <2>4. RequestFits(r, organizations, Registered)
    BY <2>1, <2>2 DEF RequestFits, EntryKinds, ColumnKinds
  <2>5. Begins(s, r)
    BY <2>1, <2>3, <2>4 DEF Begins, ReadKinds, ColumnKinds
  <2> QED
    BY <2>5
<1>2. ASSUME NEW role, SetRole(s, e, role) PROVE \E r : Begins(s, r)
  <2>1. /\ e \in Registered /\ Manages(e) # {} /\ role \in Roles /\ Start(s, Setting("role", e, role))
        /\ UNCHANGED <<accountVars, entries>>
    BY <1>2 DEF SetRole, accountVars
  <2> QED
    BY <2>1, SettingBegins DEF ColumnKinds
<1>3. CASE ToggleActive(s, e)
  <2>1. PICK new : new = IF accounts[e].active = "yes" THEN "no" ELSE "yes"
    OBVIOUS
  <2>2. /\ e \in Registered /\ Manages(e) # {} /\ Start(s, Setting("active", e, new))
        /\ UNCHANGED <<accountVars, entries>>
    BY <1>3, <2>1 DEF ToggleActive, accountVars
  <2>3. new \in Flag
    BY <2>1 DEF Flag
  <2> QED
    BY <2>2, <2>3, SettingBegins DEF ColumnKinds
<1>4. ASSUME NEW super \in Flag, SetSuperAdmin(s, e, super) PROVE \E r : Begins(s, r)
  <2>1. e \in Registered /\ Start(s, Setting("super", e, super)) /\ UNCHANGED <<accountVars, entries>>
    BY <1>4 DEF SetSuperAdmin, accountVars
  <2> QED
    BY <2>1, SettingBegins DEF ColumnKinds
<1>5. CASE EnsureSuperAdmin(s, e)
  <2>1. SetSuperAdmin(s, e, "yes") /\ "yes" \in Flag
    BY <1>5 DEF EnsureSuperAdmin, Flag
  <2> QED
    BY <1>4, <2>1
<1> QED
  BY <1>1, <1>2, <1>3, <1>4, <1>5

\* The requests on a list.  What those on one value find is what is there.
LEMMA EntryOfRows ==
  ASSUME EntriesOK, NEW org, NEW v
  PROVE  EntryOf(org, v) \in Rows \cup {NoEntry}
BY DEF EntriesOK, EntryOf

LEMMA ListsBegin ==
  ASSUME ListsInv, NEW s \in Sessions, AskAdd(s) \/ AskEdit(s) \/ AskListSender(s) \/ AskImport(s)
  PROVE  \E r : Begins(s, r)
<1>1. Owners \subseteq organizations
  BY DEF Owners, Active, ListsInv, AccountsOK, EveryOrganizationHasOneAccount
<1>2. ASSUME NEW r, Ask(s, r), r.kind \in EntryKinds, RequestFits(r, organizations, Registered),
             r.kind \in {"delete", "list"} => \A v \in r.values : r.saw = EntryOf(r.org, v)
      PROVE  \E q : Begins(s, q)
  <2>1. Start(s, r) /\ UNCHANGED <<accountVars, entries>> /\ r.kind # "idle"
    BY <1>2 DEF Ask, EntryKinds
  <2>2. r.kind \in ReadKinds => \A c \in Touches(r) : r.saw = AtCell(c[1], c[2])
    <3> SUFFICES ASSUME r.kind \in ReadKinds, NEW c \in Touches(r) PROVE r.saw = AtCell(c[1], c[2])
      OBVIOUS
    <3>1. r.kind \in {"delete", "list"}
      BY <1>2 DEF ReadKinds, ColumnKinds, EntryKinds
    <3>2. c[1] = "entry" /\ c[2][1] = r.org /\ c[2][2] \in r.values
      BY <1>2, TouchesIs
    <3> QED
      BY <1>2, <3>1, <3>2 DEF AtCell
  <2>3. r.kind \notin {"register", "role", "active"}
    BY <1>2 DEF EntryKinds
  <2> QED
    BY <1>2, <2>1, <2>2, <2>3 DEF Begins
<1>3. CASE AskAdd(s)
  <2>1. PICK org \in Owners, v \in Values, type \in Types :
          Ask(s, [kind |-> "add", org |-> org, values |-> {v}, type |-> type])
    BY <1>3 DEF AskAdd
  <2>2. PICK r : r = [kind |-> "add", org |-> org, values |-> {v}, type |-> type]
    OBVIOUS
  <2>3. r.kind = "add" /\ r.org = org /\ r.values = {v} /\ r.type = type /\ r # Idle
    BY <2>2 DEF Idle
  <2>4. RequestFits(r, organizations, Registered) /\ r.kind \in EntryKinds
    BY <1>1, <2>3 DEF RequestFits, EntryKinds, ColumnKinds
  <2> QED
    BY <1>2, <2>1, <2>2, <2>3, <2>4
<1>4. CASE AskEdit(s)
  <2>1. PICK org \in Owners, kind \in {"toggle", "delete"}, v \in Values :
          /\ EntryOf(org, v) # NoEntry
          /\ Ask(s, [kind |-> kind, org |-> org, values |-> {v}, saw |-> EntryOf(org, v)])
    BY <1>4 DEF AskEdit
  <2>2. PICK r : r = [kind |-> kind, org |-> org, values |-> {v}, saw |-> EntryOf(org, v)]
    OBVIOUS
  <2>3. r.kind = kind /\ r.org = org /\ r.values = {v} /\ r.saw = EntryOf(org, v) /\ r # Idle
    BY <2>2 DEF Idle
  <2>4. EntryOf(org, v) \in Rows
    BY <2>1, EntryOfRows DEF ListsInv
  <2>5. RequestFits(r, organizations, Registered) /\ r.kind \in EntryKinds
    BY <1>1, <2>3, <2>4 DEF RequestFits, EntryKinds, ColumnKinds
  <2> QED
    BY <1>2, <2>1, <2>2, <2>3, <2>5
<1>5. CASE AskListSender(s)
  <2>1. PICK org \in Owners, type \in Types, v \in Values :
          /\ v = IF type = "email" THEN "address" ELSE "domain"
          /\ Ask(s, [kind |-> "list", org |-> org, values |-> {v}, type |-> type, saw |-> EntryOf(org, v)])
    BY <1>5 DEF AskListSender, Values
  <2>2. PICK r : r = [kind |-> "list", org |-> org, values |-> {v}, type |-> type, saw |-> EntryOf(org, v)]
    OBVIOUS
  <2>3. r.kind = "list" /\ r.org = org /\ r.values = {v} /\ r.type = type /\ r.saw = EntryOf(org, v) /\ r # Idle
    BY <2>2 DEF Idle
  <2>4. EntryOf(org, v) \in Rows \cup {NoEntry}
    BY EntryOfRows DEF ListsInv
  <2>5. RequestFits(r, organizations, Registered) /\ r.kind \in EntryKinds
    BY <1>1, <2>1, <2>3, <2>4 DEF RequestFits, EntryKinds, ColumnKinds
  <2> QED
    BY <1>2, <2>1, <2>2, <2>3, <2>5
<1>6. CASE AskImport(s)
  <2>1. PICK org \in Owners, type \in Types, rows \in SetToSeqs(Values) : Ask(s, Importing(org, type, rows, {}))
    BY <1>6 DEF AskImport
  <2>2. PICK r : r = Importing(org, type, rows, {})
    OBVIOUS
  <2>3. /\ r.kind = "import" /\ r.org = org /\ r.values = Values /\ r.type = type
        /\ r.rest = rows /\ r.pending = {} /\ r # Idle
    BY <2>2 DEF Importing, Idle
  <2>4. rows \in Seq(Values)
    <3>1. IsFiniteSet(Values)
      <4>1. IsFiniteSet({"address"}) /\ IsFiniteSet({"address"} \cup {"domain"})
        BY FS_Singleton, FS_AddElement
      <4>2. Values = {"address"} \cup {"domain"}
        BY DEF Values
      <4> QED
        BY <4>1, <4>2
    <3>2. Cardinality(Values) \in Nat /\ rows \in [1 .. Cardinality(Values) -> Values]
      BY <3>1, FS_CardinalityType DEF SetToSeqs
    <3> QED
      BY <3>2
  <2>5. RequestFits(r, organizations, Registered) /\ r.kind \in EntryKinds
    BY <1>1, <2>3, <2>4 DEF RequestFits, EntryKinds, ColumnKinds, Values
  <2> QED
    BY <1>2, <2>1, <2>2, <2>3, <2>5
<1> QED
  BY <1>3, <1>4, <1>5, <1>6
LEMMA RequestContinues ==
  ASSUME ListsInv, NEW s \in Sessions, (ChooseSlug(s) /\ UNCHANGED entries) \/ ImportRow(s)
  PROVE  \E r : Continues(s, r)
<1>1. CASE ChooseSlug(s) /\ UNCHANGED entries
  <2> DEFINE free == {k \in 1 .. Cardinality(organizations) + 1 : <<request[s].name, k>> \notin organizations}
  <2>1. PICK r : r = Registration(request[s].email, request[s].name, <<request[s].name, Min(free)>>)
    OBVIOUS
  <2>2. /\ request[s].kind = "register" /\ request' = [request EXCEPT ![s] = r]
        /\ UNCHANGED <<organizations, accounts, overlapped, told, started, entries>>
    BY <1>1, <2>1 DEF ChooseSlug
  <2>3. request[s].email \in Emails /\ request[s].name \in Names
    BY <2>2 DEF ListsInv, RequestsOK, RequestFits
  <2>4. Min(free) \in Nat \ {0}
    BY FreeSuffix DEF ListsInv, AccountsOK
  <2> HIDE DEF free
  <2>5. <<request[s].name, Min(free)>> \in Slug
    BY <2>3, <2>4 DEF Slug
  <2>6. /\ r.kind = "register" /\ r.email = request[s].email /\ r.name = request[s].name
        /\ r.slug \in Slug /\ r # Idle
    BY <2>1, <2>5 DEF Registration, Idle
  <2>7. RequestFits(r, organizations, Registered)
    BY <2>3, <2>6 DEF RequestFits, EntryKinds, ColumnKinds
  <2>8. Touches(r) = Touches(request[s])
    BY <2>2, <2>6, TouchesIs
  <2> QED
    BY <2>2, <2>6, <2>7, <2>8 DEF Continues, accountVars
<1>2. CASE ImportRow(s)
  <2> DEFINE old == request[s]
             pending == IF EntryOf(old.org, Head(old.rest)) = NoEntry THEN old.pending \cup {Head(old.rest)}
                        ELSE old.pending
  <2>1. PICK r : r = Importing(old.org, old.type, Tail(old.rest), pending)
    OBVIOUS
  <2>2. /\ old.kind = "import" /\ old.rest # <<>> /\ request' = [request EXCEPT ![s] = r]
        /\ UNCHANGED <<organizations, accounts, overlapped, told, started, entries>>
    BY <1>2, <2>1 DEF ImportRow, Doing, accountVars
  <2>3. /\ old.org \in organizations /\ old.values = Values /\ old.type \in Types
        /\ old.pending \subseteq Values /\ old.rest \in Seq(Values)
    BY <2>2 DEF ListsInv, RequestsOK, RequestFits, EntryKinds
  <2> HIDE DEF old
  <2>4. Head(old.rest) \in Values /\ Tail(old.rest) \in Seq(Values)
    BY <2>2, <2>3
  <2>5. pending \subseteq Values
    BY <2>3, <2>4
  <2> HIDE DEF pending
  <2>6. /\ r.kind = "import" /\ r.org = old.org /\ r.values = Values /\ r.type = old.type
        /\ r.rest = Tail(old.rest) /\ r.pending = pending /\ r # Idle
    BY <2>1 DEF Importing, Idle
  <2>7. RequestFits(r, organizations, Registered)
    <3>1. Values # {}
      BY DEF Values
    <3> QED
      BY <2>3, <2>4, <2>5, <2>6, <3>1 DEF RequestFits, EntryKinds, ColumnKinds
  <2>8. Touches(r) = Touches(old)
    BY <2>2, <2>3, <2>6, TouchesIs DEF EntryKinds
  <2> QED
    BY <2>2, <2>6, <2>7, <2>8 DEF Continues, accountVars, old
<1> QED
  BY <1>1, <1>2

\* A request that changes nothing, and answers nothing or what is so.
LEMMA NothingCommitted ==
  ASSUME ListsInv, NEW s \in Sessions, request[s].kind # "idle", UNCHANGED <<accountVars, entries>>,
         NEW answers, End(s, answers), DOMAIN answers \subseteq Touches(request[s]),
         \A c \in DOMAIN answers : c \in overlapped \/ Firm(c[1], c[2], answers[c])
  PROVE  Commits(s, answers)
<1>1. UNCHANGED <<organizations, accounts, entries, Registered>>
  BY DEF accountVars, Registered
<1>2. AccountsOK' /\ EntriesOK'
  BY <1>1 DEF ListsInv, AccountsOK, EntriesOK, EveryOrganizationHasOneAccount
<1>3. \A column, row : AtCell(column, row)' = AtCell(column, row)
  BY <1>1 DEF AtCell, EntryOf
<1>4. \A column, row, answer : Firm(column, row, answer)' <=> Firm(column, row, answer)
  BY <1>3 DEF Firm
<1> QED
  BY <1>1, <1>2, <1>3, <1>4 DEF Commits

LEMMA Failed ==
  ASSUME ListsInv, NEW s \in Sessions, request[s].kind # "idle", UNCHANGED <<accountVars, entries>>, Fail(s)
  PROVE  \E answers : Commits(s, answers)
<1>1. PICK none : none = [c \in {} |-> {}]
  OBVIOUS
<1>2. End(s, none) /\ DOMAIN none = {}
  BY <1>1 DEF Fail
<1> QED
  BY <1>2, NothingCommitted
LEMMA RegistrationCommits ==
  ASSUME ListsInv, NEW s \in Sessions, CommitRegistration(s), UNCHANGED entries
  PROVE  \E answers : Commits(s, answers)
<1>1. PICK slug, e : slug = request[s].slug /\ e = request[s].email
  OBVIOUS
<1>2. request[s].kind = "register" /\ slug \in Slug /\ e \in Emails
  BY <1>1 DEF CommitRegistration, ListsInv, RequestsOK, RequestFits
<1>3. CASE slug \in organizations \/ e \in Registered
  <2>1. Fail(s) /\ UNCHANGED <<accountVars, entries>>
    BY <1>1, <1>3 DEF CommitRegistration, accountVars
  <2> QED
    BY <1>2, <2>1, Failed
<1>4. CASE ~(slug \in organizations \/ e \in Registered)
  <2>1. PICK answers : answers = [c \in Columns(e) |-> ValueIn(Owner(slug), c[1])]
    OBVIOUS
  <2>2. /\ organizations' = organizations \cup {slug}
        /\ accounts' = [accounts EXCEPT ![e] = Owner(slug)]
        /\ End(s, answers)
    BY <1>1, <1>4, <2>1 DEF CommitRegistration
  <2>3. PICK owner : owner = Owner(slug)
    OBVIOUS
  <2>4. owner.org = slug /\ owner.role \in Roles /\ owner.active \in Flag /\ owner.super \in Flag
    BY <2>3 DEF Owner, Roles, Flag
  <2>5. owner # NoAccount
    BY <1>2, <2>4, NoSlugIsNone DEF NoAccount
  <2>6. DOMAIN accounts' = Emails /\ \A f \in Emails : accounts'[f] = IF f = e THEN owner ELSE accounts[f]
    BY <1>2, <2>2, <2>3 DEF ListsInv, AccountsOK
  <2>7. Registered' = Registered \cup {e}
    BY <1>2, <2>5, <2>6 DEF Registered
  <2>8. EveryOrganizationHasOneAccount'
    <3>1. \A f \in Registered : accounts'[f].org = accounts[f].org /\ f # e
      BY <1>4, <2>6 DEF Registered
    <3>2. accounts'[e].org = slug
      BY <1>2, <2>4, <2>6
    <3>3. /\ organizations = {accounts[f].org : f \in Registered}
          /\ \A f, g \in Registered : accounts[f].org = accounts[g].org => f = g
      BY DEF ListsInv, AccountsOK, EveryOrganizationHasOneAccount
    <3>4. organizations' = {accounts'[f].org : f \in Registered'}
      BY <2>2, <2>7, <3>1, <3>2, <3>3
    <3>5. \A f, g \in Registered' : accounts'[f].org = accounts'[g].org => f = g
      BY <1>4, <2>7, <3>1, <3>2, <3>3
    <3> QED
      BY <3>4, <3>5 DEF EveryOrganizationHasOneAccount
  <2>9. AccountsOK'
    <3>1. organizations' \subseteq Slug /\ IsFiniteSet(organizations')
      BY <1>2, <2>2, FS_AddElement DEF ListsInv, AccountsOK
    <3>2. \A f \in Registered' :
            accounts'[f].role \in Roles /\ accounts'[f].active \in Flag /\ accounts'[f].super \in Flag
      BY <1>4, <2>4, <2>6, <2>7 DEF ListsInv, AccountsOK, Registered
    <3> QED
      BY <2>6, <2>8, <3>1, <3>2 DEF AccountsOK
  <2>10. EntriesOK'
    BY <2>2 DEF ListsInv, EntriesOK
  <2>11. DOMAIN answers = ColumnKinds \X {e} /\ Columns(e) = ColumnKinds \X {e}
    BY <2>1 DEF Columns, ColumnKinds
  <2>12. ASSUME NEW c \in DOMAIN answers PROVE Firm(c[1], c[2], answers[c])'
    <3>1. c[1] # "entry" /\ c[2] = e /\ answers[c] = ValueIn(owner, c[1])
      BY <2>1, <2>3, <2>11 DEF ColumnKinds
    <3>2. accounts'[e] = owner
      BY <1>2, <2>6
    <3> QED
      BY <3>1, <3>2 DEF Firm, AtCell
  <2>13. ASSUME NEW column \in ColumnKinds, NEW f \in Emails, <<column, f>> \notin DOMAIN answers
         PROVE  UNCHANGED AtCell(column, f)
    <3>1. f # e
      BY <2>11, <2>13
    <3> QED
      BY <2>6, <3>1 DEF AtCell, ColumnKinds
  <2>14. \A key : UNCHANGED AtCell("entry", key)
    BY DEF AtCell, EntryOf
  <2>15. Touches(request[s]) = Columns(e)
    BY <1>1, <1>2, TouchesIs
  <2> QED
    BY <1>2, <2>2, <2>7, <2>9, <2>10, <2>11, <2>12, <2>13, <2>14, <2>15 DEF Commits
<1> QED
  BY <1>3, <1>4

LEMMA ColumnCommits ==
  ASSUME ListsInv, NEW s \in Sessions, CommitColumn(s), UNCHANGED entries
  PROVE  \E answers : Commits(s, answers)
<1>1. PICK column, e, new : column = request[s].kind /\ e = request[s].email /\ new = request[s].new
  OBVIOUS
<1>2. column \in ColumnKinds /\ e \in Registered /\ e \in Emails /\ column # "entry" /\ column # "idle"
  BY <1>1 DEF CommitColumn, ListsInv, RequestsOK, RequestFits, ColumnKinds
<1>3. (column = "role" => new \in Roles) /\ (column # "role" => new \in Flag)
  BY <1>1, <1>2 DEF ListsInv, RequestsOK, RequestFits
<1>4. PICK answers : answers = [c \in {<<column, e>>} |-> new]
  OBVIOUS
<1>5. DOMAIN answers = {<<column, e>>} /\ answers[<<column, e>>] = new
  BY <1>4
<1>6. /\ End(s, answers) /\ UNCHANGED organizations
      /\ accounts' = IF new = request[s].saw THEN accounts
                     ELSE [accounts EXCEPT ![e] = Changed(accounts[e], column, new)]
  BY <1>1, <1>4 DEF CommitColumn
<1>7. Touches(request[s]) = {<<column, e>>}
  BY <1>1, <1>2, TouchesIs
<1>8. CASE new = request[s].saw
  <2>1. <<column, e>> \in overlapped \/ new = AtCell(column, e)
    <3>1. ASSUME <<column, e>> \notin overlapped PROVE request[s].saw = AtCell(<<column, e>>[1], <<column, e>>[2])
      BY <1>1, <1>2, <1>7, <3>1 DEF ListsInv, OwnCells, ReadKinds
    <3> QED
      BY <1>8, <3>1
  <2>2. \A c \in DOMAIN answers : c \in overlapped \/ Firm(c[1], c[2], answers[c])
    BY <1>2, <1>5, <2>1 DEF Firm
  <2>3. UNCHANGED <<accountVars, entries>>
    BY <1>6, <1>8 DEF accountVars
  <2> QED
    BY <1>1, <1>2, <1>5, <1>6, <1>7, <2>2, <2>3, NothingCommitted
<1>9. CASE new # request[s].saw
  <2>1. PICK row : row = Changed(accounts[e], column, new)
    OBVIOUS
  <2>2. /\ row.org = accounts[e].org
        /\ row.role = IF column = "role" THEN new ELSE accounts[e].role
        /\ row.active = IF column = "active" THEN new ELSE accounts[e].active
        /\ row.super = IF column = "super" THEN new ELSE accounts[e].super
    BY <2>1 DEF Changed
  <2>3. DOMAIN accounts' = Emails /\ \A f \in Emails : accounts'[f] = IF f = e THEN row ELSE accounts[f]
    BY <1>2, <1>6, <1>9, <2>1 DEF ListsInv, AccountsOK
  <2>4. row.org \in organizations /\ organizations \subseteq Slug
    BY <1>2, <2>2 DEF ListsInv, AccountsOK, EveryOrganizationHasOneAccount
  <2>5. row # NoAccount
    BY <2>4, NoSlugIsNone DEF NoAccount
  <2>6. Registered' = Registered
    BY <1>2, <2>3, <2>5 DEF Registered
  <2>7. \A f \in Emails : accounts'[f].org = accounts[f].org
    BY <2>2, <2>3
  <2>8. AccountsOK'
    <3>1. EveryOrganizationHasOneAccount'
      <4>1. /\ organizations = {accounts[f].org : f \in Registered}
            /\ \A f, g \in Registered : accounts[f].org = accounts[g].org => f = g
        BY DEF ListsInv, AccountsOK, EveryOrganizationHasOneAccount
      <4>2. \A f \in Registered : accounts'[f].org = accounts[f].org
        BY <2>7 DEF Registered
      <4> QED
        BY <1>6, <2>6, <4>1, <4>2 DEF EveryOrganizationHasOneAccount
    <3>2. row.role \in Roles /\ row.active \in Flag /\ row.super \in Flag
      BY <1>2, <1>3, <2>2 DEF ListsInv, AccountsOK, ColumnKinds
    <3>3. \A f \in Registered' :
            accounts'[f].role \in Roles /\ accounts'[f].active \in Flag /\ accounts'[f].super \in Flag
      BY <2>3, <2>6, <3>2 DEF ListsInv, AccountsOK, Registered
    <3> QED
      BY <1>6, <2>3, <3>1, <3>3 DEF ListsInv, AccountsOK
  <2>9. EntriesOK'
    BY <1>6 DEF ListsInv, EntriesOK
  <2>10. ASSUME NEW c \in DOMAIN answers PROVE Firm(c[1], c[2], answers[c])'
    <3>1. c = <<column, e>> /\ accounts'[e] = row
      BY <1>2, <1>5, <2>3
    <3>2. ValueIn(row, column) = new
      BY <1>2, <2>2 DEF ValueIn, ColumnKinds
    <3>3. AtCell(column, e)' = new
      BY <1>2, <3>1, <3>2 DEF AtCell
    <3> QED
      BY <1>2, <1>5, <3>1, <3>3 DEF Firm
  <2>11. ASSUME NEW other \in ColumnKinds, NEW f \in Emails, <<other, f>> \notin DOMAIN answers
         PROVE  UNCHANGED AtCell(other, f)
    <3>1. f # e \/ other # column
      BY <1>5, <2>11
    <3>2. f = e => ValueIn(row, other) = ValueIn(accounts[e], other)
      BY <1>2, <2>2, <3>1 DEF ValueIn, ColumnKinds
    <3> QED
      BY <2>3, <3>2 DEF AtCell, ColumnKinds
  <2>12. \A key : UNCHANGED AtCell("entry", key)
    BY DEF AtCell, EntryOf
  <2> QED
    BY <1>1, <1>2, <1>5, <1>6, <1>7, <2>6, <2>8, <2>9, <2>10, <2>11, <2>12 DEF Commits
<1> QED
  BY <1>8, <1>9
\* The requests on one value.
LEMMA CellIs ==
  ASSUME ListsInv, NEW s \in Sessions, request[s].kind \in {"add", "toggle", "delete", "list"}
  PROVE  /\ request[s].org \in organizations /\ Value(s) \in Values /\ Cell(s) \in organizations \X Values
         /\ Cell(s)[1] = request[s].org /\ Cell(s)[2] = Value(s)
         /\ request[s].values = {Value(s)} /\ Touches(request[s]) = {<<"entry", Cell(s)>>}
         /\ Current(s) = AtCell("entry", Cell(s)) /\ Current(s) \in Rows \cup {NoEntry}
         /\ request[s].kind \in {"delete", "list"} =>
              <<"entry", Cell(s)>> \in overlapped \/ request[s].saw = Current(s)
<1>1. request[s].kind \in EntryKinds
  BY DEF EntryKinds
<1>2. /\ request[s].org \in organizations /\ request[s].values \subseteq Values /\ request[s].values # {}
      /\ \A v, w \in request[s].values : v = w
  BY <1>1 DEF ListsInv, RequestsOK, RequestFits
<1>3. Value(s) \in request[s].values
  BY <1>2 DEF Value
<1>4. PICK v : v = Value(s)
  OBVIOUS
<1>5. request[s].values = {v} /\ v \in Values
  BY <1>2, <1>3, <1>4
<1>6. Cell(s) = <<request[s].org, v>>
  BY <1>4 DEF Cell
<1>7. Touches(request[s]) = {<<"entry", Cell(s)>>}
  BY <1>1, <1>5, <1>6, TouchesIs
<1>8. Current(s) = AtCell("entry", Cell(s))
  BY <1>4, <1>6 DEF Current, AtCell
<1>9. Current(s) \in Rows \cup {NoEntry}
  BY EntryOfRows DEF Current, ListsInv
<1>10. ASSUME request[s].kind \in {"delete", "list"}, <<"entry", Cell(s)>> \notin overlapped
       PROVE  request[s].saw = Current(s)
  <2>1. PICK c : c = <<"entry", Cell(s)>>
    OBVIOUS
  <2>2. c \in Touches(request[s]) \ overlapped /\ c[1] = "entry" /\ c[2] = Cell(s)
    BY <1>7, <1>10, <2>1
  <2>3. request[s].saw = AtCell(c[1], c[2])
    BY <1>10, <2>2 DEF ListsInv, OwnCells, ReadKinds
  <2> QED
    BY <1>8, <2>2, <2>3
<1> QED
  BY <1>2, <1>4, <1>5, <1>6, <1>7, <1>8, <1>9, <1>10

LEMMA OneEntry ==
  ASSUME ListsInv, NEW s \in Sessions, request[s].kind \in {"add", "toggle", "delete", "list"},
         UNCHANGED accountVars, NEW k, k = Cell(s), NEW answer, Answer(s, answer), EntriesOK',
         \A c : c # k => (c \in DOMAIN entries' <=> c \in DOMAIN entries) /\ (c \in DOMAIN entries => entries'[c] = entries[c]),
         <<"entry", k>> \in overlapped \/ Firm("entry", k, answer)'
  PROVE  \E answers : Commits(s, answers)
<1>1. PICK answers : answers = [c \in {<<"entry", k>>} |-> answer]
  OBVIOUS
<1>2. DOMAIN answers = {<<"entry", k>>} /\ answers[<<"entry", k>>] = answer /\ End(s, answers)
  BY <1>1 DEF Answer
<1>3. Touches(request[s]) = {<<"entry", k>>}
  BY CellIs
<1>4. UNCHANGED <<organizations, accounts, Registered>>
  BY DEF accountVars, Registered
<1>5. AccountsOK'
  BY <1>4 DEF ListsInv, AccountsOK, EveryOrganizationHasOneAccount
<1>6. \A c \in DOMAIN answers : c \in overlapped \/ Firm(c[1], c[2], answers[c])'
  BY <1>2
<1>7. \A column \in ColumnKinds, e \in Emails : UNCHANGED AtCell(column, e)
  BY <1>4 DEF AtCell, ColumnKinds
<1>8. ASSUME NEW key \in organizations \X Values, <<"entry", key>> \notin DOMAIN answers
      PROVE  UNCHANGED AtCell("entry", key)
  <2>1. key # k /\ key = <<key[1], key[2]>>
    BY <1>2, <1>8
  <2> QED
    BY <2>1 DEF AtCell, EntryOf
<1>9. \A key \in DOMAIN entries' \ DOMAIN entries : <<"entry", key>> \in DOMAIN answers
  BY <1>2
<1> QED
  BY <1>2, <1>3, <1>4, <1>5, <1>6, <1>7, <1>8, <1>9 DEF Commits

LEMMA PutOne ==
  ASSUME EntriesOK, UNCHANGED organizations, NEW k \in organizations \X Values, NEW row \in Rows,
         Put([c \in {k} |-> row])
  PROVE  /\ EntriesOK'
         /\ \A c : c # k => (c \in DOMAIN entries' <=> c \in DOMAIN entries) /\ (c \in DOMAIN entries => entries'[c] = entries[c])
         /\ AtCell("entry", k)' = row
<1>1. PICK rows : rows = [c \in {k} |-> row]
  OBVIOUS
<1>2. DOMAIN rows = {k} /\ rows[k] = row
  BY <1>1
<1>3. /\ DOMAIN entries' = DOMAIN rows \cup DOMAIN entries
      /\ \A c \in DOMAIN rows \cup DOMAIN entries : entries'[c] = IF c \in DOMAIN rows THEN rows[c] ELSE entries[c]
  BY <1>1 DEF Put, Over
<1>4. DOMAIN entries' = {k} \cup DOMAIN entries /\ entries'[k] = row
  BY <1>2, <1>3
<1>5. \A c : c # k => (c \in DOMAIN entries' <=> c \in DOMAIN entries) /\ (c \in DOMAIN entries => entries'[c] = entries[c])
  BY <1>2, <1>3
<1>6. EntriesOK'
  BY <1>4, <1>5 DEF EntriesOK
<1>7. AtCell("entry", k)' = row
  <2>1. k = <<k[1], k[2]>>
    OBVIOUS
  <2> QED
    BY <1>4, <2>1 DEF AtCell, EntryOf
<1> QED
  BY <1>5, <1>6, <1>7

LEMMA Inserted ==
  ASSUME ListsInv, NEW s \in Sessions, request[s].kind \in {"add", "list"}, UNCHANGED accountVars,
         NEW answer, answer = "on" \/ (answer = "listed" /\ request[s].type = TypeFor(Value(s))),
         Insert(s, answer)
  PROVE  \E answers : Commits(s, answers)
<1>1. CASE Current(s) = NoEntry
  <2>1. PICK k, row : k = Cell(s) /\ row = NewEntry(request[s].type)
    OBVIOUS
  <2>2. Put([c \in {k} |-> row]) /\ Answer(s, answer)
    BY <1>1, <2>1 DEF Insert
  <2>3. request[s].type \in Types /\ started \in 1 .. MaxRequests
    BY AccountsAssumption DEF ListsInv, RequestsOK, RequestFits
  <2>4. row \in Rows /\ row.state = "on" /\ row.type = request[s].type
    BY <2>1, <2>3 DEF NewEntry, Rows
  <2>5. k \in organizations \X Values /\ k[2] = Value(s)
    BY <2>1, CellIs
  <2>6. UNCHANGED organizations
    BY DEF accountVars
  <2>7. /\ EntriesOK'
        /\ \A c : c # k => (c \in DOMAIN entries' <=> c \in DOMAIN entries) /\ (c \in DOMAIN entries => entries'[c] = entries[c])
        /\ AtCell("entry", k)' = row
    BY <2>2, <2>4, <2>5, <2>6, PutOne DEF ListsInv
  <2>8. Firm("entry", k, answer)'
    BY <2>4, <2>5, <2>7 DEF Firm
  <2> QED
    BY <2>1, <2>2, <2>7, <2>8, OneEntry
<1>2. CASE Current(s) # NoEntry
  <2>1. Fail(s) /\ UNCHANGED <<accountVars, entries>>
    BY <1>2 DEF Insert
  <2> QED
    BY <2>1, Failed
<1> QED
  BY <1>1, <1>2

LEMMA Updated ==
  ASSUME ListsInv, NEW s \in Sessions, request[s].kind \in {"toggle", "list"}, UNCHANGED accountVars,
         request[s].saw \in Rows, NEW state \in {"on", "off"}, request[s].kind = "toggle" => state # request[s].saw.state,
         NEW answer, \/ answer = state
                     \/ /\ answer = "listed" /\ state = "on"
                        /\ request[s].kind = "list" /\ request[s].saw.type = TypeFor(Value(s)),
         Update(s, state, answer)
  PROVE  \E answers : Commits(s, answers)
<1>1. CASE request[s].saw.state = state
  <2>1. Answer(s, answer) /\ UNCHANGED entries /\ request[s].kind = "list"
    BY <1>1 DEF Update
  <2>2. PICK k : k = Cell(s)
    OBVIOUS
  <2>3. k[2] = Value(s) /\ (<<"entry", k>> \in overlapped \/ request[s].saw = AtCell("entry", k))
    BY <2>1, <2>2, CellIs
  <2>4. <<"entry", k>> \in overlapped \/ Firm("entry", k, answer)
    BY <1>1, <2>3 DEF Firm
  <2>5. PICK answers : answers = [c \in {<<"entry", k>>} |-> answer]
    OBVIOUS
  <2>6. DOMAIN answers = {<<"entry", k>>} /\ answers[<<"entry", k>>] = answer /\ End(s, answers)
    BY <2>1, <2>2, <2>5 DEF Answer
  <2>7. \A c \in DOMAIN answers : c \in overlapped \/ Firm(c[1], c[2], answers[c])
    BY <2>4, <2>6
  <2>8. Touches(request[s]) = {<<"entry", k>>}
    BY <2>2, CellIs
  <2> QED
    BY <2>1, <2>6, <2>7, <2>8, NothingCommitted
<1>2. CASE request[s].saw.state # state /\ StillThere(s)
  <2>1. PICK k, row : k = Cell(s) /\ row = [id |-> Current(s).id, type |-> Current(s).type, state |-> state]
    OBVIOUS
  <2>2. Put([c \in {k} |-> row]) /\ Answer(s, answer)
    BY <1>2, <2>1 DEF Update
  <2>3. Current(s) \in Rows
    <3>1. Current(s).id = request[s].saw.id /\ request[s].saw.id # 0
      BY <1>2 DEF StillThere, Rows
    <3>2. NoEntry.id = 0
      BY DEF NoEntry
    <3> QED
      BY <3>1, <3>2, CellIs
  <2>4. row \in Rows /\ row.state = state /\ row.type = Current(s).type
    BY <2>1, <2>3 DEF Rows
  <2>5. /\ k \in organizations \X Values /\ k[2] = Value(s)
        /\ request[s].kind = "list" => <<"entry", k>> \in overlapped \/ request[s].saw = Current(s)
    BY <2>1, CellIs
  <2>6. UNCHANGED organizations
    BY DEF accountVars
  <2>7. /\ EntriesOK'
        /\ \A c : c # k => (c \in DOMAIN entries' <=> c \in DOMAIN entries) /\ (c \in DOMAIN entries => entries'[c] = entries[c])
        /\ AtCell("entry", k)' = row
    BY <2>2, <2>4, <2>5, <2>6, PutOne DEF ListsInv
  <2>8. <<"entry", k>> \in overlapped \/ Firm("entry", k, answer)'
    BY <2>4, <2>5, <2>7 DEF Firm
  <2> QED
    BY <2>1, <2>2, <2>7, <2>8, OneEntry
<1>3. CASE request[s].saw.state # state /\ ~StillThere(s)
  <2>1. Fail(s) /\ UNCHANGED <<accountVars, entries>>
    BY <1>3 DEF Update
  <2> QED
    BY <2>1, Failed
<1> QED
  BY <1>1, <1>2, <1>3
LEMMA DeleteCommits ==
  ASSUME ListsInv, NEW s \in Sessions, Delete(s)
  PROVE  \E answers : Commits(s, answers)
<1>1. request[s].kind = "delete" /\ Answer(s, "none") /\ UNCHANGED accountVars
  BY DEF Delete, Doing
<1>2. PICK k : k = Cell(s)
  OBVIOUS
<1>3. /\ k \in organizations \X Values /\ k[2] = Value(s) /\ Current(s) = AtCell("entry", k)
      /\ <<"entry", k>> \in overlapped \/ request[s].saw = Current(s)
  BY <1>1, <1>2, CellIs
<1>4. entries' = IF StillThere(s) THEN [c \in DOMAIN entries \ {k} |-> entries[c]] ELSE entries
  BY <1>2 DEF Delete
<1>5. \A c : c # k => (c \in DOMAIN entries' <=> c \in DOMAIN entries) /\ (c \in DOMAIN entries => entries'[c] = entries[c])
  BY <1>4
<1>6. EntriesOK'
  <2>1. DOMAIN entries' \subseteq DOMAIN entries /\ \A c \in DOMAIN entries' : entries'[c] = entries[c]
    BY <1>4
  <2>2. UNCHANGED organizations
    BY <1>1 DEF accountVars
  <2> QED
    BY <2>1, <2>2 DEF ListsInv, EntriesOK
<1>7. ASSUME <<"entry", k>> \notin overlapped PROVE Firm("entry", k, "none")'
  <2>1. StillThere(s)
    BY <1>3, <1>7 DEF StillThere
  <2>2. k \notin DOMAIN entries' /\ k = <<k[1], k[2]>>
    BY <1>3, <1>4, <2>1
  <2>3. AtCell("entry", k)' = NoEntry
    BY <2>2 DEF AtCell, EntryOf
  <2> QED
    BY <2>3 DEF Firm, NoEntry
<1> QED
  BY <1>1, <1>2, <1>5, <1>6, <1>7, OneEntry

LEMMA ListSenderCommits ==
  ASSUME ListsInv, NEW s \in Sessions, ListSender(s)
  PROVE  \E answers : Commits(s, answers)
<1>1. PICK saw, type : saw = request[s].saw /\ type = request[s].type
  OBVIOUS
<1>2. PICK answer : answer = IF saw.type \in {"none", type} /\ type # "other" THEN "listed" ELSE "on"
  OBVIOUS
<1>3. /\ request[s].kind = "list" /\ UNCHANGED accountVars
      /\ IF saw = NoEntry THEN Insert(s, answer) ELSE Update(s, "on", answer)
  BY <1>1, <1>2 DEF ListSender, Doing
<1>4. /\ type \in Types /\ saw \in Rows \cup {NoEntry}
      /\ request[s].values = {IF type = "email" THEN "address" ELSE "domain"}
  BY <1>1, <1>3 DEF ListsInv, RequestsOK, RequestFits
<1>5. Value(s) = IF type = "email" THEN "address" ELSE "domain"
  BY <1>3, <1>4, CellIs
<1>6. type # "other" => type = TypeFor(Value(s))
  BY <1>4, <1>5 DEF Types, TypeFor
<1>7. CASE saw = NoEntry
  <2>1. answer = "on" \/ (answer = "listed" /\ type = TypeFor(Value(s)))
    BY <1>2, <1>6
  <2> QED
    BY <1>1, <1>3, <1>7, <2>1, Inserted
<1>8. CASE saw # NoEntry
  <2>1. saw \in Rows /\ saw.type # "none"
    BY <1>4, <1>8 DEF Rows, Types
  <2>2. answer = "on" \/ (answer = "listed" /\ saw.type = TypeFor(Value(s)))
    BY <1>2, <1>6, <2>1
  <2>3. Update(s, "on", answer)
    BY <1>3, <1>8
  <2> QED
    BY <1>1, <1>3, <2>1, <2>2, <2>3, Updated
<1> QED
  BY <1>7, <1>8

LEMMA ImportCommits ==
  ASSUME ListsInv, NEW s \in Sessions, Import(s)
  PROVE  \E answers : Commits(s, answers)
<1>1. request[s].kind = "import" /\ UNCHANGED <<organizations, accounts, accountVars>>
  BY DEF Import, Doing, accountVars
<1>2. PICK rows : rows = Imported(s)
  OBVIOUS
<1>3. PICK org, pending, row : org = request[s].org /\ pending = request[s].pending /\ row = NewEntry(request[s].type)
  OBVIOUS
<1>4. org \in organizations /\ request[s].values = Values /\ pending \subseteq Values /\ request[s].type \in Types
  BY <1>1, <1>3 DEF ListsInv, RequestsOK, RequestFits, EntryKinds
<1>5. started \in 1 .. MaxRequests
  BY <1>1, AccountsAssumption DEF ListsInv, RequestsOK
<1>6. row \in Rows /\ row.state = "on"
  BY <1>3, <1>4, <1>5 DEF NewEntry, Rows
<1>7. DOMAIN rows = {org} \X pending /\ \A c \in DOMAIN rows : rows[c] = row
  BY <1>2, <1>3 DEF Imported
<1>8. CASE DOMAIN rows \cap DOMAIN entries = {}
  <2>1. PICK answers : answers = [c \in {"entry"} \X DOMAIN rows |-> "on"]
    OBVIOUS
  <2>2. Put(rows) /\ End(s, answers)
    BY <1>2, <1>8, <2>1 DEF Import, AnswerImport
  <2>3. DOMAIN answers = {"entry"} \X DOMAIN rows /\ \A c \in DOMAIN answers : answers[c] = "on"
    BY <2>1
  <2>4. /\ DOMAIN entries' = DOMAIN rows \cup DOMAIN entries
        /\ \A c \in DOMAIN entries' : entries'[c] = IF c \in DOMAIN rows THEN rows[c] ELSE entries[c]
    BY <2>2 DEF Put, Over
  <2>5. EntriesOK'
    BY <1>1, <1>4, <1>6, <1>7, <2>4 DEF ListsInv, EntriesOK
  <2>6. UNCHANGED Registered /\ AccountsOK'
    BY <1>1 DEF Registered, ListsInv, AccountsOK, EveryOrganizationHasOneAccount
  <2>7. DOMAIN answers \subseteq Touches(request[s])
    <3>1. Touches(request[s]) = {"entry"} \X ({org} \X Values)
      BY <1>1, <1>3, <1>4, TouchesIs DEF EntryKinds
    <3> QED
      BY <1>4, <1>7, <2>3, <3>1
  <2>8. ASSUME NEW c \in DOMAIN answers PROVE Firm(c[1], c[2], answers[c])'
    <3>1. c[1] = "entry" /\ c[2] \in DOMAIN rows /\ c[2] = <<c[2][1], c[2][2]>> /\ answers[c] = "on"
      BY <1>7, <2>3
    <3>2. AtCell("entry", c[2])' = row
      BY <1>7, <2>4, <3>1 DEF AtCell, EntryOf
    <3> QED
      BY <1>6, <3>1, <3>2 DEF Firm
  <2>9. \A column \in ColumnKinds, e \in Emails : UNCHANGED AtCell(column, e)
    BY <1>1 DEF AtCell, ColumnKinds
  <2>10. ASSUME NEW key \in organizations \X Values, <<"entry", key>> \notin DOMAIN answers
         PROVE  UNCHANGED AtCell("entry", key)
    <3>1. key \notin DOMAIN rows /\ key = <<key[1], key[2]>>
      BY <2>3, <2>10
    <3> QED
      BY <2>4, <3>1 DEF AtCell, EntryOf
  <2>11. \A key \in DOMAIN entries' \ DOMAIN entries : <<"entry", key>> \in DOMAIN answers
    BY <2>3, <2>4
  <2> QED
    BY <1>1, <2>2, <2>5, <2>6, <2>7, <2>8, <2>9, <2>10, <2>11 DEF Commits
<1>9. CASE DOMAIN rows \cap DOMAIN entries # {}
  <2>1. Fail(s) /\ UNCHANGED <<accountVars, entries>>
    BY <1>1, <1>2, <1>9 DEF Import
  <2> QED
    BY <1>1, <2>1, Failed
<1> QED
  BY <1>8, <1>9

\* The whole next-state relation.
LEMMA Steps ==
  ASSUME ListsInv, Next
  PROVE  \E s \in Sessions : \E x : Begins(s, x) \/ Continues(s, x) \/ Commits(s, x)
<1>1. CASE AccountsNext /\ UNCHANGED entries
  BY <1>1, AccountsBegin, RequestContinues, RegistrationCommits, ColumnCommits DEF AccountsNext
<1>2. ASSUME NEW s \in Sessions, AskAdd(s) \/ AskEdit(s) \/ AskListSender(s) \/ AskImport(s) \/ ImportRow(s)
      PROVE  \E x : Begins(s, x) \/ Continues(s, x) \/ Commits(s, x)
  BY <1>2, ListsBegin, RequestContinues
<1>3. ASSUME NEW s \in Sessions, Add(s) PROVE \E x : Commits(s, x)
  <2>1. request[s].kind = "add" /\ Insert(s, "on") /\ UNCHANGED accountVars
    BY <1>3 DEF Add, Doing
  <2> QED
    BY <2>1, Inserted
<1>4. ASSUME NEW s \in Sessions, Toggle(s) PROVE \E x : Commits(s, x)
  <2>1. PICK state : state = IF request[s].saw.state = "on" THEN "off" ELSE "on"
    OBVIOUS
  <2>2. request[s].kind = "toggle" /\ Update(s, state, state) /\ UNCHANGED accountVars
    BY <1>4, <2>1 DEF Toggle, Doing
  <2>3. request[s].saw \in Rows
    BY <2>2 DEF ListsInv, RequestsOK, RequestFits
  <2>4. state \in {"on", "off"} /\ state # request[s].saw.state
    BY <2>1
  <2> QED
    BY <2>2, <2>3, <2>4, Updated
<1> QED
  BY <1>1, <1>2, <1>3, <1>4, DeleteCommits, ListSenderCommits, ImportCommits DEF Next

LEMMA ListsInvariant == Spec => []ListsInv
<1>1. Init => ListsInv
  <2> SUFFICES ASSUME Init PROVE ListsInv
    OBVIOUS
  <2>1. /\ organizations = {} /\ overlapped = {} /\ started = 0 /\ DOMAIN told = {} /\ DOMAIN entries = {}
        /\ DOMAIN accounts = Emails /\ \A e \in Emails : accounts[e] = NoAccount
        /\ DOMAIN request = Sessions /\ \A s \in Sessions : request[s] = Idle
    BY DEF Init, AccountsInit
  <2>2. Registered = {}
    BY <2>1 DEF Registered
  <2>3. RequestsOK
    BY <2>1, AccountsAssumption DEF RequestsOK, RequestFits, Idle, ColumnKinds, EntryKinds
  <2>4. AccountsOK /\ EntriesOK
    BY <2>1, <2>2, FS_EmptySet DEF AccountsOK, EveryOrganizationHasOneAccount, EntriesOK
  <2>5. Touches(Idle) = {}
    BY TouchesIs DEF Idle
  <2> QED
    BY <2>1, <2>3, <2>4, <2>5 DEF ListsInv, OverlapsOK, OwnCells, AnswersFirm
<1>2. ListsInv /\ [Next]_vars => ListsInv'
  <2> SUFFICES ASSUME ListsInv, [Next]_vars PROVE ListsInv'
    OBVIOUS
  <2>1. CASE UNCHANGED vars
    <3>1. UNCHANGED <<organizations, accounts, request, overlapped, told, started, entries>>
      BY <2>1 DEF vars
    <3>2. UNCHANGED Registered /\ \A column, row : AtCell(column, row)' = AtCell(column, row)
      BY <3>1 DEF Registered, AtCell, EntryOf
    <3>3. RequestsOK' /\ AccountsOK' /\ EntriesOK' /\ OverlapsOK'
      BY <3>1, <3>2 DEF ListsInv, RequestsOK, AccountsOK, EveryOrganizationHasOneAccount, EntriesOK, OverlapsOK, InFlight
    <3>4. OwnCells' /\ AnswersFirm'
      BY <3>1, <3>2 DEF ListsInv, OwnCells, AnswersFirm, Firm
    <3> QED
      BY <3>3, <3>4 DEF ListsInv
  <2>2. CASE Next
    BY <2>2, Steps, BeginKeeps, ContinueKeeps, CommitKeeps
  <2> QED
    BY <2>1, <2>2
<1> QED
  BY <1>1, <1>2, PTL DEF Spec-----------------------------------------------------------------------------
\* Accounts, requests and entries have their types, and requests that met are
\* still under way (no role but the two is ever stored, admin.py:35-37).
THEOREM TypeCorrect == Spec => []TypeOK
<1>1. ListsInv => TypeOK
  BY DEF ListsInv, RequestsOK, AccountsOK, EntriesOK, OverlapsOK, EveryOrganizationHasOneAccount, Rows, TypeOK
<1> QED
  BY <1>1, ListsInvariant, PTL

\* Every organization belongs to exactly one account, however registrations
\* race for a name or an email (auth.py:54-86).
THEOREM OrganizationsAreOwned == Spec => []EveryOrganizationHasOneAccount
<1>1. ListsInv => EveryOrganizationHasOneAccount
  BY DEF ListsInv, AccountsOK
<1> QED
  BY <1>1, ListsInvariant, PTL

\* What a request answered holds until another one begins on the same value,
\* however many others run at the same time (admin.py, cli.py, whitelist.py).
THEOREM AnswersAlwaysHold == Spec => []AnswersHold
<1>1. ListsInv => AnswersHold
  <2> SUFFICES ASSUME ListsInv PROVE AnswersHold
    OBVIOUS
  <2>1. ASSUME NEW cell \in DOMAIN told, ~InFlight(cell), NEW answer \in told[cell]
        PROVE  Holds(cell[1], cell[2], answer)
    <3>1. Firm(cell[1], cell[2], answer)
      BY <2>1 DEF ListsInv, OverlapsOK, AnswersFirm
    <3>2. CASE cell[1] # "entry"
      BY <3>1, <3>2 DEF Firm, AtCell, Holds
    <3>3. CASE cell[1] = "entry"
      <4>1. cell \in {"entry"} \X (organizations \X Values)
        BY <2>1, <3>3 DEF ListsInv, AnswersFirm, ColumnKinds
      <4>2. cell[2][2] \in {"address", "domain"}
        BY <4>1 DEF Values
      <4>3. AtCell(cell[1], cell[2]) = EntryOf(cell[2][1], cell[2][2])
        BY <3>3 DEF AtCell
      <4> QED
        BY <3>1, <3>3, <4>2, <4>3 DEF Firm, Holds, StateOf, Listed, TypeFor
    <3> QED
      BY <3>2, <3>3
  <2>2. \A key \in DOMAIN entries : <<"entry", key>> \in DOMAIN told
    BY DEF ListsInv, AnswersFirm
  <2> QED
    BY <2>1, <2>2 DEF AnswersHold
<1> QED
  BY <1>1, ListsInvariant, PTL

\* What is under way on an account's role or activity.
LEMMA TouchesAccount ==
  ASSUME NEW r, r.kind \in {"idle", "register"} \cup ColumnKinds \cup EntryKinds,
         NEW column \in {"role", "active"}, NEW e
  PROVE  <<column, e>> \in Touches(r) <=> r.kind \in {"register", column} /\ r.email = e
<1>1. CASE r.kind \in ColumnKinds
  <2>1. Touches(r) = {<<r.kind, r.email>>} /\ r.kind # "register"
    BY <1>1, TouchesIs DEF ColumnKinds
  <2> QED
    BY <2>1
<1>2. CASE r.kind = "register"
  BY <1>2, TouchesIs DEF Columns
<1>3. CASE r.kind \in EntryKinds
  <2>1. Touches(r) = {"entry"} \X ({r.org} \X r.values)
    BY <1>3, TouchesIs
  <2> QED
    BY <1>3, <2>1 DEF EntryKinds
<1>4. CASE r.kind = "idle"
  BY <1>4, TouchesIs
<1> QED
  BY <1>1, <1>2, <1>3, <1>4

LEMMA StillLockedOut ==
  ASSUME ListsInv, NEW e \in Emails, LockedOut(e), NEW s \in Sessions, NEW x,
         Begins(s, x) \/ Continues(s, x) \/ Commits(s, x)
  PROVE  LockedOut(e)'
<1>1. /\ e \in Registered /\ e \notin Admins
      /\ \A q \in Sessions : <<"role", e>> \notin Touches(request[q]) /\ <<"active", e>> \notin Touches(request[q])
  BY DEF LockedOut, InFlight
<1>2. DOMAIN request = Sessions /\ \A q \in Sessions : RequestFits(request[q], organizations, Registered)
  BY DEF ListsInv, RequestsOK
<1>3. ASSUME NEW r, request' = [request EXCEPT ![s] = r],
             <<"role", e>> \notin Touches(r), <<"active", e>> \notin Touches(r)
      PROVE  ~InFlight(<<"role", e>>)' /\ ~InFlight(<<"active", e>>)'
  <2>1. \A q \in Sessions : request'[q] = IF q = s THEN r ELSE request[q]
    BY <1>2, <1>3
  <2> QED
    BY <1>1, <1>3, <2>1 DEF InFlight
<1>4. CASE Begins(s, x)
  <2>1. request' = [request EXCEPT ![s] = x] /\ UNCHANGED <<organizations, accounts>>
    BY <1>4 DEF Begins, Start, accountVars
  <2>2. x.kind \in {"role", "active"} => x.email # e
    <3> SUFFICES ASSUME x.kind \in {"role", "active"}, x.email = e PROVE FALSE
      OBVIOUS
    <3>1. PICK a \in Admins : accounts[a].org = accounts[e].org
      BY <1>4 DEF Begins, Manages
    <3>2. a \in Registered
      BY <3>1 DEF Admins, Active
    <3>3. a = e
      BY <1>1, <3>1, <3>2 DEF ListsInv, AccountsOK, EveryOrganizationHasOneAccount
    <3> QED
      BY <1>1, <3>3
  <2>3. x.kind = "register" => x.email # e
    BY <1>1, <1>4 DEF Begins
  <2>4. x.kind \in {"idle", "register"} \cup ColumnKinds \cup EntryKinds
    BY <1>4 DEF Begins, RequestFits
  <2>5. <<"role", e>> \notin Touches(x) /\ <<"active", e>> \notin Touches(x)
    BY <2>2, <2>3, <2>4, TouchesAccount
  <2>6. e \in (Registered \ Admins)'
    BY <1>1, <2>1 DEF Registered, Active, Admins
  <2> QED
    BY <1>3, <2>1, <2>5, <2>6 DEF LockedOut
<1>5. CASE Continues(s, x)
  <2>1. request' = [request EXCEPT ![s] = x] /\ UNCHANGED <<organizations, accounts>>
        /\ Touches(x) = Touches(request[s])
    BY <1>5 DEF Continues, accountVars
  <2>2. e \in (Registered \ Admins)'
    BY <1>1, <2>1 DEF Registered, Active, Admins
  <2> QED
    BY <1>1, <1>3, <2>1, <2>2 DEF LockedOut
<1>6. CASE Commits(s, x)
  <2>1. request' = [request EXCEPT ![s] = Idle] /\ DOMAIN x \subseteq Touches(request[s])
        /\ Registered \subseteq Registered'
    BY <1>6 DEF Commits, End
  <2>2. Touches(Idle) = {}
    BY TouchesIs DEF Idle
  <2>3. UNCHANGED AtCell("role", e) /\ UNCHANGED AtCell("active", e)
    <3>1. <<"role", e>> \notin DOMAIN x /\ <<"active", e>> \notin DOMAIN x
      BY <1>1, <2>1
    <3>2. "role" \in ColumnKinds /\ "active" \in ColumnKinds
      BY DEF ColumnKinds
    <3> QED
      BY <1>6, <3>1, <3>2 DEF Commits
  <2>4. accounts'[e].role = accounts[e].role /\ accounts'[e].active = accounts[e].active
    BY <2>3 DEF AtCell, ValueIn
  <2>5. e \in (Registered \ Admins)'
    BY <1>1, <2>1, <2>4 DEF Active, Admins
  <2> QED
    BY <1>3, <2>1, <2>2, <2>5 DEF LockedOut
<1> QED
  BY <1>4, <1>5, <1>6

\* Who is no active admin any more never becomes one again: only an admin of
\* his organization could restore him, and it has nobody else (admin.py:24-50,
\* cli.py, auth.py:63-77).
THEOREM LockOutNeverEnds == Spec => LockOutIsFinal
<1> DEFINE Final == \A e \in Emails : LockedOut(e) => LockedOut(e)'
<1>1. ListsInv /\ [Next]_vars => [Final]_<<organizations, accounts, request>>
  <2> SUFFICES ASSUME ListsInv, [Next]_vars PROVE [Final]_<<organizations, accounts, request>>
    OBVIOUS
  <2>1. CASE UNCHANGED vars
    BY <2>1 DEF vars
  <2>2. CASE Next
    BY <2>2, Steps, StillLockedOut
  <2> QED
    BY <2>1, <2>2
<1> HIDE DEF Final
<1>2. Spec => [][Final]_<<organizations, accounts, request>>
  BY <1>1, ListsInvariant, PTL DEF Spec
<1> QED
  BY <1>2 DEF LockOutIsFinal, Final
=============================================================================
