---------------------------- MODULE SenderLists ----------------------------
(***************************************************************************)
(* A list of senders of each organization (app/routes/whitelist.py; the    *)
(* blacklist is a second table with the same routes, app/routes/           *)
(* blacklist.py), edited by page, by import and from an email or its       *)
(* quarantine item, and read by scans.                                     *)
(***************************************************************************)
EXTENDS Accounts, SequencesExt

\* Of one sender: its address and its domain, as values of entries.
Values == {"address", "domain"}

\* entry_type is free text, in the form and in an imported file.
Types == {"email", "domain", "other"}

VARIABLE
  entries  \* entries[<<org, v>>]: the entry of that organization for that value

vars == <<organizations, accounts, request, overlapped, told, started, entries>>
accountVars == <<organizations, accounts>>

NoEntry == [id |-> 0, type |-> "none", state |-> "none"]

Init == AccountsInit /\ entries = [c \in {} |-> NoEntry]

EntryOf(org, v) == IF <<org, v>> \in DOMAIN entries THEN entries[<<org, v>>] ELSE NoEntry
NewEntry(type) == [id |-> started, type |-> type, state |-> "on"]
Put(rows) == entries' = Over(rows, entries)

\* What a scan finds: _load_lists, and whether the sender is listed.
Listed(org) ==
  \/ EntryOf(org, "address").state = "on" /\ EntryOf(org, "address").type = "email"
  \/ EntryOf(org, "domain").state = "on" /\ EntryOf(org, "domain").type = "domain"

-----------------------------------------------------------------------------
\* The requests, of somebody logged in, on the list of his organization.

Ask(s, r) ==
  /\ Start(s, r)
  /\ UNCHANGED <<accountVars, entries>>

Owners == {accounts[e].org : e \in Active}

Doing(s, kind) == request[s].kind = kind
Value(s) == CHOOSE v \in request[s].values : TRUE
Cell(s) == <<request[s].org, Value(s)>>
Current(s) == EntryOf(request[s].org, Value(s))

\* The row the request has loaded is still there.
StillThere(s) == Current(s).id = request[s].saw.id

Answer(s, answer) == End(s, [c \in {<<"entry", Cell(s)>>} |-> answer])

Insert(s, answer) ==
  IF Current(s) = NoEntry
  THEN Put([c \in {Cell(s)} |-> NewEntry(request[s].type)]) /\ Answer(s, answer)
  ELSE UNCHANGED entries /\ Fail(s)

\* An UPDATE of a row that is gone is an error.
Update(s, state, answer) ==
  IF request[s].saw.state = state THEN UNCHANGED entries /\ Answer(s, answer)
  ELSE IF StillThere(s)
  THEN /\ Put([c \in {Cell(s)} |-> [id |-> Current(s).id, type |-> Current(s).type, state |-> state]])
       /\ Answer(s, answer)
  ELSE UNCHANGED entries /\ Fail(s)

\* add looks at nothing before: the unique constraint does.
AskAdd(s) ==
  \E org \in Owners, v \in Values, type \in Types :
    Ask(s, [kind |-> "add", org |-> org, values |-> {v}, type |-> type])

Add(s) == Doing(s, "add") /\ Insert(s, "on") /\ UNCHANGED accountVars

\* toggle and delete load the entry, and find none of another organization.
AskEdit(s) ==
  \E org \in Owners, kind \in {"toggle", "delete"}, v \in Values :
    /\ EntryOf(org, v) # NoEntry
    /\ Ask(s, [kind |-> kind, org |-> org, values |-> {v}, saw |-> EntryOf(org, v)])

Toggle(s) ==
  /\ Doing(s, "toggle")
  /\ LET other == IF request[s].saw.state = "on" THEN "off" ELSE "on"
     IN  Update(s, other, other)
  /\ UNCHANGED accountVars

\* A row that is gone already is no error here.
Delete(s) ==
  /\ Doing(s, "delete")
  /\ entries' = IF StillThere(s) THEN [c \in DOMAIN entries \ {Cell(s)} |-> entries[c]] ELSE entries
  /\ Answer(s, "none")
  /\ UNCHANGED accountVars

\* whitelist_sender and blacklist_sender look for the value under any type.
AskListSender(s) ==
  \E org \in Owners, type \in Types :
    LET v == IF type = "email" THEN "address" ELSE "domain"
    IN  Ask(s, [kind |-> "list", org |-> org, values |-> {v}, type |-> type, saw |-> EntryOf(org, v)])

\* What it answers is true of the sender only if the entry has its type.
ListSender(s) ==
  LET r == request[s]
      answer == IF r.saw.type \in {"none", r.type} /\ r.type # "other" THEN "listed" ELSE "on"
  IN  /\ Doing(s, "list")
      /\ IF r.saw = NoEntry THEN Insert(s, answer) ELSE Update(s, "on", answer)
      /\ UNCHANGED accountVars

\* import_csv reads the list for each row of the file, its own rows included,
\* and commits them all at the end.
Importing(org, type, rest, pending) ==
  [kind |-> "import", org |-> org, values |-> Values, type |-> type, rest |-> rest, pending |-> pending]

AskImport(s) ==
  \E org \in Owners, type \in Types, rows \in SetToSeqs(Values) :
    Ask(s, Importing(org, type, rows, {}))

ImportRow(s) ==
  LET r == request[s]
      v == Head(r.rest)
      pending == IF EntryOf(r.org, v) = NoEntry THEN r.pending \cup {v} ELSE r.pending
  IN  /\ Doing(s, "import") /\ r.rest # <<>>
      /\ request' = [request EXCEPT ![s] = Importing(r.org, r.type, Tail(r.rest), pending)]
      /\ UNCHANGED <<accountVars, overlapped, told, started, entries>>

Imported(s) == [c \in {request[s].org} \X request[s].pending |-> NewEntry(request[s].type)]
AnswerImport(s) == End(s, [c \in {"entry"} \X DOMAIN Imported(s) |-> "on"])

\* Mutant: the rows there is no entry of are added all the same.
ImportRest(s) ==
  /\ Doing(s, "import") /\ request[s].rest = <<>>
  /\ entries' = Over(entries, Imported(s))
  /\ IF DOMAIN Imported(s) \cap DOMAIN entries = {}
     THEN AnswerImport(s) ELSE Fail(s)
  /\ UNCHANGED accountVars

\* One row that was added meanwhile rejects the whole file.
Import(s) ==
  /\ Doing(s, "import") /\ request[s].rest = <<>>
  /\ IF DOMAIN Imported(s) \cap DOMAIN entries = {}
     THEN Put(Imported(s)) /\ AnswerImport(s)
     ELSE UNCHANGED entries /\ Fail(s)
  /\ UNCHANGED accountVars

Next ==
  \/ AccountsNext /\ UNCHANGED entries
  \/ \E s \in Sessions :
       \/ AskAdd(s) \/ AskEdit(s) \/ AskListSender(s) \/ AskImport(s)
       \/ Add(s) \/ Toggle(s) \/ Delete(s) \/ ListSender(s) \/ ImportRow(s) \/ Import(s)

Spec == Init /\ [][Next]_vars

-----------------------------------------------------------------------------
TypeOK ==
  /\ organizations \subseteq Slug
  /\ \A e \in Registered : /\ accounts[e].org \in organizations /\ accounts[e].role \in Roles
                           /\ {accounts[e].active, accounts[e].super} \subseteq Flag
  /\ DOMAIN request = Sessions /\ \A c \in overlapped : InFlight(c)
  /\ started \in 0 .. MaxRequests
  /\ DOMAIN entries \subseteq organizations \X Values
  /\ \A c \in DOMAIN entries : entries[c] \in [id : 1 .. MaxRequests, type : Types, state : {"on", "off"}]

\* What the last request on a value answered still holds, whatever other
\* values other requests change at the same time: of an account's role, its
\* activity and its super admin flag; of an entry, that it is there, enabled,
\* disabled or deleted, and of a sender added to a list, that the next scan
\* finds it there (admin.py:35-50, cli.py:33-49, whitelist.py:26-70, 101-115,
\* quarantine_service.py:49-60, scanner_service.py:38-45).
StateOf(key) == EntryOf(key[1], key[2]).state
Holds(column, row, answer) ==
  IF column # "entry" THEN ValueIn(accounts[row], column) = answer
  ELSE IF answer = "listed" THEN Listed(row[1]) /\ StateOf(row) = "on"
  ELSE StateOf(row) = answer
AnswersHold ==
  /\ \A cell \in DOMAIN told :
       InFlight(cell) \/ \A answer \in told[cell] : Holds(cell[1], cell[2], answer)
  /\ \A key \in DOMAIN entries : <<"entry", key>> \in DOMAIN told
=============================================================================
