------------------------------ MODULE Accounts ------------------------------
(***************************************************************************)
(* Accounts and their organizations (app/routes/auth.py, routes/admin.py,  *)
(* app/cli.py).  An account is only ever made by a registration, with an   *)
(* organization of its own; an admin manages the accounts of his           *)
(* organization; the super admin flag is set on the server.                *)
(*                                                                         *)
(* A request reads, then commits one transaction: several requests may be  *)
(* between the two.  A commit writes the columns that were set to another  *)
(* value than the one read, and is rejected as a whole by a unique         *)
(* constraint.  SenderLists adds the requests on the sender lists.         *)
(***************************************************************************)
EXTENDS Naturals, FiniteSetsExt

CONSTANTS
  Sessions,    \* bound: requests at a time
  Emails,
  Names,       \* what organization names come down to as slugs
  MaxRequests  \* bound: requests in all

ASSUME AccountsAssumption == MaxRequests \in Nat

VARIABLES
  organizations,  \* the slugs in use
  accounts,       \* accounts[e]: the row of the account with this email
  request,        \* request[s]: what s is doing, and what it has read
  overlapped,     \* the values on which requests under way have met
  told,           \* the answer of the last request on a value, none if it met another
  started         \* how many requests there were

Roles == {"admin", "user"}
Flag == {"yes", "no"}
Slug == Names \X (Nat \ {0})

NoSlug == <<"none", 0>>
NoAccount == [org |-> NoSlug, role |-> "user", active |-> "no", super |-> "no"]
Idle == [kind |-> "idle"]

Registered == {e \in Emails : accounts[e] # NoAccount}
Active == {e \in Registered : accounts[e].active = "yes"}
Admins == {e \in Active : accounts[e].role = "admin"}

\* The columns of an account's row that requests set.
ValueIn(row, column) ==
  IF column = "role" THEN row.role ELSE IF column = "active" THEN row.active ELSE row.super

Changed(row, column, new) ==
  [org    |-> row.org,
   role   |-> IF column = "role" THEN new ELSE row.role,
   active |-> IF column = "active" THEN new ELSE row.active,
   super  |-> IF column = "super" THEN new ELSE row.super]

\* f where it is defined, and g elsewhere.
Over(f, g) == [x \in DOMAIN f \cup DOMAIN g |-> IF x \in DOMAIN f THEN f[x] ELSE g[x]]

AccountsInit ==
  /\ organizations = {}
  /\ accounts = [e \in Emails |-> NoAccount]
  /\ request = [s \in Sessions |-> Idle]
  /\ overlapped = {} /\ told = [c \in {} |-> {}] /\ started = 0

-----------------------------------------------------------------------------
\* What requests answer: Columns is a value of a row each.
Columns(e) == {"role", "active", "super"} \X {e}

Touches(r) ==
  CASE r.kind \in {"role", "active", "super"} -> {<<r.kind, r.email>>}
    [] r.kind = "register" -> Columns(r.email)
    [] r.kind = "idle" -> {}
    [] OTHER -> {"entry"} \X ({r.org} \X r.values)

InFlight(cell) == \E s \in Sessions : cell \in Touches(request[s])

\* Request r begins, having read what it holds.
Start(s, r) ==
  /\ request[s] = Idle /\ started < MaxRequests
  /\ request' = [request EXCEPT ![s] = r]
  /\ started' = started + 1
  /\ overlapped' = overlapped \cup {cell \in Touches(r) : InFlight(cell)}
  /\ UNCHANGED told

\* It ends, and answers what values are now; where it has met another one,
\* its answer says nothing.
End(s, answers) ==
  LET met == Touches(request[s]) \cap overlapped
  IN  /\ request' = [request EXCEPT ![s] = Idle]
      /\ overlapped' = overlapped \ {c \in met : \A q \in Sessions \ {s} : c \notin Touches(request[q])}
      /\ told' = Over([c \in met |-> {}], Over([c \in DOMAIN answers |-> {answers[c]}], told))
      /\ UNCHANGED started

Fail(s) == End(s, [c \in {} |-> {}])

-----------------------------------------------------------------------------
\* register looks for the email, then for the least suffix that makes a free
\* slug of the name.
Registration(e, name, slug) == [kind |-> "register", email |-> e, name |-> name, slug |-> slug]

Register(s, e, name) ==
  /\ e \notin Registered
  /\ Start(s, Registration(e, name, NoSlug))
  /\ UNCHANGED <<organizations, accounts>>

ChooseSlug(s) ==
  /\ request[s].kind = "register" /\ request[s].slug = NoSlug
  /\ LET r == request[s]
         free == {k \in 1 .. Cardinality(organizations) + 1 : <<r.name, k>> \notin organizations}
     IN  request' = [request EXCEPT ![s] = Registration(r.email, r.name, <<r.name, Min(free)>>)]
  /\ UNCHANGED <<organizations, accounts, overlapped, told, started>>

Owner(slug) == [org |-> slug, role |-> "admin", active |-> "yes", super |-> "no"]

\* Mutant: the organization is committed before the account is added.
CommitOrganization(s) ==
  LET r == request[s]
  IN  /\ r.kind = "register" /\ r.slug # NoSlug
      /\ organizations' = organizations \cup {r.slug}
      /\ IF r.slug \in organizations \/ r.email \in Registered
         THEN UNCHANGED accounts /\ Fail(s)
         ELSE /\ accounts' = [accounts EXCEPT ![r.email] = Owner(r.slug)]
              /\ Fail(s)

\* The organization and its admin, in one transaction.
CommitRegistration(s) ==
  LET r == request[s]
  IN  /\ r.kind = "register" /\ r.slug # NoSlug
      /\ IF r.slug \in organizations \/ r.email \in Registered
         THEN UNCHANGED <<organizations, accounts>> /\ Fail(s)
         ELSE /\ organizations' = organizations \cup {r.slug}
              /\ accounts' = [accounts EXCEPT ![r.email] = Owner(r.slug)]
              /\ End(s, [c \in Columns(r.email) |-> ValueIn(Owner(r.slug), c[1])])

\* Mutant: any account of the organization may manage it.
ManagesAny(e) == {a \in Active : accounts[a].org = accounts[e].org}

\* admin_required, of somebody logged in and active.
Manages(e) == {a \in Admins : accounts[a].org = accounts[e].org}

\* A request that sets one column, of the row it has read.
Setting(column, e, new) == [kind |-> column, email |-> e, saw |-> ValueIn(accounts[e], column), new |-> new]

\* Mutant: any text becomes the role.
SetRoleUnchecked(s, e, role) ==
  /\ e \in Registered /\ Manages(e) # {}
  /\ Start(s, Setting("role", e, role))
  /\ UNCHANGED <<organizations, accounts>>

\* update_role and toggle_active.
SetRole(s, e, role) ==
  /\ e \in Registered /\ Manages(e) # {} /\ role \in Roles
  /\ Start(s, Setting("role", e, role))
  /\ UNCHANGED <<organizations, accounts>>

ToggleActive(s, e) ==
  /\ e \in Registered /\ Manages(e) # {}
  /\ Start(s, Setting("active", e, IF accounts[e].active = "yes" THEN "no" ELSE "yes"))
  /\ UNCHANGED <<organizations, accounts>>

\* create_super_admin and revoke_super_admin.
SetSuperAdmin(s, e, super) ==
  /\ e \in Registered
  /\ Start(s, Setting("super", e, super))
  /\ UNCHANGED <<organizations, accounts>>

\* When the application starts, for the address that is configured.
EnsureSuperAdmin(s, e) ==
  /\ e \in Registered /\ accounts[e].super = "no"
  /\ SetSuperAdmin(s, e, "yes")

\* The column that was set, if it was set to another value.
CommitColumn(s) ==
  LET r == request[s]
  IN  /\ r.kind \in {"role", "active", "super"}
      /\ accounts' = IF r.new = r.saw THEN accounts
                     ELSE [accounts EXCEPT ![r.email] = Changed(@, r.kind, r.new)]
      /\ End(s, [c \in {<<r.kind, r.email>>} |-> r.new])
      /\ UNCHANGED organizations

AccountsNext ==
  \E s \in Sessions :
    \/ ChooseSlug(s) \/ CommitRegistration(s) \/ CommitColumn(s)
    \/ \E e \in Emails :
         \/ \E name \in Names : Register(s, e, name)
         \/ \E role \in Roles \cup {"owner"} : SetRole(s, e, role)
         \/ ToggleActive(s, e)
         \/ \E super \in Flag : SetSuperAdmin(s, e, super)
         \/ EnsureSuperAdmin(s, e)

-----------------------------------------------------------------------------
\* Every organization belongs to exactly one account, and every account has
\* one: registrations that race for a name or an email leave nothing behind
\* (auth.py:63-77, and no other code makes either).
EveryOrganizationHasOneAccount ==
  /\ organizations = {accounts[e].org : e \in Registered}
  /\ \A e, f \in Registered : accounts[e].org = accounts[f].org => e = f

\* An account that is disabled, or no admin any more, and on which no request
\* is under way.
LockedOut(e) ==
  /\ e \in Registered \ Admins
  /\ ~InFlight(<<"role", e>>) /\ ~InFlight(<<"active", e>>)

\* It never gets back in: no route, command or start-up restores it, and its
\* organization has nobody else (admin.py:24-50, cli.py, auth.py:63-77).
LockOutIsFinal ==
  [][\A e \in Emails : LockedOut(e) => LockedOut(e)']_<<organizations, accounts, request>>
=============================================================================
