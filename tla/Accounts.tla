------------------------------ MODULE Accounts ------------------------------
(***************************************************************************)
(* User accounts, administrators and the OIDC provider (auth/service.py,   *)
(* the /setup, /auth/sso, /settings routes of api/ui.py and the            *)
(* set-password and disable-sso commands of cli.py).                       *)
(*                                                                         *)
(* A request is a transaction at READ COMMITTED: each of its SELECTs is an *)
(* action, and what it writes becomes visible in its last one.  Nothing    *)
(* locks what was read, so a count may be out of date when it is used.     *)
(* Accounts are never deleted.  Passwords and API tokens are left out: no  *)
(* decision modelled here reads them.                                      *)
(***************************************************************************)
EXTENDS Integers, FiniteSets

CONSTANTS
    Emails,
    Requests,        \* requests and commands that may be open at once
    Cli,             \* TRUE: set-password is run on the server too
    Seeded,          \* providers already configured when there is no account,
                     \* the case find_or_provision_sso_user provides for
    MaxProviders,    \* bound on provider ids
    Nobody

ASSUME AccountsAssumption ==
    /\ Nobody \notin Emails
    /\ MaxProviders \in Nat
    /\ Seeded \in 0 .. 1 /\ Seeded <= MaxProviders
    /\ IsFiniteSet(Emails)
    /\ IsFiniteSet(Requests) /\ Requests # {}
    /\ Cli \in BOOLEAN

VARIABLES
    users, admins,   \* rows of users, and those with is_admin
    providers,       \* ids of the auth_providers rows
    lastProvider,
    \* per request
    stage, actor, who, want, seen,
    counted          \* the administrators behind the number that a request
                     \* counted; a history, the code keeps only the number

rows    == <<users, admins>>
sso     == <<providers, lastProvider>>
request == <<stage, actor, who, want, seen, counted>>
vars    == <<rows, sso, request>>

Stages == {"idle", "create", "command", "find", "count", "target", "admins", "write",
           "replace", "swap", "remove", "clear", "grant"}

Init ==
    /\ users = {} /\ admins = {}
    /\ providers = 1 .. Seeded /\ lastProvider = Seeded
    /\ stage = [r \in Requests |-> "idle"]
    /\ actor = [r \in Requests |-> Nobody]
    /\ who = [r \in Requests |-> Nobody]
    /\ want = [r \in Requests |-> FALSE]
    /\ seen = [r \in Requests |-> {}]
    /\ counted = [r \in Requests |-> {}]

Goto(r, s) == stage' = [stage EXCEPT ![r] = s]

\* The request ends, by a commit or by an error page.
End(r) ==
    /\ Goto(r, "idle")
    /\ actor' = [actor EXCEPT ![r] = Nobody]
    /\ who' = [who EXCEPT ![r] = Nobody]
    /\ want' = [want EXCEPT ![r] = FALSE]
    /\ seen' = [seen EXCEPT ![r] = {}]
    /\ counted' = [counted EXCEPT ![r] = {}]

\* A request that opens with account a signed in, about account e.
Open(r, s, a, e, x) ==
    /\ stage[r] = "idle"
    /\ Goto(r, s)
    /\ actor' = [actor EXCEPT ![r] = a]
    /\ who' = [who EXCEPT ![r] = e]
    /\ want' = [want EXCEPT ![r] = x]
    /\ UNCHANGED <<rows, sso, seen, counted>>

-----------------------------------------------------------------------------
(* Creating accounts.                                                      *)

\* POST /setup is open while there is no account at all.
Setup(r, e) ==
    /\ users = {}
    /\ Open(r, "create", Nobody, e, TRUE)

\* /auth/sso/callback: the provider is read before the token exchange, the
\* account after it.
SsoCallback(r, e) ==
    /\ providers # {}
    /\ Open(r, "find", Nobody, e, FALSE)

SsoFind(r) ==
    /\ stage[r] = "find"
    /\ IF who[r] \in users
         THEN End(r)
         ELSE Goto(r, "count") /\ UNCHANGED <<actor, who, want, seen, counted>>
    /\ UNCHANGED <<rows, sso>>

\* Mutant: whoever comes in by SSO is an ordinary user.
SsoCountRegular(r) ==
    /\ stage[r] = "count"
    /\ Goto(r, "create")
    /\ UNCHANGED <<rows, sso, actor, who, want, seen, counted>>

\* First user overall becomes admin even via SSO.
SsoCount(r) ==
    /\ stage[r] = "count"
    /\ want' = [want EXCEPT ![r] = users = {}]
    /\ Goto(r, "create")
    /\ UNCHANGED <<rows, sso, actor, who, seen, counted>>

\* Mutant: set-password takes every account to be there already.
CliPasswordNoCreate(r, e, x) ==
    /\ Cli
    /\ Open(r, "grant", Nobody, e, x)

\* dmarc-service set-password: creates the account when it is not there, an
\* administrator only with --admin.
CliPassword(r, e, x) ==
    /\ Cli
    /\ Open(r, IF e \notin users THEN "command" ELSE "grant", Nobody, e, x)

CliGrant(r) ==
    /\ stage[r] = "grant"
    /\ admins' = IF want[r] THEN admins \cup {who[r]} ELSE admins
    /\ End(r)
    /\ UNCHANGED <<users, sso>>

\* create_user; the unique index on the email refuses a second row.
CreateUser(r) ==
    /\ stage[r] \in {"create", "command"}
    /\ IF who[r] \in users
         THEN UNCHANGED rows
         ELSE /\ users' = users \cup {who[r]}
              /\ admins' = IF want[r] THEN admins \cup {who[r]} ELSE admins
    /\ End(r)
    /\ UNCHANGED sso

-----------------------------------------------------------------------------
(* Roles.                                                                  *)

\* change_role: only an administrator's request goes on.
ChangeRole(r, a, e, x) ==
    /\ a \in admins
    /\ Open(r, "target", a, e, x)

\* The target row; set_admin returns at once when it is as wanted.  One's own
\* row is the one read when the request was authorised.
RoleTarget(r) ==
    LET isAdmin == who[r] = actor[r] \/ who[r] \in admins IN
    /\ stage[r] = "target"
    /\ IF who[r] \notin users \/ isAdmin = want[r]
         THEN End(r)
         ELSE /\ Goto(r, IF want[r] THEN "write" ELSE "admins")
              /\ UNCHANGED <<actor, who, want, seen, counted>>
    /\ UNCHANGED <<rows, sso>>

\* Mutant: the last administrator may go.
CountAdminsOffByOne(r) ==
    /\ stage[r] = "admins"
    /\ IF Cardinality(admins) < 1
         THEN End(r)
         ELSE /\ Goto(r, "write")
              /\ counted' = [counted EXCEPT ![r] = admins]
              /\ UNCHANGED <<actor, who, want, seen>>
    /\ UNCHANGED <<rows, sso>>

\* The last administrator cannot be demoted.
CountAdmins(r) ==
    /\ stage[r] = "admins"
    /\ IF Cardinality(admins) <= 1
         THEN End(r)
         ELSE /\ Goto(r, "write")
              /\ counted' = [counted EXCEPT ![r] = admins]
              /\ UNCHANGED <<actor, who, want, seen>>
    /\ UNCHANGED <<rows, sso>>

WriteRole(r) ==
    /\ stage[r] = "write"
    /\ admins' = IF want[r] THEN admins \cup {who[r]} ELSE admins \ {who[r]}
    /\ End(r)
    /\ UNCHANGED <<users, sso>>

-----------------------------------------------------------------------------
(* The SSO provider.                                                       *)

SaveSso(r, a) ==
    /\ a \in admins
    /\ Open(r, "replace", a, Nobody, FALSE)

RemoveSso(r, a) ==
    /\ a \in admins
    /\ Open(r, "remove", a, Nobody, FALSE)

\* dmarc-service disable-sso asks nobody.
CliDisableSso(r) == Open(r, "remove", Nobody, Nobody, FALSE)

ReadProviders(r) ==
    /\ stage[r] \in {"replace", "remove"}
    /\ seen' = [seen EXCEPT ![r] = providers]
    /\ Goto(r, IF stage[r] = "replace" THEN "swap" ELSE "clear")
    /\ UNCHANGED <<rows, sso, actor, who, want, counted>>

\* Mutant: the new provider is added beside the old one.
SwapProviderKeeps(r) ==
    /\ stage[r] = "swap" /\ lastProvider < MaxProviders
    /\ lastProvider' = lastProvider + 1
    /\ providers' = providers \cup {lastProvider'}
    /\ End(r) /\ UNCHANGED rows

\* set_provider: replace whatever is configured.  A row that is already gone
\* only makes the DELETE match fewer rows.
SwapProvider(r) ==
    /\ stage[r] = "swap"
    /\ lastProvider < MaxProviders
    /\ lastProvider' = lastProvider + 1
    /\ providers' = (providers \ seen[r]) \cup {lastProvider'}
    /\ End(r)
    /\ UNCHANGED rows

ClearProviders(r) ==
    /\ stage[r] = "clear"
    /\ providers' = providers \ seen[r]
    /\ End(r)
    /\ UNCHANGED <<rows, lastProvider>>

-----------------------------------------------------------------------------
NewRequest(r) ==
    \/ \E e \in Emails : Setup(r, e) \/ SsoCallback(r, e)
    \/ \E e \in Emails, x \in BOOLEAN : CliPassword(r, e, x)
    \/ \E a, e \in Emails, x \in BOOLEAN : ChangeRole(r, a, e, x)
    \/ \E a \in Emails : SaveSso(r, a) \/ RemoveSso(r, a)
    \/ CliDisableSso(r)

Step(r) ==
    \/ SsoFind(r) \/ SsoCount(r) \/ CreateUser(r) \/ CliGrant(r)
    \/ RoleTarget(r) \/ CountAdmins(r) \/ WriteRole(r)
    \/ ReadProviders(r) \/ SwapProvider(r) \/ ClearProviders(r)

Next == \E r \in Requests : NewRequest(r) \/ Step(r)

Spec == Init /\ [][Next]_vars

-----------------------------------------------------------------------------
(* Properties.                                                             *)

TypeOK ==
    /\ users \subseteq Emails
    /\ admins \subseteq users
    /\ providers \subseteq 1 .. lastProvider
    /\ lastProvider \in 0 .. MaxProviders
    /\ stage \in [Requests -> Stages]
    /\ actor \in [Requests -> Emails \cup {Nobody}]
    /\ who \in [Requests -> Emails \cup {Nobody}]
    /\ want \in [Requests -> BOOLEAN]
    /\ seen \in [Requests -> SUBSET (1 .. MaxProviders)]
    /\ counted \in [Requests -> SUBSET Emails]

\* "The first account created becomes the admin", through /setup or through
\* SSO, whatever other requests are open: the count of accounts that
\* find_or_provision_sso_user made earlier cannot be wrong in that direction.
\* set-password is not bound by it: its --admin is explicit.
FirstAccountIsAdmin ==
    [][(\E r \in Requests : stage[r] = "create" /\ stage'[r] = "idle")
          /\ users = {} => admins' = users']_vars

\* "The last administrator cannot be demoted, so an installation always has
\* one": set_admin counts the administrators before it demotes one.
LastAdminStays ==
    [][admins # {} => admins' # {}]_vars

\* What remains of "so an installation always has one" when requests overlap:
\* the last administrator is only ever lost to a demotion that counted somebody
\* who was demoted between its count and its write.
OnlyStaleCountsLoseAdmins ==
    [][admins # {} /\ admins' = {} =>
          \E r \in Requests : /\ stage[r] = "write" /\ stage'[r] # "write"
                              /\ ~(counted[r] \subseteq admins)]_vars

\* "Single-provider model: replace whatever is configured": set_provider
\* deletes the rows it read before it adds its own.  Saves that overlap do not
\* delete each other's row, but leftovers do not pile up: there are never more
\* rows than requests that work at once, so one at most when none overlap.
ProvidersBounded == Cardinality(providers) <= Cardinality(Requests)
=============================================================================
