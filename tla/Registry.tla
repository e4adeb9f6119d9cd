------------------------------ MODULE Registry ------------------------------
(***************************************************************************)
(* Tenants, their domains and the reports filed under them, while services *)
(* start (control_plane bootstrap), the operator creates and deletes       *)
(* tenants and domains (the JSON API and the web UI), senders post to      *)
(* /tlsrpt and mail to unknown addresses is quarantined.                   *)
(*                                                                         *)
(* A request reads, and later flushes and commits what it has decided; the *)
(* constraints of the schema are looked at then.  Intake has the mail path *)
(* statement by statement; here it is one read and one commit.  The web UI *)
(* refuses to delete the quarantine tenant and to give it domains, the API *)
(* does not, so the operator can do both.                                  *)
(***************************************************************************)
EXTENDS Integers, Sequences, FiniteSets, FiniteSetsExt

CONSTANTS
    Backend,     \* "postgresql", or "sqlite": no foreign keys, ids used again
    Mode,        \* tenancy_mode: "single" or "multi"
    Services,    \* processes that run bootstrap: the web app and smtp
    Pages,       \* requests that the web app serves at a time
    Sessions,    \* mails that smtp processes at a time
    Slugs, Unrouted, Default,
    Names,       \* domain names
    Keys,        \* identities of reports
    NoRow,
    MaxTenants,  \* bound: the operator creates tenants up to this id
    MaxDomains,  \* bound on the domains
    MaxCrashes   \* bound on crashes

ASSUME RegistryAssumption ==
    /\ Backend \in {"postgresql", "sqlite"} /\ Mode \in {"single", "multi"}
    /\ Services = {"web", "smtp"}
    /\ {Unrouted, Default} \subseteq Slugs /\ Unrouted # Default
    /\ MaxTenants \in Nat /\ MaxDomains \in Nat /\ MaxCrashes \in Nat
    /\ Pages \cap Sessions = {}
    /\ NoRow \notin Slugs \cup Names \cup Nat

Requests == Pages \cup Sessions

\* The tenants that bootstrap sees to, in this order.
BuiltIn == IF Mode = "single" THEN <<Unrouted, Default>> ELSE <<Unrouted>>

\* There is an id for every tenant that a start of a service may have to create.
TenantIds == 1 .. MaxTenants + Len(BuiltIn) * (Cardinality(Services) + MaxCrashes)
DomainIds == 1 .. MaxDomains

VARIABLES
    tenant,     \* tenants, slug by id
    domain,     \* domains, name and tenant by id
    lastId,     \* the id sequences of the two tables
    reports,    \* aggregate and TLS reports; owner: the tenant at filing
    service,    \* per service: down, starting, up
    looked,     \* how many built-in tenants bootstrap has looked for
    missing,    \* those of them it did not find
    req,        \* per request: what it has read and decided
    crashes

tables == <<tenant, domain, lastId, reports>>
starts == <<service, looked, missing>>
vars   == <<tables, starts, req, crashes>>

Idle == [op |-> "idle"]

Init ==
    /\ tenant = [t \in TenantIds |-> NoRow]
    /\ domain = [d \in DomainIds |-> NoRow]
    /\ lastId = [tenant |-> 0, domain |-> 0]
    /\ reports = {}
    /\ service = [s \in Services |-> "down"]
    /\ looked = [s \in Services |-> 0]
    /\ missing = [s \in Services |-> << >>]
    /\ req = [q \in Requests |-> Idle]
    /\ crashes = 0

Live(table) == {i \in DOMAIN table : table[i] # NoRow}
TenantOf(slug) == {t \in Live(tenant) : tenant[t] = slug}
DomainOf(name) == {d \in Live(domain) : domain[d].name = name}

\* scalar(): the row, or None.
One(ids) == IF ids = {} THEN NoRow ELSE CHOOSE i \in ids : TRUE

\* The ids of new rows follow this one.
LastId(table, last) ==
    IF Backend = "postgresql" THEN last ELSE Max(Live(table) \cup {0})

\* Rows are added, with consecutive ids.
AddTenants(slugs) ==
    LET last == LastId(tenant, lastId.tenant) IN
    /\ tenant' = [t \in TenantIds |-> IF t - last \in DOMAIN slugs THEN slugs[t - last]
                                      ELSE tenant[t]]
    /\ lastId' = [lastId EXCEPT !.tenant = last + Len(slugs)]

\* Mutant: the column slug is not unique.
NotUnique(slugs) == FALSE

SlugTaken(slugs) == \E i \in DOMAIN slugs : TenantOf(slugs[i]) # {}

-----------------------------------------------------------------------------
(* Services start and crash.                                               *)

Stopped(s, state) ==
    /\ service' = [service EXCEPT ![s] = state]
    /\ looked' = [looked EXCEPT ![s] = 0]
    /\ missing' = [missing EXCEPT ![s] = << >>]

Start(s) ==
    /\ service[s] = "down"
    /\ service' = [service EXCEPT ![s] = "starting"]
    /\ UNCHANGED <<tables, looked, missing, req, crashes>>

\* Mutant: bootstrap does not look whether the tenant is there.
LookForNone(s) ==
    /\ service[s] = "starting" /\ looked[s] < Len(BuiltIn)
    /\ looked' = [looked EXCEPT ![s] = @ + 1]
    /\ missing' = [missing EXCEPT ![s] = Append(@, BuiltIn[looked[s] + 1])]
    /\ UNCHANGED <<tables, service, req, crashes>>

\* bootstrap: a SELECT per built-in tenant.
LookForTenant(s) ==
    LET slug == BuiltIn[looked[s] + 1] IN
    /\ service[s] = "starting" /\ looked[s] < Len(BuiltIn)
    /\ looked' = [looked EXCEPT ![s] = @ + 1]
    /\ missing' = [missing EXCEPT ![s] =
                      IF TenantOf(slug) = {} THEN Append(@, slug) ELSE @]
    /\ UNCHANGED <<tables, service, req, crashes>>

\* What was missing is inserted and the service runs; if it is there by now the
\* unique index fails the start, and the service is started again.
Bootstrap(s) ==
    /\ service[s] = "starting" /\ looked[s] = Len(BuiltIn)
    /\ \/ /\ ~SlugTaken(missing[s])
          /\ AddTenants(missing[s])
          /\ Stopped(s, "up")
       \/ /\ SlugTaken(missing[s])
          /\ UNCHANGED <<tenant, lastId>>
          /\ Stopped(s, "down")
    /\ UNCHANGED <<domain, reports, req, crashes>>

\* What a service had in hand is rolled back.
Crash(s) ==
    /\ crashes < MaxCrashes
    /\ service[s] # "down"
    /\ crashes' = crashes + 1
    /\ Stopped(s, "down")
    /\ req' = [q \in Requests |->
                  IF q \in (IF s = "web" THEN Pages ELSE Sessions) THEN Idle ELSE req[q]]
    /\ UNCHANGED tables

-----------------------------------------------------------------------------
(* What requests read.                                                     *)

Decides(q, what) ==
    /\ service[IF q \in Pages THEN "web" ELSE "smtp"] = "up"
    /\ req[q] = Idle
    /\ req' = [req EXCEPT ![q] = what]
    /\ UNCHANGED <<tables, starts, crashes>>

\* The slug must be new; the API refuses in single-tenant mode, the UI does not.
CreateTenant(q, slug) ==
    /\ TenantOf(slug) = {}
    /\ Decides(q, [op |-> "create tenant", slug |-> slug])

AddDomain(q, slug, name) ==
    /\ TenantOf(slug) # {}
    /\ DomainOf(name) = {}
    /\ Decides(q, [op |-> "add domain", name |-> name, tenant |-> One(TenantOf(slug))])

\* "Only empty tenants can be deleted": tenants without domains.
DeleteTenant(q, slug) ==
    LET t == One(TenantOf(slug)) IN
    /\ t # NoRow
    /\ \A d \in Live(domain) : domain[d].tenant # t
    /\ Decides(q, [op |-> "delete tenant", tenant |-> t])

\* The reports of the domain are read, to be unlinked.
DeleteDomain(q, name) ==
    LET d == One(DomainOf(name)) IN
    /\ d # NoRow
    /\ Decides(q, [op |-> "delete domain", domain |-> d,
                   unlink |-> {r.key : r \in {o \in reports : o.domain = d}}])

KeysHeld == {r.key : r \in reports}

Filing(key, t, d) == [op |-> "file", key |-> key, tenant |-> t, domain |-> d]

\* Mutant: the tenant stays the one of the recipient.
FiledUnderQuarantine(key, t, d) == Filing(key, t, d)

\* A report without a domain is attributed to the domain it names, and to that
\* domain's tenant, if it is registered.
Attributed(key, t, d) ==
    Filing(key, IF d = NoRow THEN t ELSE domain[d].tenant, d)

\* /tlsrpt: a report about no registered domain is refused.
PostTlsReport(q, key, name) ==
    LET d == One(DomainOf(name)) IN
    /\ d # NoRow
    /\ key \notin KeysHeld
    /\ Decides(q, Filing(key, domain[d].tenant, d))

\* Mail to an unknown address: the quarantine tenant, or none if it is not there.
QuarantineMail(q, key, name) ==
    /\ key \notin KeysHeld
    /\ Decides(q, Attributed(key, One(TenantOf(Unrouted)), One(DomainOf(name))))

Read(q) ==
    \/ /\ q \in Pages
       /\ \E slug \in Slugs, name \in Names, key \in Keys :
             \/ CreateTenant(q, slug) \/ DeleteTenant(q, slug)
             \/ AddDomain(q, slug, name) \/ DeleteDomain(q, name)
             \/ PostTlsReport(q, key, name)
    \/ /\ q \in Sessions
       /\ \E name \in Names, key \in Keys : QuarantineMail(q, key, name)

-----------------------------------------------------------------------------
(* What requests write.                                                    *)

\* The row exists that a foreign key names.
References(table, id) == Backend = "sqlite" \/ id = NoRow \/ id \in Live(table)

\* No row of those given names the row that is deleted.
Unreferenced(rows) == Backend = "sqlite" \/ rows = {}

Answered(q) == req' = [req EXCEPT ![q] = Idle]

CommitTenant(q) ==
    /\ req[q].op = "create tenant"
    /\ ~SlugTaken(<<req[q].slug>>)
    /\ LastId(tenant, lastId.tenant) < MaxTenants
    /\ AddTenants(<<req[q].slug>>)
    /\ Answered(q)
    /\ UNCHANGED <<domain, reports, starts, crashes>>

CommitDomain(q) ==
    LET id == LastId(domain, lastId.domain) + 1 IN
    /\ req[q].op = "add domain"
    /\ DomainOf(req[q].name) = {}
    /\ References(tenant, req[q].tenant)
    /\ id \in DomainIds
    /\ domain' = [domain EXCEPT ![id] = [name |-> req[q].name, tenant |-> req[q].tenant]]
    /\ lastId' = [lastId EXCEPT !.domain = id]
    /\ Answered(q)
    /\ UNCHANGED <<tenant, reports, starts, crashes>>

CommitTenantDeletion(q) ==
    LET t == req[q].tenant IN
    /\ req[q].op = "delete tenant"
    /\ Unreferenced({d \in Live(domain) : domain[d].tenant = t})
    /\ Unreferenced({r \in reports : r.tenant = t})
    /\ tenant' = [tenant EXCEPT ![t] = NoRow]
    /\ Answered(q)
    /\ UNCHANGED <<domain, lastId, reports, starts, crashes>>

CommitDomainDeletion(q) ==
    LET d == req[q].domain
        linked == {r \in reports : r.domain = d} IN
    /\ req[q].op = "delete domain"
    /\ Unreferenced({r \in linked : r.key \notin req[q].unlink})
    /\ domain' = [domain EXCEPT ![d] = NoRow]
    /\ reports' = {IF r.key \in req[q].unlink THEN [r EXCEPT !.domain = NoRow] ELSE r :
                      r \in reports}
    /\ Answered(q)
    /\ UNCHANGED <<tenant, lastId, starts, crashes>>

CommitReport(q) ==
    LET t == req[q].tenant IN
    /\ req[q].op = "file"
    /\ req[q].key \notin KeysHeld
    /\ References(tenant, t) /\ References(domain, req[q].domain)
    /\ reports' = reports \cup
          {[key |-> req[q].key, tenant |-> t, domain |-> req[q].domain,
            owner |-> IF t = NoRow THEN NoRow ELSE tenant[t]]}
    /\ Answered(q)
    /\ UNCHANGED <<tenant, domain, lastId, starts, crashes>>

Write(q) ==
    \/ CommitTenant(q) \/ CommitDomain(q) \/ CommitReport(q)
    \/ CommitTenantDeletion(q) \/ CommitDomainDeletion(q)

\* A constraint fails the request, or anything else does: it is rolled back, and
\* answered with an error.
Rejected(q) ==
    /\ req[q] # Idle
    /\ Answered(q)
    /\ UNCHANGED <<tables, starts, crashes>>

Boot(s) == Start(s) \/ LookForTenant(s) \/ Bootstrap(s)

Next ==
    \/ \E s \in Services : Boot(s) \/ Crash(s)
    \/ \E q \in Requests : Read(q) \/ Write(q) \/ Rejected(q)

Spec == Init /\ [][Next]_vars

\* A service that stops is started again (restart: unless-stopped).
FairSpec == Spec /\ \A s \in Services : WF_vars(Boot(s))

-----------------------------------------------------------------------------
(* Properties.                                                             *)

Requested ==
    {Idle} \cup [op : {"create tenant"}, slug : Slugs]
    \cup [op : {"add domain"}, name : Names, tenant : TenantIds]
    \cup [op : {"delete tenant"}, tenant : TenantIds]
    \cup [op : {"delete domain"}, domain : DomainIds, unlink : SUBSET Keys]
    \cup [op : {"file"}, key : Keys, tenant : TenantIds \cup {NoRow},
          domain : DomainIds \cup {NoRow}]

\* No slug, name or report is there twice, whoever inserts it at the same time.
TypeOK ==
    /\ tenant \in [TenantIds -> Slugs \cup {NoRow}]
    /\ domain \in [DomainIds -> [name : Names, tenant : TenantIds] \cup {NoRow}]
    /\ lastId \in [tenant : {0} \cup TenantIds, domain : {0} \cup DomainIds]
    /\ reports \subseteq [key : Keys, tenant : TenantIds \cup {NoRow},
                          domain : DomainIds \cup {NoRow}, owner : Slugs \cup {NoRow}]
    /\ service \in [Services -> {"down", "starting", "up"}]
    /\ looked \in [Services -> 0 .. Len(BuiltIn)]
    /\ \A s \in Services : missing[s] \in Seq(Slugs)
    /\ req \in [Requests -> Requested]
    /\ crashes \in 0 .. MaxCrashes
    /\ \A slug \in Slugs : Cardinality(TenantOf(slug)) <= 1
    /\ \A name \in Names : Cardinality(DomainOf(name)) <= 1
    /\ \A r, o \in reports : r.key = o.key => r = o

\* "Historical reports are kept but unlinked, so past data stays queryable per
\* tenant": every domain and every report belongs to a tenant that is there, the
\* report to the one it was filed under, and a linked report to the tenant of its
\* domain, whatever is deleted and created between a read and a write.
EverythingHasItsTenant ==
    /\ \A d \in Live(domain) : domain[d].tenant \in Live(tenant)
    /\ \A r \in reports :
          /\ r.tenant # NoRow => r.tenant \in Live(tenant) /\ tenant[r.tenant] = r.owner
          /\ r.domain # NoRow => r.domain \in Live(domain)
                                 /\ domain[r.domain].tenant = r.tenant

\* "Ensure built-in tenants exist. Idempotent, runs at startup": services that
\* start together, on an empty database too, all come up.
EveryServiceStarts == \A s \in Services : service[s] = "down" ~> service[s] = "up"
=============================================================================
