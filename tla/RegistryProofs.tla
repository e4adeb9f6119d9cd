--------------------------- MODULE RegistryProofs ---------------------------
(***************************************************************************)
(* What holds of tenants, domains and reports on PostgreSQL, for any number*)
(* of services, requests, tenants, domains, reports and crashes.           *)
(***************************************************************************)
EXTENDS Registry, SequenceTheorems, FiniteSetTheorems, WellFoundedInduction, TLAPS

\* Rows are found under ids up to the last one, so that an id is never used
\* again.
IdsOK ==
    /\ DOMAIN tenant = TenantIds /\ DOMAIN domain = DomainIds
    /\ lastId = [tenant |-> lastId.tenant, domain |-> lastId.domain]
    /\ lastId.tenant \in Nat /\ lastId.domain \in Nat
    /\ \A t \in Live(tenant) : t \in Nat /\ t <= lastId.tenant
    /\ \A d \in Live(domain) : d \in Nat /\ d <= lastId.domain

\* What a service has to insert.
StartsOK ==
    /\ DOMAIN looked = Services /\ DOMAIN missing = Services
    /\ \A s \in Services : looked[s] \in Nat /\ missing[s] \in Seq(Slugs)

RowsOK ==
    \A r \in reports :
        r = [key |-> r.key, tenant |-> r.tenant, domain |-> r.domain, owner |-> r.owner]

\* A report that is going to be filed names a tenant and a domain that were there
\* and belong together; the domain may be gone, but never be another's.
FilingOK(q) ==
    /\ req[q].op = "add domain" => req[q].tenant # NoRow
    /\ req[q].op = "file" =>
        /\ req[q].tenant # NoRow =>
              req[q].tenant \in Nat /\ req[q].tenant <= lastId.tenant
        /\ req[q].domain # NoRow =>
              /\ req[q].domain \in Nat /\ req[q].domain <= lastId.domain
              /\ req[q].domain \in Live(domain) =>
                    domain[req[q].domain].tenant = req[q].tenant

RInv ==
    /\ IdsOK
    /\ StartsOK
    /\ RowsOK
    /\ DOMAIN req = Requests
    /\ \A q \in Requests : FilingOK(q)
    /\ EverythingHasItsTenant

LEMMA OneRow ==
    ASSUME NEW ids, One(ids) # NoRow
    PROVE  One(ids) \in ids
  BY DEF One

LEMMA BuiltInSlugs == BuiltIn \in Seq(Slugs)
  <1>1. Unrouted \in Slugs /\ Default \in Slugs
    BY RegistryAssumption
  <1>2. QED BY <1>1 DEF BuiltIn

LEMMA InitRInv == Init => RInv
  <1>1. SUFFICES ASSUME Init PROVE RInv
    OBVIOUS
  <1>2. Live(tenant) = {} /\ Live(domain) = {}
    BY <1>1 DEF Init, Live
  <1>3. IdsOK
    BY <1>1, <1>2 DEF Init, IdsOK
  <1>4. StartsOK
    BY <1>1, EmptySeq DEF Init, StartsOK
  <1>5. \A q \in Requests : FilingOK(q)
    BY <1>1 DEF Init, Idle, FilingOK
  <1>6. EverythingHasItsTenant
    BY <1>1, <1>2 DEF Init, EverythingHasItsTenant
  <1>7. DOMAIN req = Requests /\ RowsOK
    BY <1>1 DEF Init, RowsOK
  <1>8. QED BY <1>3, <1>4, <1>5, <1>6, <1>7 DEF RInv

\* New tenants leave the rows that are there alone.
LEMMA AddTenantsKeeps ==
    ASSUME RInv, Backend = "postgresql", NEW S, NEW slugs \in Seq(S), AddTenants(slugs),
           UNCHANGED domain
    PROVE  /\ IdsOK'
           /\ Live(tenant) \subseteq Live(tenant)'
           /\ \A t \in Live(tenant) : tenant'[t] = tenant[t]
           /\ lastId'.tenant >= lastId.tenant /\ lastId'.domain = lastId.domain
  <1> DEFINE last == lastId.tenant
  <1>1. /\ tenant' = [t \in TenantIds |-> IF t - last \in DOMAIN slugs THEN slugs[t - last]
                                          ELSE tenant[t]]
        /\ lastId' = [lastId EXCEPT !.tenant = last + Len(slugs)]
    BY DEF AddTenants, LastId
  <1>2. /\ DOMAIN slugs = 1 .. Len(slugs) /\ Len(slugs) \in Nat
        /\ DOMAIN tenant = TenantIds /\ last \in Nat
        /\ \A t \in Live(tenant) : t \in TenantIds /\ t \in Nat /\ t <= last
    BY LenProperties DEF RInv, IdsOK, Live
  <1>3. /\ lastId'.tenant = last + Len(slugs) /\ lastId'.domain = lastId.domain
        /\ lastId' = [tenant |-> lastId'.tenant, domain |-> lastId'.domain]
    BY <1>1 DEF RInv, IdsOK
  <1>4. \A t \in Live(tenant) : tenant'[t] = tenant[t]
    BY <1>1, <1>2
  <1>5. Live(tenant) \subseteq Live(tenant)'
    BY <1>1, <1>2, <1>4 DEF Live
  <1>6. ASSUME NEW t \in Live(tenant)' PROVE t \in Nat /\ t <= last + Len(slugs)
    <2>1. t \in TenantIds /\ t \in Nat
      BY <1>1, <1>6 DEF Live, TenantIds
    <2>2. CASE t - last \in DOMAIN slugs
      BY <1>2, <2>1, <2>2
    <2>3. CASE t - last \notin DOMAIN slugs
      <3>1. t \in Live(tenant)
        BY <1>1, <1>2, <1>6, <2>1, <2>3 DEF Live
      <3>2. QED BY <1>2, <3>1
    <2>4. QED BY <2>2, <2>3
  <1>7. IdsOK'
    <2>1. DOMAIN tenant' = TenantIds
      BY <1>1
    <2>2. QED BY <1>2, <1>3, <1>6, <2>1 DEF RInv, IdsOK
  <1>8. QED BY <1>2, <1>3, <1>4, <1>5, <1>7

\* What a request is going to file stays as it is while ids and rows are added,
\* and while rows are deleted.
LEMMA FilingKept ==
    ASSUME NEW q, FilingOK(q), req'[q] = req[q],
           lastId.tenant \in Nat, lastId'.tenant \in Nat,
           lastId.domain \in Nat, lastId'.domain \in Nat,
           lastId'.tenant >= lastId.tenant, lastId'.domain >= lastId.domain,
           \A d \in Live(domain)' : d <= lastId.domain =>
               d \in Live(domain) /\ domain'[d] = domain[d]
    PROVE  FilingOK(q)'
  <1> DEFINE r == req[q]
  <1>1. req'[q].op = "add domain" => req'[q].tenant # NoRow
    BY DEF FilingOK
  <1>2. ASSUME req'[q].op = "file", req'[q].tenant # NoRow
        PROVE  req'[q].tenant \in Nat /\ req'[q].tenant <= lastId'.tenant
    <2>1. r.tenant \in Nat /\ r.tenant <= lastId.tenant
      BY <1>2 DEF FilingOK
    <2>2. QED BY <2>1
  <1>3. ASSUME req'[q].op = "file", req'[q].domain # NoRow
        PROVE  /\ req'[q].domain \in Nat /\ req'[q].domain <= lastId'.domain
               /\ req'[q].domain \in Live(domain)' =>
                     domain'[req'[q].domain].tenant = req'[q].tenant
    <2>1. /\ r.domain \in Nat /\ r.domain <= lastId.domain
          /\ r.domain \in Live(domain) => domain[r.domain].tenant = r.tenant
      BY <1>3 DEF FilingOK
    <2>2. QED BY <2>1
  <1>4. QED BY <1>1, <1>2, <1>3 DEF FilingOK

\* Tenants and ids come, and nothing else changes.
LEMMA GrowthKeeps ==
    ASSUME RInv, IdsOK', StartsOK', UNCHANGED <<domain, reports>>,
           DOMAIN req' = Requests,
           \A q \in Requests : req'[q] = req[q] \/ req'[q] = Idle,
           Live(tenant) \subseteq Live(tenant)',
           \A t \in Live(tenant) : tenant'[t] = tenant[t],
           lastId'.tenant >= lastId.tenant, lastId'.domain = lastId.domain
    PROVE  RInv'
  <1>1. EverythingHasItsTenant'
    BY DEF RInv, EverythingHasItsTenant, Live
  <1>2. ASSUME NEW q \in Requests PROVE FilingOK(q)'
    <2>1. CASE req'[q] = Idle
      BY <2>1 DEF Idle, FilingOK
    <2>2. CASE req'[q] = req[q]
      <3>1. /\ FilingOK(q) /\ lastId.tenant \in Nat /\ lastId'.tenant \in Nat
            /\ lastId.domain \in Nat /\ lastId'.domain \in Nat
        BY DEF RInv, IdsOK
      <3>2. Live(domain)' = Live(domain)
        BY DEF Live
      <3>3. QED BY <2>2, <3>1, <3>2, FilingKept
    <2>3. QED BY <2>1, <2>2
  <1>3. QED BY <1>1, <1>2 DEF RInv, RowsOK

\* Services start and crash.
LEMMA ServiceRInv ==
    ASSUME RInv, Backend = "postgresql", NEW s \in Services, Boot(s) \/ Crash(s)
    PROVE  RInv'
  <1>1. DOMAIN looked = Services /\ DOMAIN missing = Services
        /\ looked[s] \in Nat /\ missing[s] \in Seq(Slugs) /\ DOMAIN req = Requests
    BY DEF RInv, StartsOK
  <1>2. CASE Bootstrap(s) /\ ~SlugTaken(missing[s])
    <2>1. /\ AddTenants(missing[s]) /\ Stopped(s, "up") /\ UNCHANGED <<domain, reports, req>>
      BY <1>2 DEF Bootstrap
    <2>2. StartsOK'
      BY <1>1, <2>1, EmptySeq DEF Stopped, RInv, StartsOK
    <2>3. QED BY <1>1, <2>1, <2>2, AddTenantsKeeps, GrowthKeeps
  <1>3. CASE Start(s) \/ LookForTenant(s) \/ (Bootstrap(s) /\ SlugTaken(missing[s])) \/ Crash(s)
    <2>1. UNCHANGED tables
      BY <1>3 DEF Start, LookForTenant, Bootstrap, Crash, tables
    <2>2. StartsOK'
      <3>1. CASE Start(s)
        BY <3>1 DEF Start, RInv, StartsOK
      <3>2. CASE LookForTenant(s)
        <4>1. BuiltIn[looked[s] + 1] \in Slugs
          <5>1. BuiltIn \in Seq(Slugs) /\ looked[s] < Len(BuiltIn) /\ Len(BuiltIn) \in Nat
            BY <3>2, BuiltInSlugs, LenProperties DEF LookForTenant
          <5>2. looked[s] + 1 \in 1 .. Len(BuiltIn)
            BY <1>1, <5>1
          <5>3. QED BY <5>1, <5>2, ElementOfSeq
        <4>2. Append(missing[s], BuiltIn[looked[s] + 1]) \in Seq(Slugs)
          BY <1>1, <4>1, AppendProperties
        <4>3. /\ looked' = [looked EXCEPT ![s] = @ + 1]
              /\ missing' = [missing EXCEPT ![s] =
                                IF TenantOf(BuiltIn[looked[s] + 1]) = {}
                                  THEN Append(@, BuiltIn[looked[s] + 1]) ELSE @]
          BY <3>2 DEF LookForTenant
        <4>4. /\ DOMAIN missing' = Services /\ missing'[s] \in Seq(Slugs)
              /\ \A o \in Services : o # s => missing'[o] = missing[o]
          BY <1>1, <4>2, <4>3
        <4>5. QED BY <1>1, <4>3, <4>4 DEF RInv, StartsOK
      <3>3. CASE Bootstrap(s) /\ SlugTaken(missing[s])
        <4>1. Stopped(s, "down")
          BY <3>3 DEF Bootstrap
        <4>2. QED BY <1>1, <4>1, EmptySeq DEF Stopped, RInv, StartsOK
      <3>4. CASE Crash(s)
        BY <1>1, <3>4, EmptySeq DEF Crash, Stopped, RInv, StartsOK
      <3>5. QED BY <1>3, <3>1, <3>2, <3>3, <3>4
    <2>3. /\ DOMAIN req' = Requests
          /\ \A q \in Requests : req'[q] = req[q] \/ req'[q] = Idle
      BY <1>1, <1>3 DEF Start, LookForTenant, Bootstrap, Crash
    <2>4. IdsOK' /\ Live(tenant)' = Live(tenant)
      BY <2>1 DEF tables, RInv, IdsOK, Live
    <2>5. lastId'.tenant >= lastId.tenant /\ lastId'.domain = lastId.domain
      BY <2>1 DEF tables, RInv, IdsOK
    <2>6. QED BY <2>1, <2>2, <2>3, <2>4, <2>5, GrowthKeeps DEF tables
  <1>4. QED BY <1>2, <1>3 DEF Boot

\* What a request decides to file.
Consistent(what) ==
    /\ what.op = "add domain" => what.tenant # NoRow
    /\ what.op = "file" =>
          \E key, t, d :
              /\ what = Filing(key, t, d)
              /\ t # NoRow => t \in Live(tenant)
              /\ d # NoRow => d \in Live(domain) /\ t = domain[d].tenant

\* A request reads, and what it is going to file belongs together.
LEMMA ReadRInv ==
    ASSUME RInv, NEW q \in Requests, Read(q)
    PROVE  RInv'
  <1>1. PICK what : Decides(q, what) /\ Consistent(what)
    <2>1. CASE \E slug \in Slugs, name \in Names :
                 \/ CreateTenant(q, slug) \/ DeleteTenant(q, slug)
                 \/ AddDomain(q, slug, name) \/ DeleteDomain(q, name)
      <3>1. PICK slug \in Slugs, name \in Names :
                 \/ CreateTenant(q, slug) \/ DeleteTenant(q, slug)
                 \/ AddDomain(q, slug, name) \/ DeleteDomain(q, name)
        BY <2>1
      <3>2. CASE CreateTenant(q, slug)
        <4>1. Decides(q, [op |-> "create tenant", slug |-> slug])
          BY <3>2 DEF CreateTenant
        <4>2. Consistent([op |-> "create tenant", slug |-> slug])
          BY DEF Consistent
        <4>3. QED BY <4>1, <4>2
      <3>3. CASE DeleteTenant(q, slug)
        <4> DEFINE what == [op |-> "delete tenant", tenant |-> One(TenantOf(slug))]
        <4>1. Decides(q, what)
          BY <3>3 DEF DeleteTenant
        <4>2. Consistent(what)
          BY DEF Consistent
        <4>3. QED BY <4>1, <4>2
      <3>4. CASE AddDomain(q, slug, name)
        <4> DEFINE what == [op |-> "add domain", name |-> name, tenant |-> One(TenantOf(slug))]
        <4>1. Decides(q, what) /\ TenantOf(slug) # {}
          BY <3>4 DEF AddDomain
        <4>2. One(TenantOf(slug)) \in Live(tenant)
          BY <4>1 DEF One, TenantOf
        <4>3. One(TenantOf(slug)) # NoRow
          BY <4>2, RegistryAssumption DEF RInv, IdsOK
        <4>4. Consistent(what)
          BY <4>3 DEF Consistent
        <4>5. QED BY <4>1, <4>4
      <3>5. CASE DeleteDomain(q, name)
        <4> DEFINE d == One(DomainOf(name))
                   what == [op |-> "delete domain", domain |-> d,
                            unlink |-> {r.key : r \in {o \in reports : o.domain = d}}]
        <4>1. Decides(q, what)
          BY <3>5 DEF DeleteDomain
        <4>2. Consistent(what)
          BY DEF Consistent
        <4>3. QED BY <4>1, <4>2
      <3>6. QED BY <3>1, <3>2, <3>3, <3>4, <3>5
    <2>2. CASE \E name \in Names, key \in Keys : PostTlsReport(q, key, name)
      <3>1. PICK name \in Names, key \in Keys : PostTlsReport(q, key, name)
        BY <2>2
      <3> DEFINE d == One(DomainOf(name))
      <3>2. d # NoRow /\ Decides(q, Filing(key, domain[d].tenant, d))
        BY <3>1 DEF PostTlsReport
      <3>3. d \in Live(domain)
        BY <3>2, OneRow DEF DomainOf
      <3>4. domain[d].tenant \in Live(tenant)
        BY <3>3 DEF RInv, EverythingHasItsTenant
      <3>5. Consistent(Filing(key, domain[d].tenant, d))
        BY <3>3, <3>4 DEF Consistent, Filing
      <3>6. QED BY <3>2, <3>5
    <2>3. CASE \E name \in Names, key \in Keys : QuarantineMail(q, key, name)
      <3>1. PICK name \in Names, key \in Keys : QuarantineMail(q, key, name)
        BY <2>3
      <3> DEFINE d == One(DomainOf(name))
                 u == One(TenantOf(Unrouted))
                 t == IF d = NoRow THEN u ELSE domain[d].tenant
      <3>2. Decides(q, Filing(key, t, d))
        BY <3>1 DEF QuarantineMail, Attributed
      <3>3. d # NoRow => d \in Live(domain)
        BY OneRow DEF DomainOf
      <3>4. u # NoRow => u \in Live(tenant)
        BY OneRow DEF TenantOf
      <3>5. t # NoRow => t \in Live(tenant)
        BY <3>3, <3>4 DEF RInv, EverythingHasItsTenant
      <3>6. Consistent(Filing(key, t, d))
        BY <3>3, <3>5 DEF Consistent, Filing
      <3>7. QED BY <3>2, <3>6
    <2>4. QED BY <2>1, <2>2, <2>3 DEF Read
  <1>2. /\ UNCHANGED <<tenant, domain, lastId, reports, service, looked, missing, crashes>>
        /\ req' = [req EXCEPT ![q] = what] /\ DOMAIN req = Requests
    BY <1>1 DEF Decides, tables, starts, RInv
  <1>3. ASSUME NEW p \in Requests PROVE FilingOK(p)'
    <2>1. CASE p # q
      BY <1>2, <2>1 DEF RInv, FilingOK, Live
    <2>2. CASE p = q /\ what.op # "file"
      BY <1>1, <1>2, <2>2 DEF FilingOK, Consistent
    <2>3. CASE p = q /\ what.op = "file"
      <3>1. PICK key, t, d : /\ what = Filing(key, t, d)
                             /\ t # NoRow => t \in Live(tenant)
                             /\ d # NoRow => d \in Live(domain) /\ t = domain[d].tenant
        BY <1>1, <2>3 DEF Consistent
      <3>2. req'[p].tenant = t /\ req'[p].domain = d
        BY <1>2, <2>3, <3>1 DEF Filing
      <3>3. /\ t # NoRow => t \in Nat /\ t <= lastId.tenant
            /\ d # NoRow => d \in Nat /\ d <= lastId.domain
        BY <3>1 DEF RInv, IdsOK
      <3>4. Live(domain)' = Live(domain)
        BY <1>2 DEF Live
      <3>5. req'[p].op = "file"
        BY <1>2, <2>3
      <3>6. /\ t # NoRow => t \in Nat /\ t <= lastId'.tenant
            /\ d # NoRow => /\ d \in Nat /\ d <= lastId'.domain
                            /\ d \in Live(domain)' => domain'[d].tenant = t
        BY <1>2, <3>1, <3>3, <3>4
      <3>7. QED BY <3>2, <3>5, <3>6 DEF FilingOK
    <2>4. QED BY <2>1, <2>2, <2>3
  <1>4. QED BY <1>2, <1>3
           DEF RInv, IdsOK, StartsOK, RowsOK, EverythingHasItsTenant, Live

\* A request ends; its tables are as the step says.
LEMMA EndKeeps ==
    ASSUME RInv, NEW q \in Requests, Answered(q), UNCHANGED starts, IdsOK',
           RowsOK', EverythingHasItsTenant',
           lastId'.tenant >= lastId.tenant, lastId'.domain >= lastId.domain,
           \A d \in Live(domain)' : d <= lastId.domain =>
               d \in Live(domain) /\ domain'[d] = domain[d]
    PROVE  RInv'
  <1>1. /\ StartsOK' /\ DOMAIN req' = Requests
        /\ req'[q] = Idle /\ \A p \in Requests : p # q => req'[p] = req[p]
    BY DEF RInv, StartsOK, starts, Answered
  <1>2. ASSUME NEW p \in Requests PROVE FilingOK(p)'
    <2>1. CASE p = q
      <3>1. req'[p] = Idle
        BY <1>1, <2>1
      <3>2. QED BY <3>1 DEF Idle, FilingOK
    <2>2. CASE p # q
      <3>1. req'[p] = req[p] /\ FilingOK(p)
        BY <1>1, <2>2 DEF RInv
      <3>2. /\ lastId.tenant \in Nat /\ lastId'.tenant \in Nat
            /\ lastId.domain \in Nat /\ lastId'.domain \in Nat
        BY DEF RInv, IdsOK
      <3>3. QED BY <3>1, <3>2, FilingKept
    <2>3. QED BY <2>1, <2>2
  <1>3. QED BY <1>1, <1>2 DEF RInv

LEMMA WriteRInv ==
    ASSUME RInv, Backend = "postgresql", NEW q \in Requests, Write(q) \/ Rejected(q)
    PROVE  RInv'
  <1>1. /\ DOMAIN tenant = TenantIds /\ DOMAIN domain = DomainIds
        /\ lastId = [tenant |-> lastId.tenant, domain |-> lastId.domain]
        /\ lastId.tenant \in Nat /\ lastId.domain \in Nat
        /\ \A t \in Live(tenant) : t \in Nat /\ t <= lastId.tenant
        /\ \A d \in Live(domain) : d \in Nat /\ d <= lastId.domain
    BY DEF RInv, IdsOK
  <1>2. CASE Rejected(q)
    <2>1. Answered(q) /\ UNCHANGED <<tenant, domain, lastId, reports, starts>>
      BY <1>2 DEF Rejected, tables
    <2>2. IdsOK' /\ RowsOK' /\ EverythingHasItsTenant'
      BY <2>1 DEF RInv, IdsOK, RowsOK, EverythingHasItsTenant, Live
    <2>3. QED BY <1>1, <2>1, <2>2, EndKeeps DEF Live
  <1>3. CASE CommitTenant(q)
    <2>1. /\ AddTenants(<<req[q].slug>>) /\ Answered(q) /\ UNCHANGED <<domain, reports, starts>>
      BY <1>3 DEF CommitTenant
    <2>2. <<req[q].slug>> \in Seq({req[q].slug})
      OBVIOUS
    <2>3. /\ IdsOK'
          /\ Live(tenant) \subseteq Live(tenant)'
          /\ \A t \in Live(tenant) : tenant'[t] = tenant[t]
          /\ lastId'.tenant >= lastId.tenant /\ lastId'.domain = lastId.domain
      BY <2>1, <2>2, AddTenantsKeeps
    <2>4. RowsOK' /\ EverythingHasItsTenant'
      BY <2>1, <2>3 DEF RInv, RowsOK, EverythingHasItsTenant, Live
    <2>5. QED BY <1>1, <2>1, <2>3, <2>4, EndKeeps DEF Live
  <1>4. CASE CommitDomain(q)
    <2> DEFINE id == lastId.domain + 1
    <2>1. /\ domain' = [domain EXCEPT ![id] = [name |-> req[q].name, tenant |-> req[q].tenant]]
          /\ lastId' = [lastId EXCEPT !.domain = id] /\ id \in DomainIds
          /\ References(tenant, req[q].tenant) /\ Answered(q)
          /\ UNCHANGED <<tenant, reports, starts>>
      BY <1>4 DEF CommitDomain, LastId
    <2>2. req[q].tenant \in Live(tenant)
      <3>1. req[q].tenant # NoRow
        BY <1>4 DEF CommitDomain, RInv, FilingOK
      <3>2. QED BY <2>1, <3>1 DEF References
    <2>3. /\ DOMAIN domain' = DomainIds /\ domain'[id].tenant = req[q].tenant
          /\ \A d \in DomainIds : d # id => domain'[d] = domain[d]
      BY <1>1, <2>1
    <2>4. /\ lastId'.domain = id /\ lastId'.tenant = lastId.tenant
          /\ lastId' = [tenant |-> lastId'.tenant, domain |-> lastId'.domain]
      BY <1>1, <2>1
    <2>5. id \notin Live(domain) /\ id \in Nat /\ id = lastId.domain + 1
      BY <1>1
    <2> HIDE DEF id
    <2>6. /\ \A d \in Live(domain)' : d # id => d \in Live(domain) /\ domain'[d] = domain[d]
          /\ Live(tenant)' = Live(tenant)
      BY <1>1, <2>1, <2>3 DEF Live
    <2>11. ASSUME NEW d \in Live(domain) PROVE d \in Live(domain)' /\ domain'[d] = domain[d]
      BY <1>1, <2>3, <2>5 DEF Live
    <2>7. IdsOK'
      <3>1. \A d \in Live(domain)' : d \in Nat /\ d <= id
        BY <1>1, <2>5, <2>6
      <3>2. \A u \in Live(tenant)' : u \in Nat /\ u <= lastId'.tenant
        BY <1>1, <2>4, <2>6
      <3>3. QED BY <1>1, <2>1, <2>3, <2>4, <2>5, <3>1, <3>2 DEF IdsOK
    <2>8. RowsOK' /\ EverythingHasItsTenant'
      BY <2>1, <2>2, <2>3, <2>6, <2>11 DEF RInv, RowsOK, EverythingHasItsTenant
    <2>9. /\ lastId'.tenant >= lastId.tenant /\ lastId'.domain >= lastId.domain
          /\ \A d \in Live(domain)' : d <= lastId.domain =>
                d \in Live(domain) /\ domain'[d] = domain[d]
      BY <1>1, <2>4, <2>5, <2>6
    <2>10. QED BY <2>1, <2>7, <2>8, <2>9, EndKeeps
  <1>5. CASE CommitTenantDeletion(q)
    <2> DEFINE t == req[q].tenant
    <2>1. /\ \A d \in Live(domain) : domain[d].tenant # t
          /\ \A r \in reports : r.tenant # t
          /\ tenant' = [tenant EXCEPT ![t] = NoRow] /\ Answered(q)
          /\ UNCHANGED <<domain, lastId, reports, starts>>
      BY <1>5 DEF CommitTenantDeletion, Unreferenced
    <2>2. /\ DOMAIN tenant' = TenantIds
          /\ \A u \in Live(tenant) : u # t => u \in Live(tenant)' /\ tenant'[u] = tenant[u]
          /\ Live(tenant)' \subseteq Live(tenant)
      BY <1>1, <2>1 DEF Live
    <2>3. IdsOK'
      BY <1>1, <2>1, <2>2 DEF IdsOK, Live
    <2>4. RowsOK' /\ EverythingHasItsTenant'
      BY <2>1, <2>2 DEF RInv, RowsOK, EverythingHasItsTenant, Live
    <2>5. QED BY <1>1, <2>1, <2>3, <2>4, EndKeeps DEF Live
  <1>6. CASE CommitDomainDeletion(q)
    <2> DEFINE d == req[q].domain
               U == req[q].unlink
    <2>1. /\ \A r \in reports : r.domain = d => r.key \in U
          /\ domain' = [domain EXCEPT ![d] = NoRow]
          /\ reports' = {IF r.key \in U THEN [r EXCEPT !.domain = NoRow] ELSE r : r \in reports}
          /\ Answered(q) /\ UNCHANGED <<tenant, lastId, starts>>
      BY <1>6 DEF CommitDomainDeletion, Unreferenced
    <2>2. /\ DOMAIN domain' = DomainIds
          /\ \A e \in Live(domain) : e # d => e \in Live(domain)' /\ domain'[e] = domain[e]
          /\ \A e \in Live(domain)' : e \in Live(domain) /\ domain'[e] = domain[e]
          /\ Live(tenant)' = Live(tenant)
      BY <1>1, <2>1 DEF Live
    <2>3. IdsOK'
      BY <1>1, <2>1, <2>2 DEF IdsOK
    <2>4. ASSUME NEW o \in reports'
          PROVE  /\ o = [key |-> o.key, tenant |-> o.tenant, domain |-> o.domain, owner |-> o.owner]
                 /\ o.tenant # NoRow => o.tenant \in Live(tenant) /\ tenant[o.tenant] = o.owner
                 /\ o.domain # NoRow => /\ o.domain \in Live(domain)'
                                        /\ domain'[o.domain].tenant = o.tenant
      <3>1. PICK r \in reports : o = IF r.key \in U THEN [r EXCEPT !.domain = NoRow] ELSE r
        BY <2>1
      <3>2. r = [key |-> r.key, tenant |-> r.tenant, domain |-> r.domain, owner |-> r.owner]
        BY DEF RInv, RowsOK
      <3>3. /\ o = [key |-> o.key, tenant |-> o.tenant, domain |-> o.domain, owner |-> o.owner]
            /\ o.tenant = r.tenant /\ o.owner = r.owner
            /\ o.domain = IF r.key \in U THEN NoRow ELSE r.domain
        BY <3>1, <3>2
      <3>4. /\ r.tenant # NoRow => r.tenant \in Live(tenant) /\ tenant[r.tenant] = r.owner
            /\ r.domain # NoRow => r.domain \in Live(domain) /\ domain[r.domain].tenant = r.tenant
        BY DEF RInv, EverythingHasItsTenant
      <3>5. QED BY <2>1, <2>2, <3>3, <3>4
    <2>5. RowsOK'
      BY <2>4 DEF RowsOK
    <2>6. \A e \in Live(domain)' : domain'[e].tenant \in Live(tenant)'
      BY <2>2 DEF RInv, EverythingHasItsTenant
    <2>7. EverythingHasItsTenant'
      BY <2>1, <2>2, <2>4, <2>6 DEF EverythingHasItsTenant
    <2>8. lastId'.tenant >= lastId.tenant /\ lastId'.domain >= lastId.domain
      BY <1>1, <2>1
    <2>9. QED BY <2>1, <2>2, <2>3, <2>5, <2>7, <2>8, EndKeeps
  <1>7. CASE CommitReport(q)
    <2> DEFINE t == req[q].tenant
               d == req[q].domain
               new == [key |-> req[q].key, tenant |-> t, domain |-> d,
                       owner |-> IF t = NoRow THEN NoRow ELSE tenant[t]]
    <2>1. /\ reports' = reports \cup {new} /\ Answered(q)
          /\ t # NoRow => t \in Live(tenant)
          /\ d # NoRow => d \in Live(domain) /\ domain[d].tenant = t
          /\ UNCHANGED <<tenant, domain, lastId, starts>>
      BY <1>7 DEF CommitReport, References, RInv, FilingOK
    <2>2. IdsOK' /\ Live(tenant)' = Live(tenant) /\ Live(domain)' = Live(domain)
      BY <2>1 DEF RInv, IdsOK, Live
    <2>3. /\ new = [key |-> new.key, tenant |-> new.tenant, domain |-> new.domain,
                    owner |-> new.owner]
          /\ new.tenant = t /\ new.domain = d
          /\ new.owner = IF t = NoRow THEN NoRow ELSE tenant[t]
      OBVIOUS
    <2> HIDE DEF new
    <2>4. RowsOK'
      BY <2>1, <2>3 DEF RInv, RowsOK
    <2>5. EverythingHasItsTenant'
      BY <2>1, <2>2, <2>3 DEF RInv, EverythingHasItsTenant
    <2>6. QED BY <1>1, <2>1, <2>2, <2>4, <2>5, EndKeeps
  <1>8. QED BY <1>2, <1>3, <1>4, <1>5, <1>6, <1>7 DEF Write

LEMMA NextRInv ==
    ASSUME RInv, Backend = "postgresql", [Next]_vars
    PROVE  RInv'
  <1>1. CASE UNCHANGED vars
    BY <1>1 DEF vars, tables, starts, RInv, IdsOK, StartsOK, RowsOK, FilingOK,
                EverythingHasItsTenant, Live
  <1>2. QED BY <1>1, ServiceRInv, ReadRInv, WriteRInv DEF Next

\* On PostgreSQL no domain or report is ever left without its tenant, and none
\* changes hands: foreign keys, ids that are not used again and the unlinking in
\* delete_domain (control_plane/service.py, api/app.py, ingest/pipeline.py).
THEOREM TenantsKeepTheirs ==
    ASSUME Backend = "postgresql"
    PROVE  Spec => []EverythingHasItsTenant
  <1>1. RInv /\ [Next]_vars => RInv'
    BY NextRInv
  <1>2. RInv => EverythingHasItsTenant
    BY DEF RInv
  <1>3. QED BY <1>1, <1>2, InitRInv, PTL DEF Spec

-----------------------------------------------------------------------------
(* Types, and that no slug, name or report is there twice, on either       *)
(* backend.                                                                *)

\* No slug, name or report is there twice.
UniqueOK ==
    /\ \A t, u \in Live(tenant) : tenant[t] = tenant[u] => t = u
    /\ \A d, e \in Live(domain) : domain[d].name = domain[e].name => d = e
    /\ \A r, o \in reports : r.key = o.key => r = o

\* A service is going to insert each built-in tenant once, of those it has looked
\* for.
MissingOK ==
    \A s \in Services :
        /\ Len(missing[s]) <= looked[s]
        /\ \A i \in DOMAIN missing[s] : \E k \in 1 .. looked[s] : missing[s][i] = BuiltIn[k]
        /\ \A i, j \in DOMAIN missing[s] : missing[s][i] = missing[s][j] => i = j

\* A service that is not up has still to insert what its start found missing.
ToCome(s) == IF service[s] = "up" THEN 0 ELSE 1

\* Starts have come to their end at most this often.
Turns == 2 + crashes - ToCome("web") - ToCome("smtp")

\* The highest id so far: that of the operator, and those of the starts after it.
HighestId == MaxTenants + Len(BuiltIn) * Turns

HighOK == lastId.tenant <= HighestId /\ \A t \in Live(tenant) : t <= HighestId

TypesOK ==
    /\ tenant \in [TenantIds -> Slugs \cup {NoRow}]
    /\ domain \in [DomainIds -> [name : Names, tenant : TenantIds] \cup {NoRow}]
    /\ lastId \in [tenant : Nat, domain : {0} \cup DomainIds]
    /\ reports \subseteq [key : Keys, tenant : TenantIds \cup {NoRow},
                          domain : DomainIds \cup {NoRow}, owner : Slugs \cup {NoRow}]
    /\ service \in [Services -> {"down", "starting", "up"}]
    /\ looked \in [Services -> 0 .. Len(BuiltIn)]
    /\ missing \in [Services -> Seq(Slugs)]
    /\ req \in [Requests -> Requested]
    /\ crashes \in 0 .. MaxCrashes

TInv == TypesOK /\ UniqueOK /\ MissingOK /\ HighOK

LEMMA BuiltInTenants ==
    /\ Len(BuiltIn) \in {1, 2} /\ BuiltIn \in Seq(Slugs)
    /\ DOMAIN BuiltIn = 1 .. Len(BuiltIn)
    /\ \A i, j \in 1 .. Len(BuiltIn) : BuiltIn[i] = BuiltIn[j] => i = j
  <1>1. Unrouted # Default
    BY RegistryAssumption
  <1>2. CASE Mode = "single"
    <2>1. BuiltIn = <<Unrouted, Default>>
      BY <1>2 DEF BuiltIn
    <2>2. QED BY <1>1, <2>1, BuiltInSlugs
  <1>3. CASE Mode # "single"
    <2>1. BuiltIn = <<Unrouted>>
      BY <1>3 DEF BuiltIn
    <2>2. QED BY <2>1, BuiltInSlugs
  <1>4. QED BY <1>2, <1>3

LEMMA Ids ==
    /\ MaxTenants \in Nat /\ MaxDomains \in Nat /\ MaxCrashes \in Nat
    /\ TenantIds = 1 .. MaxTenants + Len(BuiltIn) * (2 + MaxCrashes)
    /\ NoRow \notin TenantIds /\ NoRow \notin DomainIds
  <1>1. /\ MaxTenants \in Nat /\ MaxDomains \in Nat /\ MaxCrashes \in Nat
        /\ Services = {"web", "smtp"} /\ NoRow \notin Nat
    BY RegistryAssumption
  <1>2. Cardinality(Services) = 2
    <2>1. IsFiniteSet({"web"}) /\ Cardinality({"web"}) = 1
      BY FS_Singleton
    <2>2. Cardinality({"web"} \cup {"smtp"}) = 2
      BY <2>1, FS_AddElement
    <2>3. Services = {"web"} \cup {"smtp"}
      BY <1>1
    <2>4. QED BY <2>2, <2>3
  <1>3. QED BY <1>1, <1>2 DEF TenantIds, DomainIds

LEMMA TurnsType ==
    ASSUME TypesOK
    PROVE  Turns \in Nat /\ Turns <= 2 + MaxCrashes
  <1>1. crashes \in Nat /\ crashes <= MaxCrashes /\ MaxCrashes \in Nat
    BY Ids DEF TypesOK
  <1>2. ToCome("web") \in {0, 1} /\ ToCome("smtp") \in {0, 1}
    BY DEF ToCome
  <1>3. QED BY <1>1, <1>2 DEF Turns

LEMMA HighestIdType ==
    ASSUME TypesOK
    PROVE  /\ HighestId \in Nat /\ MaxTenants <= HighestId
           /\ \A n \in Nat \ {0} : n <= HighestId => n \in TenantIds
  <1>1. Turns \in Nat /\ Turns <= 2 + MaxCrashes
    BY TurnsType
  <1>2. CASE Len(BuiltIn) = 1
    BY <1>1, <1>2, Ids DEF HighestId
  <1>3. CASE Len(BuiltIn) = 2
    BY <1>1, <1>3, Ids DEF HighestId
  <1>4. QED BY <1>2, <1>3, BuiltInTenants

LEMMA HighestIdNext == (TypesOK => HighestId \in Nat)'
  <1>1. TypesOK => HighestId \in Nat
    BY HighestIdType
  <1>2. QED BY <1>1, PTL

LEMMA HighestIdGrows ==
    ASSUME TypesOK, Turns' \in Nat
    PROVE  /\ Turns' >= Turns => HighestId' >= HighestId
           /\ Turns' >= Turns + 1 => HighestId' >= HighestId + Len(BuiltIn)
  <1>1. Turns \in Nat /\ MaxTenants \in Nat
    BY TurnsType, Ids
  <1>2. HighestId = MaxTenants + Len(BuiltIn) * Turns
        /\ HighestId' = MaxTenants + Len(BuiltIn) * Turns'
    BY DEF HighestId, BuiltIn
  <1>3. PICK n \in {1, 2} : n = Len(BuiltIn)
    BY BuiltInTenants
  <1>4. HighestId = MaxTenants + n * Turns /\ HighestId' = MaxTenants + n * Turns'
    BY <1>2, <1>3
  <1>5. PICK a \in Nat, b \in Nat, m \in Nat : a = Turns /\ b = Turns' /\ m = MaxTenants
    BY <1>1
  <1>6. PICK h, g : h = HighestId /\ g = HighestId'
    OBVIOUS
  <1>7. h = m + n * a /\ g = m + n * b
    BY <1>4, <1>5, <1>6
  <1>8. (b >= a => g >= h) /\ (b >= a + 1 => g >= h + n)
    <2>1. CASE n = 1
      BY <1>7, <2>1
    <2>2. CASE n = 2
      BY <1>7, <2>2
    <2>3. QED BY <2>1, <2>2
  <1>9. QED BY <1>3, <1>5, <1>6, <1>8

\* Max is the greatest element of a bounded set of numbers.
LEMMA MaxIn ==
    ASSUME NEW S \in SUBSET Nat, S # {}, NEW n \in Nat, \A x \in S : x <= n
    PROVE  Max(S) \in S
  <1> DEFINE Gaps == {n - x : x \in S}
  <1>1. Gaps \subseteq Nat /\ Gaps # {}
    <2>1. \A x \in S : n - x \in Nat
      OBVIOUS
    <2>2. PICK x \in S : TRUE
      OBVIOUS
    <2>3. QED BY <2>1, <2>2
  <1> HIDE DEF Gaps
  <1>2. PICK g \in Gaps : \A h \in Gaps : <<h, g>> \notin OpToRel(<, Nat)
    BY <1>1, NatLessThanWellFounded, WFMin
  <1>3. \A h \in Gaps : g <= h
    <2>1. \A h \in Gaps : ~(h < g)
      BY <1>1, <1>2 DEF OpToRel
    <2>2. QED BY <1>1, <2>1
  <1>4. PICK x \in S : g = n - x
    BY DEF Gaps
  <1>5. \A y \in S : x >= y
    <2>1. \A y \in S : n - y \in Gaps
      BY DEF Gaps
    <2>2. QED BY <1>3, <1>4, <2>1
  <1>6. QED BY <1>5 DEF Max

LEMMA LastIdBounded ==
    ASSUME TInv
    PROVE  LastId(tenant, lastId.tenant) \in Nat /\ LastId(tenant, lastId.tenant) <= HighestId
  <1>1. /\ HighestId \in Nat /\ lastId.tenant \in Nat /\ lastId.tenant <= HighestId
        /\ \A t \in Live(tenant) : t \in Nat /\ t <= HighestId
    BY HighestIdType, Ids DEF TInv, TypesOK, HighOK, Live
  <1>2. Max(Live(tenant) \cup {0}) \in Live(tenant) \cup {0}
    <2>1. PICK n \in Nat : n = HighestId
      BY <1>1
    <2>2. PICK S : S = Live(tenant) \cup {0}
      OBVIOUS
    <2>3. S \in SUBSET Nat /\ S # {} /\ \A x \in S : x <= n
      BY <1>1, <2>1, <2>2
    <2>4. QED BY <2>2, <2>3, MaxIn
  <1>3. QED BY <1>1, <1>2 DEF LastId

\* New tenants under new slugs.
LEMMA AddTenantsTypes ==
    ASSUME TInv, NEW slugs \in Seq(Slugs), AddTenants(slugs), ~SlugTaken(slugs),
           \A i, j \in DOMAIN slugs : slugs[i] = slugs[j] => i = j
    PROVE  /\ tenant' \in [TenantIds -> Slugs \cup {NoRow}]
           /\ lastId' \in [tenant : Nat, domain : {0} \cup DomainIds]
           /\ lastId'.tenant = LastId(tenant, lastId.tenant) + Len(slugs)
           /\ \A t \in Live(tenant)' : t <= lastId'.tenant \/ t \in Live(tenant)
           /\ \A t, u \in Live(tenant)' : tenant'[t] = tenant'[u] => t = u
  <1>1. PICK last : last = LastId(tenant, lastId.tenant)
    OBVIOUS
  <1>2. last \in Nat
    BY <1>1, LastIdBounded
  <1>3. /\ tenant' = [t \in TenantIds |-> IF t - last \in DOMAIN slugs THEN slugs[t - last]
                                          ELSE tenant[t]]
        /\ lastId' = [lastId EXCEPT !.tenant = last + Len(slugs)]
    BY <1>1 DEF AddTenants
  <1>4. /\ DOMAIN slugs = 1 .. Len(slugs) /\ Len(slugs) \in Nat
        /\ \A i \in DOMAIN slugs : slugs[i] \in Slugs
        /\ tenant \in [TenantIds -> Slugs \cup {NoRow}]
        /\ TenantIds \subseteq Nat
        /\ lastId \in [tenant : Nat, domain : {0} \cup DomainIds]
    BY LenProperties, ElementOfSeq, Ids DEF TInv, TypesOK, TenantIds
  <1>5. /\ tenant' \in [TenantIds -> Slugs \cup {NoRow}]
        /\ lastId' \in [tenant : Nat, domain : {0} \cup DomainIds]
        /\ lastId'.tenant = last + Len(slugs)
    <2>1. \A t \in TenantIds : tenant'[t] \in Slugs \cup {NoRow}
      BY <1>3, <1>4
    <2>2. DOMAIN tenant' = TenantIds /\ tenant' = [t \in TenantIds |-> tenant'[t]]
      BY <1>3
    <2>3. last + Len(slugs) \in Nat
      BY <1>2, <1>4
    <2>4. QED BY <1>3, <1>4, <2>1, <2>2, <2>3
  <1>6. ASSUME NEW t \in Live(tenant)'
        PROVE  /\ t \in Nat
               /\ \/ t - last \in DOMAIN slugs /\ tenant'[t] = slugs[t - last]
                     /\ t <= last + Len(slugs)
                  \/ t \in Live(tenant) /\ tenant'[t] = tenant[t]
    <2>1. t \in TenantIds /\ t \in Nat /\ tenant'[t] # NoRow
      BY <1>3, <1>4 DEF Live
    <2>2. CASE t - last \in DOMAIN slugs
      BY <1>2, <1>3, <1>4, <2>1, <2>2
    <2>3. CASE t - last \notin DOMAIN slugs
      BY <1>3, <1>4, <2>1, <2>3 DEF Live
    <2>4. QED BY <2>2, <2>3
  <1>7. \A i \in DOMAIN slugs : \A t \in Live(tenant) : tenant[t] # slugs[i]
    BY DEF SlugTaken, TenantOf
  <1>8. ASSUME NEW t \in Live(tenant)', NEW u \in Live(tenant)', tenant'[t] = tenant'[u]
        PROVE  t = u
    <2>1. CASE t - last \in DOMAIN slugs /\ tenant'[t] = slugs[t - last]
      <3>1. u - last \in DOMAIN slugs /\ tenant'[u] = slugs[u - last]
        BY <1>6, <1>7, <1>8, <2>1
      <3>2. t - last = u - last
        BY <1>8, <2>1, <3>1
      <3>3. QED BY <1>2, <1>6, <3>2
    <2>2. CASE t \in Live(tenant) /\ tenant'[t] = tenant[t]
      <3>1. u \in Live(tenant) /\ tenant'[u] = tenant[u]
        BY <1>6, <1>7, <1>8, <2>2
      <3>2. QED BY <1>8, <2>2, <3>1 DEF TInv, UniqueOK
    <2>3. QED BY <1>6, <2>1, <2>2
  <1>9. QED BY <1>1, <1>5, <1>6, <1>8

LEMMA InitTInv == Init => TInv
  <1>1. SUFFICES ASSUME Init PROVE TInv
    OBVIOUS
  <1>2. Live(tenant) = {} /\ Live(domain) = {}
    BY <1>1 DEF Init, Live
  <1>3. \A s \in Services : missing[s] = << >> /\ looked[s] = 0
    BY <1>1 DEF Init
  <1>4. TypesOK
    BY <1>1, Ids, BuiltInTenants, EmptySeq DEF Init, TypesOK, Requested
  <1>5. MissingOK
    BY <1>3 DEF MissingOK
  <1>6. UniqueOK
    BY <1>1, <1>2 DEF Init, UniqueOK
  <1>7. HighOK
    <2>1. lastId.tenant = 0
      BY <1>1 DEF Init
    <2>2. HighestId \in Nat
      BY <1>4, HighestIdType
    <2>3. QED BY <1>2, <2>1, <2>2 DEF HighOK
  <1>8. QED BY <1>4, <1>5, <1>6, <1>7 DEF TInv

-----------------------------------------------------------------------------
(* Services start and crash.                                               *)

LEMMA TurnsStep ==
    ASSUME TypesOK, NEW s \in Services, NEW state, service' = [service EXCEPT ![s] = state],
           crashes' \in Nat
    PROVE  /\ Turns' = Turns + (crashes' - crashes)
                        + (IF service[s] = "up" THEN 0 ELSE 1) - (IF state = "up" THEN 0 ELSE 1)
           /\ Turns \in Nat /\ crashes \in Nat
  <1>1. Services = {"web", "smtp"} /\ DOMAIN service = Services /\ crashes \in Nat
    BY RegistryAssumption DEF TypesOK
  <1>2. PICK o \in Services : o # s /\ Services = {s, o}
    BY <1>1
  <1>3. service'[s] = state /\ service'[o] = service[o]
    BY <1>1, <1>2
  <1>4. /\ Turns = 2 + crashes - ToCome(s) - ToCome(o)
        /\ Turns' = 2 + crashes' - ToCome(s)' - ToCome(o)'
    <2>1. CASE s = "web"
      BY <1>1, <1>2, <2>1 DEF Turns, ToCome
    <2>2. CASE s = "smtp"
      BY <1>1, <1>2, <2>2 DEF Turns, ToCome
    <2>3. QED BY <1>1, <2>1, <2>2
  <1>5. ToCome(o)' = ToCome(o) /\ ToCome(o) \in {0, 1} /\ ToCome(s) \in {0, 1}
    BY <1>3 DEF ToCome
  <1>6. ToCome(s)' = IF state = "up" THEN 0 ELSE 1
    BY <1>3 DEF ToCome
  <1>7. ToCome(s) = IF service[s] = "up" THEN 0 ELSE 1
    BY DEF ToCome
  <1>8. Turns \in Nat
    BY TurnsType
  <1>9. QED BY <1>1, <1>4, <1>5, <1>6, <1>7, <1>8

LEMMA TurnsKept ==
    ASSUME TypesOK, NEW s \in Services, NEW state, state # "up",
           service' = [service EXCEPT ![s] = state],
           \/ service[s] # "up" /\ crashes' = crashes
           \/ crashes' = crashes + 1
    PROVE  Turns' \in Nat /\ Turns' >= Turns
  <1>1. crashes' \in Nat
    BY DEF TypesOK
  <1>2. PICK c \in Nat, old \in {0, 1} :
          /\ Turns \in Nat /\ Turns' = Turns + c + old - 1
          /\ c = crashes' - crashes /\ old = IF service[s] = "up" THEN 0 ELSE 1
    <2>1. /\ Turns' = Turns + (crashes' - crashes)
                      + (IF service[s] = "up" THEN 0 ELSE 1) - (IF state = "up" THEN 0 ELSE 1)
          /\ Turns \in Nat /\ crashes \in Nat
      BY <1>1, TurnsStep
    <2>2. crashes' - crashes \in Nat
      BY <2>1
    <2>3. QED BY <2>1, <2>2
  <1>3. c + old >= 1
    BY <1>2 DEF TypesOK
  <1>4. QED BY <1>2, <1>3

LEMMA StoppedTypes ==
    ASSUME TInv, NEW s \in Services, NEW state \in {"down", "starting", "up"}, Stopped(s, state)
    PROVE  /\ service' \in [Services -> {"down", "starting", "up"}]
           /\ looked' \in [Services -> 0 .. Len(BuiltIn)]
           /\ missing' \in [Services -> Seq(Slugs)]
           /\ MissingOK'
  <1>1. /\ service' = [service EXCEPT ![s] = state]
        /\ looked' = [looked EXCEPT ![s] = 0]
        /\ missing' = [missing EXCEPT ![s] = << >>]
    BY DEF Stopped
  <1>2. /\ service \in [Services -> {"down", "starting", "up"}]
        /\ looked \in [Services -> 0 .. Len(BuiltIn)]
        /\ missing \in [Services -> Seq(Slugs)] /\ MissingOK
        /\ 0 \in 0 .. Len(BuiltIn)
    BY BuiltInTenants DEF TInv, TypesOK
  <1>3. /\ service' \in [Services -> {"down", "starting", "up"}]
        /\ looked' \in [Services -> 0 .. Len(BuiltIn)]
        /\ missing' \in [Services -> Seq(Slugs)]
    BY <1>1, <1>2, EmptySeq
  <1>4. missing'[s] = << >> /\ looked'[s] = 0
        /\ \A o \in Services : o # s => missing'[o] = missing[o] /\ looked'[o] = looked[o]
    BY <1>1, <1>2
  <1>5. ASSUME NEW o \in Services
        PROVE  /\ Len(missing'[o]) <= looked'[o]
               /\ \A i \in DOMAIN missing'[o] :
                     \E k \in 1 .. looked'[o] : missing'[o][i] = BuiltIn[k]
               /\ \A i, j \in DOMAIN missing'[o] : missing'[o][i] = missing'[o][j] => i = j
    <2>1. CASE o = s
      <3>1. missing'[o] = << >> /\ looked'[o] = 0
        BY <1>4, <2>1
      <3>2. QED BY <3>1
    <2>2. CASE o # s
      <3>1. missing'[o] = missing[o] /\ looked'[o] = looked[o]
        BY <1>4, <2>2
      <3>2. QED BY <1>2, <3>1 DEF MissingOK
    <2>3. QED BY <2>1, <2>2
  <1>6. MissingOK'
    BY <1>5 DEF MissingOK
  <1>7. QED BY <1>3, <1>6

\* The ids and rows are as they were.
LEMMA TablesKept ==
    ASSUME TInv, UNCHANGED tables, TypesOK', MissingOK', Turns' \in Nat, Turns' >= Turns
    PROVE  TInv'
  <1>1. HighestId' >= HighestId /\ HighestId \in Nat /\ HighestId' \in Nat
    BY HighestIdNext, HighestIdGrows, HighestIdType DEF TInv
  <1>2. Live(tenant)' = Live(tenant) /\ Live(tenant) \subseteq Nat /\ lastId' = lastId
        /\ lastId.tenant \in Nat
    BY Ids DEF tables, Live, TInv, TypesOK
  <1>3. HighOK'
    BY <1>1, <1>2 DEF HighOK, TInv
  <1>4. UniqueOK'
    BY DEF tables, TInv, UniqueOK, Live
  <1>5. QED BY <1>3, <1>4 DEF TInv

LEMMA LookForTenantTInv ==
    ASSUME TInv, NEW s \in Services, LookForTenant(s)
    PROVE  TInv'
  <1> DEFINE slug == BuiltIn[looked[s] + 1]
  <1>1. /\ looked[s] < Len(BuiltIn) /\ UNCHANGED <<tables, service, req, crashes>>
        /\ looked' = [looked EXCEPT ![s] = @ + 1]
        /\ missing' = [missing EXCEPT ![s] =
                          IF TenantOf(slug) = {} THEN Append(@, slug) ELSE @]
    BY DEF LookForTenant
  <1>2. /\ looked \in [Services -> 0 .. Len(BuiltIn)] /\ Len(BuiltIn) \in Nat
        /\ missing \in [Services -> Seq(Slugs)] /\ MissingOK
    BY BuiltInTenants DEF TInv, TypesOK
  <1>3. looked[s] \in Nat /\ looked[s] + 1 \in 1 .. Len(BuiltIn) /\ slug \in Slugs
    <2>1. looked[s] \in Nat /\ looked[s] + 1 \in 1 .. Len(BuiltIn)
      BY <1>1, <1>2
    <2>2. QED BY <2>1, BuiltInTenants, ElementOfSeq
  <1>4. looked' \in [Services -> 0 .. Len(BuiltIn)] /\ missing' \in [Services -> Seq(Slugs)]
    <2>1. looked' \in [Services -> 0 .. Len(BuiltIn)]
      BY <1>1, <1>2, <1>3
    <2>2. missing[s] \in Seq(Slugs) /\ Append(missing[s], slug) \in Seq(Slugs)
      BY <1>2, <1>3, AppendProperties
    <2>3. QED BY <1>1, <1>2, <2>1, <2>2
  <1>5. ASSUME NEW o \in Services
        PROVE  /\ Len(missing'[o]) <= looked'[o]
               /\ \A i \in DOMAIN missing'[o] :
                     \E k \in 1 .. looked'[o] : missing'[o][i] = BuiltIn[k]
               /\ \A i, j \in DOMAIN missing'[o] : missing'[o][i] = missing'[o][j] => i = j
    <2> DEFINE m == missing[o]
               n == looked[o]
    <2>1. /\ n \in Nat /\ n <= Len(BuiltIn) /\ m \in Seq(Slugs) /\ Len(m) <= n
          /\ DOMAIN m = 1 .. Len(m) /\ Len(m) \in Nat
          /\ \A i \in DOMAIN m : \E k \in 1 .. n : m[i] = BuiltIn[k]
          /\ \A i, j \in DOMAIN m : m[i] = m[j] => i = j
      BY <1>2, LenProperties DEF MissingOK
    <2>2. CASE o # s
      <3>1. missing'[o] = m /\ looked'[o] = n
        BY <1>1, <1>2, <2>2
      <3>2. QED BY <2>1, <3>1
    <2>3. CASE o = s /\ TenantOf(slug) # {}
      <3>1. missing'[o] = m /\ looked'[o] = n + 1
        BY <1>1, <1>2, <2>3
      <3> HIDE DEF m, n
      <3>2. QED BY <2>1, <3>1
    <2>4. CASE o = s /\ TenantOf(slug) = {}
      <3>1. missing'[o] = Append(m, slug) /\ looked'[o] = n + 1
        BY <1>1, <1>2, <2>4
      <3>2. slug = BuiltIn[n + 1] /\ n + 1 \in 1 .. Len(BuiltIn) /\ slug \in Slugs
        BY <1>3, <2>4
      <3>3. \A i \in DOMAIN m : m[i] # slug
        BY <2>1, <3>2, BuiltInTenants
      <3> HIDE DEF m, n, slug
      <3>4. PICK a : a = Append(m, slug)
        OBVIOUS
      <3>5. /\ DOMAIN a = 1 .. Len(m) + 1 /\ Len(a) = Len(m) + 1 /\ a[Len(m) + 1] = slug
            /\ \A i \in DOMAIN m : a[i] = m[i]
        BY <2>1, <3>2, <3>4, AppendProperties
      <3>6. \A i \in DOMAIN a : i \in DOMAIN m \/ i = Len(m) + 1
        BY <2>1, <3>5
      <3>7. \A i \in DOMAIN a : \E k \in 1 .. n + 1 : a[i] = BuiltIn[k]
        BY <2>1, <3>2, <3>5, <3>6
      <3>8. \A i, j \in DOMAIN a : a[i] = a[j] => i = j
        BY <2>1, <3>3, <3>5, <3>6
      <3>9. Len(a) <= n + 1
        BY <2>1, <3>5
      <3>10. QED BY <3>1, <3>4, <3>7, <3>8, <3>9
    <2>5. QED BY <2>2, <2>3, <2>4
  <1>6. MissingOK'
    BY <1>5 DEF MissingOK
  <1>7. Turns' = Turns /\ Turns \in Nat
    BY <1>1, TurnsType DEF Turns, ToCome, TInv
  <1>8. TypesOK'
    BY <1>1, <1>4 DEF TInv, TypesOK, tables
  <1>9. QED BY <1>1, <1>6, <1>7, <1>8, TablesKept

LEMMA BootstrapTInv ==
    ASSUME TInv, NEW s \in Services, Bootstrap(s)
    PROVE  TInv'
  <1>1. service[s] = "starting" /\ UNCHANGED <<domain, reports, req, crashes>>
    BY DEF Bootstrap
  <1>3. CASE SlugTaken(missing[s])
    <2>1. Stopped(s, "down") /\ UNCHANGED <<tenant, lastId>>
      BY <1>3 DEF Bootstrap
    <2>2. TypesOK' /\ MissingOK'
      BY <1>1, <2>1, StoppedTypes DEF TInv, TypesOK
    <2>3. Turns' \in Nat /\ Turns' >= Turns
      <3>1. service' = [service EXCEPT ![s] = "down"] /\ service[s] # "up"
        BY <1>1, <2>1 DEF Stopped
      <3>2. QED BY <1>1, <3>1, TurnsKept DEF TInv
    <2>4. QED BY <1>1, <2>1, <2>2, <2>3, TablesKept DEF tables
  <1>4. CASE ~SlugTaken(missing[s])
    <2>1. AddTenants(missing[s]) /\ Stopped(s, "up")
      BY <1>4 DEF Bootstrap
    <2>2. /\ missing[s] \in Seq(Slugs) /\ Len(missing[s]) \in Nat
          /\ looked[s] \in Nat /\ Len(missing[s]) <= looked[s] /\ looked[s] <= Len(BuiltIn)
          /\ \A i, j \in DOMAIN missing[s] : missing[s][i] = missing[s][j] => i = j
          /\ Len(BuiltIn) \in Nat
      BY BuiltInTenants, LenProperties DEF TInv, TypesOK, MissingOK
    <2>3. /\ tenant' \in [TenantIds -> Slugs \cup {NoRow}]
          /\ lastId' \in [tenant : Nat, domain : {0} \cup DomainIds]
          /\ lastId'.tenant = LastId(tenant, lastId.tenant) + Len(missing[s])
          /\ \A t \in Live(tenant)' : t <= lastId'.tenant \/ t \in Live(tenant)
          /\ \A t, u \in Live(tenant)' : tenant'[t] = tenant'[u] => t = u
      BY <1>4, <2>1, <2>2, AddTenantsTypes
    <2>4. TypesOK' /\ MissingOK'
      BY <1>1, <2>1, <2>3, StoppedTypes DEF TInv, TypesOK
    <2>5. Turns' \in Nat /\ Turns' = Turns + 1 /\ Turns \in Nat
      <3>1. service' = [service EXCEPT ![s] = "up"] /\ service[s] # "up"
        BY <1>1, <2>1 DEF Stopped
      <3>2. crashes' \in Nat /\ crashes' - crashes = 0
        BY <1>1 DEF TInv, TypesOK
      <3>3. /\ Turns' = Turns + (crashes' - crashes)
                        + (IF service[s] = "up" THEN 0 ELSE 1) - (IF "up" = "up" THEN 0 ELSE 1)
            /\ Turns \in Nat
        BY <3>1, <3>2, TurnsStep DEF TInv
      <3>4. Turns' = Turns + 0 + 1 - 0
        BY <3>1, <3>2, <3>3
      <3>5. QED BY <3>3, <3>4
    <2>6. HighestId' >= HighestId + Len(BuiltIn) /\ HighestId \in Nat /\ HighestId' \in Nat
      BY <2>4, <2>5, HighestIdGrows, HighestIdType, HighestIdNext DEF TInv
    <2>7. HighOK'
      <3>1. lastId'.tenant <= HighestId' /\ lastId'.tenant \in Nat
        BY <2>2, <2>3, <2>6, LastIdBounded
      <3>2. ASSUME NEW t \in Live(tenant)' PROVE t <= HighestId'
        <4>1. t \in Nat
          BY <2>3 DEF Live, TenantIds
        <4>2. t \in Live(tenant) => t <= HighestId
          BY DEF TInv, HighOK
        <4>3. QED BY <2>2, <2>3, <2>6, <3>1, <4>1, <4>2
      <3>3. QED BY <3>1, <3>2 DEF HighOK
    <2>8. UniqueOK'
      BY <1>1, <2>3 DEF TInv, UniqueOK, Live
    <2>9. QED BY <2>4, <2>7, <2>8 DEF TInv
  <1>5. QED BY <1>3, <1>4

LEMMA ServiceTInv ==
    ASSUME TInv, NEW s \in Services, Boot(s) \/ Crash(s)
    PROVE  TInv'
  <1>1. CASE Start(s)
    <2>1. /\ service[s] = "down" /\ service' = [service EXCEPT ![s] = "starting"]
          /\ UNCHANGED <<tables, looked, missing, req, crashes>>
      BY <1>1 DEF Start
    <2>2. Turns' \in Nat /\ Turns' >= Turns
      <3>1. service[s] # "up"
        BY <2>1
      <3>2. QED BY <2>1, <3>1, TurnsKept DEF TInv
    <2>3. TypesOK' /\ MissingOK'
      BY <2>1 DEF TInv, TypesOK, MissingOK, tables
    <2>4. QED BY <2>1, <2>2, <2>3, TablesKept
  <1>2. CASE Crash(s)
    <2>1. /\ crashes < MaxCrashes /\ crashes' = crashes + 1 /\ Stopped(s, "down")
          /\ UNCHANGED tables
          /\ \E gone : req' = [q \in Requests |-> IF q \in gone THEN Idle ELSE req[q]]
      BY <1>2 DEF Crash
    <2>2. Turns' \in Nat /\ Turns' >= Turns
      <3>1. service' = [service EXCEPT ![s] = "down"]
        BY <2>1 DEF Stopped
      <3>2. QED BY <2>1, <3>1, TurnsKept DEF TInv
    <2>3. req' \in [Requests -> Requested]
      <3>1. Idle \in Requested /\ \A q \in Requests : req[q] \in Requested
        BY DEF TInv, TypesOK, Requested
      <3>2. QED BY <2>1, <3>1
    <2>4. crashes' \in 0 .. MaxCrashes
      BY <2>1, Ids DEF TInv, TypesOK
    <2>5. TypesOK' /\ MissingOK'
      BY <2>1, <2>3, <2>4, StoppedTypes DEF TInv, TypesOK, tables
    <2>6. QED BY <2>1, <2>2, <2>5, TablesKept
  <1>3. QED BY <1>1, <1>2, LookForTenantTInv, BootstrapTInv DEF Boot

-----------------------------------------------------------------------------
(* Requests read and write.                                                *)

LEMMA LiveTypes ==
    ASSUME TInv
    PROVE  /\ \A t \in Live(tenant) : t \in TenantIds /\ tenant[t] \in Slugs
           /\ \A d \in Live(domain) : /\ d \in DomainIds /\ domain[d].name \in Names
                                      /\ domain[d].tenant \in TenantIds
           /\ \A slug : One(TenantOf(slug)) # NoRow => One(TenantOf(slug)) \in Live(tenant)
           /\ \A name : One(DomainOf(name)) # NoRow => One(DomainOf(name)) \in Live(domain)
  <1>1. \A t \in Live(tenant) : t \in TenantIds /\ tenant[t] \in Slugs
    BY DEF TInv, TypesOK, Live
  <1>2. \A d \in Live(domain) : /\ d \in DomainIds /\ domain[d].name \in Names
                                /\ domain[d].tenant \in TenantIds
    BY DEF TInv, TypesOK, Live
  <1>3. \A slug : One(TenantOf(slug)) # NoRow => One(TenantOf(slug)) \in Live(tenant)
    BY OneRow DEF TenantOf
  <1>4. \A name : One(DomainOf(name)) # NoRow => One(DomainOf(name)) \in Live(domain)
    BY OneRow DEF DomainOf
  <1>5. QED BY <1>1, <1>2, <1>3, <1>4

LEMMA FilingType ==
    ASSUME NEW key \in Keys, NEW t \in TenantIds \cup {NoRow}, NEW d \in DomainIds \cup {NoRow}
    PROVE  Filing(key, t, d) \in Requested
  BY DEF Filing, Requested

LEMMA ReadType ==
    ASSUME TInv, NEW q \in Requests, Read(q)
    PROVE  \E what \in Requested : Decides(q, what)
  <1>1. CASE \E slug \in Slugs : CreateTenant(q, slug)
    <2>1. PICK slug \in Slugs : CreateTenant(q, slug)
      BY <1>1
    <2>2. Decides(q, [op |-> "create tenant", slug |-> slug])
      BY <2>1 DEF CreateTenant
    <2>3. [op |-> "create tenant", slug |-> slug] \in Requested
      BY DEF Requested
    <2>4. QED BY <2>2, <2>3
  <1>2. CASE \E slug \in Slugs : DeleteTenant(q, slug)
    <2>1. PICK slug \in Slugs : DeleteTenant(q, slug)
      BY <1>2
    <2>2. PICK t : t = One(TenantOf(slug))
      OBVIOUS
    <2>3. t # NoRow /\ Decides(q, [op |-> "delete tenant", tenant |-> t])
      BY <2>1, <2>2 DEF DeleteTenant
    <2>4. t \in TenantIds
      BY <2>2, <2>3, LiveTypes
    <2>5. [op |-> "delete tenant", tenant |-> t] \in Requested
      BY <2>4 DEF Requested
    <2>6. QED BY <2>3, <2>5
  <1>3. CASE \E slug \in Slugs, name \in Names : AddDomain(q, slug, name)
    <2>1. PICK slug \in Slugs, name \in Names : AddDomain(q, slug, name)
      BY <1>3
    <2>2. PICK t : t = One(TenantOf(slug))
      OBVIOUS
    <2>3. TenantOf(slug) # {} /\ Decides(q, [op |-> "add domain", name |-> name, tenant |-> t])
      BY <2>1, <2>2 DEF AddDomain
    <2>4. t \in TenantIds
      <3>1. t \in Live(tenant)
        BY <2>2, <2>3 DEF One, TenantOf
      <3>2. QED BY <3>1, LiveTypes
    <2>5. [op |-> "add domain", name |-> name, tenant |-> t] \in Requested
      BY <2>4 DEF Requested
    <2>6. QED BY <2>3, <2>5
  <1>4. CASE \E name \in Names : DeleteDomain(q, name)
    <2>1. PICK name \in Names : DeleteDomain(q, name)
      BY <1>4
    <2>2. PICK d : d = One(DomainOf(name))
      OBVIOUS
    <2>3. PICK U : U = {r.key : r \in {o \in reports : o.domain = d}}
      OBVIOUS
    <2>4. d # NoRow /\ Decides(q, [op |-> "delete domain", domain |-> d, unlink |-> U])
      BY <2>1, <2>2, <2>3 DEF DeleteDomain
    <2>5. d \in DomainIds /\ U \subseteq Keys
      <3>1. \A r \in reports : r.key \in Keys
        BY DEF TInv, TypesOK
      <3>2. QED BY <2>2, <2>3, <2>4, <3>1, LiveTypes
    <2>6. [op |-> "delete domain", domain |-> d, unlink |-> U] \in Requested
      BY <2>5 DEF Requested
    <2>7. QED BY <2>4, <2>6
  <1>5. CASE \E name \in Names, key \in Keys : PostTlsReport(q, key, name)
    <2>1. PICK name \in Names, key \in Keys : PostTlsReport(q, key, name)
      BY <1>5
    <2>2. PICK d : d = One(DomainOf(name))
      OBVIOUS
    <2>3. d # NoRow /\ Decides(q, Filing(key, domain[d].tenant, d))
      BY <2>1, <2>2 DEF PostTlsReport
    <2>4. domain[d].tenant \in TenantIds /\ d \in DomainIds
      BY <2>2, <2>3, LiveTypes
    <2>5. QED BY <2>3, <2>4, FilingType
  <1>6. CASE \E name \in Names, key \in Keys : QuarantineMail(q, key, name)
    <2>1. PICK name \in Names, key \in Keys : QuarantineMail(q, key, name)
      BY <1>6
    <2>2. PICK d, u : d = One(DomainOf(name)) /\ u = One(TenantOf(Unrouted))
      OBVIOUS
    <2>3. PICK t : t = IF d = NoRow THEN u ELSE domain[d].tenant
      OBVIOUS
    <2>4. Decides(q, Filing(key, t, d))
      BY <2>1, <2>2, <2>3 DEF QuarantineMail, Attributed
    <2>5. t \in TenantIds \cup {NoRow} /\ d \in DomainIds \cup {NoRow}
      BY <2>2, <2>3, LiveTypes
    <2>6. QED BY <2>4, <2>5, FilingType
  <1>7. QED BY <1>1, <1>2, <1>3, <1>4, <1>5, <1>6 DEF Read

LEMMA ReadTInv ==
    ASSUME TInv, NEW q \in Requests, Read(q)
    PROVE  TInv'
  <1>1. PICK what \in Requested : Decides(q, what)
    BY ReadType
  <1>2. req' = [req EXCEPT ![q] = what] /\ UNCHANGED <<tables, starts, crashes>>
    BY <1>1 DEF Decides
  <1>3. req' \in [Requests -> Requested]
    BY <1>2 DEF TInv, TypesOK
  <1>4. TypesOK' /\ MissingOK'
    BY <1>2, <1>3 DEF TInv, TypesOK, MissingOK, tables, starts
  <1>5. Turns' = Turns /\ Turns \in Nat
    BY <1>2, TurnsType DEF TInv, Turns, ToCome, starts
  <1>6. QED BY <1>2, <1>4, <1>5, TablesKept

\* A request ends; its tables are as the step says.
LEMMA AnsweredTInv ==
    ASSUME TInv, NEW q \in Requests, Answered(q), UNCHANGED <<starts, crashes>>, UniqueOK',
           tenant' \in [TenantIds -> Slugs \cup {NoRow}],
           domain' \in [DomainIds -> [name : Names, tenant : TenantIds] \cup {NoRow}],
           lastId' \in [tenant : Nat, domain : {0} \cup DomainIds],
           reports' \subseteq [key : Keys, tenant : TenantIds \cup {NoRow},
                              domain : DomainIds \cup {NoRow}, owner : Slugs \cup {NoRow}],
           lastId'.tenant <= HighestId, \A t \in Live(tenant)' : t <= HighestId
    PROVE  TInv'
  <1>1. req' \in [Requests -> Requested]
    BY DEF Answered, TInv, TypesOK, Requested
  <1>2. TypesOK' /\ MissingOK'
    BY <1>1 DEF TInv, TypesOK, MissingOK, starts
  <1>3. HighestId' = HighestId
    BY DEF HighestId, Turns, ToCome, starts, BuiltIn
  <1>4. HighOK'
    BY <1>3 DEF HighOK
  <1>5. QED BY <1>2, <1>4 DEF TInv

LEMMA RequestTypes ==
    ASSUME NEW r \in Requested
    PROVE  /\ r.op = "create tenant" => r \in [op : {"create tenant"}, slug : Slugs]
           /\ r.op = "add domain" =>
                 r \in [op : {"add domain"}, name : Names, tenant : TenantIds]
           /\ r.op = "file" =>
                 r \in [op : {"file"}, key : Keys, tenant : TenantIds \cup {NoRow},
                       domain : DomainIds \cup {NoRow}]
  <1>1. CASE r = Idle
    BY <1>1 DEF Idle
  <1>2. CASE r \in [op : {"create tenant"}, slug : Slugs]
    <2>1. r.op = "create tenant"
      BY <1>2
    <2>2. QED BY <1>2, <2>1
  <1>3. CASE r \in [op : {"add domain"}, name : Names, tenant : TenantIds]
    <2>1. r.op = "add domain"
      BY <1>3
    <2>2. QED BY <1>3, <2>1
  <1>4. CASE r \in [op : {"delete tenant"}, tenant : TenantIds]
    <2>1. r.op = "delete tenant"
      BY <1>4
    <2>2. QED BY <2>1
  <1>5. CASE r \in [op : {"delete domain"}, domain : DomainIds, unlink : SUBSET Keys]
    <2>1. r.op = "delete domain"
      BY <1>5
    <2>2. QED BY <2>1
  <1>6. CASE r \in [op : {"file"}, key : Keys, tenant : TenantIds \cup {NoRow},
                   domain : DomainIds \cup {NoRow}]
    <2>1. r.op = "file"
      BY <1>6
    <2>2. QED BY <1>6, <2>1
  <1>7. QED BY <1>1, <1>2, <1>3, <1>4, <1>5, <1>6 DEF Requested

LEMMA CommitTenantTInv ==
    ASSUME TInv, NEW q \in Requests, CommitTenant(q)
    PROVE  TInv'
  <1>1. PICK slugs : slugs = <<req[q].slug>>
    OBVIOUS
  <1>2. /\ req[q].op = "create tenant" /\ ~SlugTaken(slugs) /\ AddTenants(slugs)
        /\ LastId(tenant, lastId.tenant) < MaxTenants
        /\ Answered(q) /\ UNCHANGED <<domain, reports, starts, crashes>>
    BY <1>1 DEF CommitTenant
  <1>3. req[q].slug \in Slugs
    <2>1. req[q] \in [op : {"create tenant"}, slug : Slugs]
      BY <1>2, RequestTypes DEF TInv, TypesOK
    <2>2. QED BY <2>1
  <1>4. /\ slugs \in Seq(Slugs) /\ Len(slugs) = 1
        /\ \A i, j \in DOMAIN slugs : slugs[i] = slugs[j] => i = j
    BY <1>1, <1>3
  <1>5. /\ tenant' \in [TenantIds -> Slugs \cup {NoRow}]
        /\ lastId' \in [tenant : Nat, domain : {0} \cup DomainIds]
        /\ lastId'.tenant = LastId(tenant, lastId.tenant) + Len(slugs)
        /\ \A t \in Live(tenant)' : t <= lastId'.tenant \/ t \in Live(tenant)
        /\ \A t, u \in Live(tenant)' : tenant'[t] = tenant'[u] => t = u
    BY <1>2, <1>4, AddTenantsTypes
  <1>6. lastId'.tenant \in Nat /\ lastId'.tenant <= HighestId
    <2>1. HighestId \in Nat /\ MaxTenants \in Nat /\ MaxTenants <= HighestId
      BY HighestIdType, Ids DEF TInv
    <2>2. PICK last \in Nat : last = LastId(tenant, lastId.tenant)
      BY LastIdBounded
    <2>3. last < MaxTenants /\ lastId'.tenant = last + 1
      BY <1>2, <1>4, <1>5, <2>2
    <2>4. QED BY <2>1, <2>2, <2>3
  <1>7. ASSUME NEW t \in Live(tenant)' PROVE t <= HighestId
    <2>1. t \in Nat /\ HighestId \in Nat
      BY <1>5, HighestIdType DEF Live, TenantIds, TInv
    <2>2. t \in Live(tenant) => t <= HighestId
      BY DEF TInv, HighOK
    <2>3. QED BY <1>5, <1>6, <2>1, <2>2
  <1>8. UniqueOK'
    BY <1>2, <1>5 DEF TInv, UniqueOK, Live
  <1>9. QED BY <1>2, <1>5, <1>6, <1>7, <1>8, AnsweredTInv DEF TInv, TypesOK

LEMMA CommitDomainTInv ==
    ASSUME TInv, NEW q \in Requests, CommitDomain(q)
    PROVE  TInv'
  <1>1. PICK id : id = LastId(domain, lastId.domain) + 1
    OBVIOUS
  <1>2. PICK row : row = [name |-> req[q].name, tenant |-> req[q].tenant]
    OBVIOUS
  <1>3. /\ req[q].op = "add domain" /\ DomainOf(req[q].name) = {} /\ id \in DomainIds
        /\ domain' = [domain EXCEPT ![id] = row] /\ lastId' = [lastId EXCEPT !.domain = id]
        /\ Answered(q) /\ UNCHANGED <<tenant, reports, starts, crashes>>
    BY <1>1, <1>2 DEF CommitDomain
  <1>4. row \in [name : Names, tenant : TenantIds] /\ row.name = req[q].name
    <2>1. req[q] \in [op : {"add domain"}, name : Names, tenant : TenantIds]
      BY <1>3, RequestTypes DEF TInv, TypesOK
    <2>2. QED BY <1>2, <2>1
  <1>5. /\ domain' \in [DomainIds -> [name : Names, tenant : TenantIds] \cup {NoRow}]
        /\ domain'[id] = row /\ \A d \in DomainIds : d # id => domain'[d] = domain[d]
    BY <1>3, <1>4 DEF TInv, TypesOK
  <1>6. /\ lastId' \in [tenant : Nat, domain : {0} \cup DomainIds]
        /\ lastId'.tenant = lastId.tenant
    BY <1>3 DEF TInv, TypesOK
  <1>7. \A d \in Live(domain)' : d = id \/ (d \in Live(domain) /\ domain'[d] = domain[d])
    BY <1>5 DEF Live, TInv, TypesOK
  <1>8. \A d \in Live(domain) : domain[d].name # row.name
    BY <1>3, <1>4 DEF DomainOf
  <1>9. \A d, e \in Live(domain)' : domain'[d].name = domain'[e].name => d = e
    <2>1. \A d, e \in Live(domain) : domain[d].name = domain[e].name => d = e
      BY DEF TInv, UniqueOK
    <2>2. ASSUME NEW d \in Live(domain)', NEW e \in Live(domain)',
                 domain'[d].name = domain'[e].name
          PROVE  d = e
      <3>1. CASE d = id
        <4>1. domain'[e].name = row.name
          BY <1>5, <2>2, <3>1
        <4>2. QED BY <1>7, <1>8, <3>1, <4>1
      <3>2. CASE d \in Live(domain) /\ domain'[d] = domain[d]
        <4>1. e \in Live(domain) /\ domain'[e] = domain[e]
          BY <1>5, <1>7, <1>8, <2>2, <3>2
        <4>2. QED BY <2>1, <2>2, <3>2, <4>1
      <3>3. QED BY <1>7, <3>1, <3>2
    <2>3. QED BY <2>2
  <1>10. UniqueOK'
    <2>1. /\ \A t, u \in Live(tenant)' : tenant'[t] = tenant'[u] => t = u
          /\ \A r, o \in reports' : r.key = o.key => r = o
      BY <1>3 DEF TInv, UniqueOK, Live
    <2>2. QED BY <1>9, <2>1 DEF UniqueOK
  <1>11. /\ lastId'.tenant <= HighestId /\ Live(tenant)' = Live(tenant)
         /\ \A t \in Live(tenant) : t <= HighestId
    BY <1>3, <1>6 DEF TInv, HighOK, Live
  <1>12. QED BY <1>3, <1>5, <1>6, <1>10, <1>11, AnsweredTInv DEF TInv, TypesOK

LEMMA CommitTenantDeletionTInv ==
    ASSUME TInv, NEW q \in Requests, CommitTenantDeletion(q)
    PROVE  TInv'
  <1>1. PICK t : t = req[q].tenant
    OBVIOUS
  <1>2. /\ tenant' = [tenant EXCEPT ![t] = NoRow] /\ Answered(q)
        /\ UNCHANGED <<domain, lastId, reports, starts, crashes>>
    BY <1>1 DEF CommitTenantDeletion
  <1>3. /\ tenant' \in [TenantIds -> Slugs \cup {NoRow}]
        /\ \A u \in Live(tenant)' : u \in Live(tenant) /\ tenant'[u] = tenant[u]
    BY <1>2 DEF TInv, TypesOK, Live
  <1>4. UniqueOK'
    <2>1. \A v, u \in Live(tenant)' : tenant'[v] = tenant'[u] => v = u
      BY <1>3 DEF TInv, UniqueOK
    <2>2. QED BY <1>2, <2>1 DEF TInv, UniqueOK, Live
  <1>5. lastId'.tenant <= HighestId /\ \A u \in Live(tenant)' : u <= HighestId
    BY <1>2, <1>3 DEF TInv, HighOK
  <1>6. QED BY <1>2, <1>3, <1>4, <1>5, AnsweredTInv DEF TInv, TypesOK

LEMMA CommitDomainDeletionTInv ==
    ASSUME TInv, NEW q \in Requests, CommitDomainDeletion(q)
    PROVE  TInv'
  <1>1. PICK d, U : d = req[q].domain /\ U = req[q].unlink
    OBVIOUS
  <1>2. /\ domain' = [domain EXCEPT ![d] = NoRow]
        /\ reports' = {IF r.key \in U THEN [r EXCEPT !.domain = NoRow] ELSE r : r \in reports}
        /\ Answered(q) /\ UNCHANGED <<tenant, lastId, starts, crashes>>
    BY <1>1 DEF CommitDomainDeletion
  <1>3. /\ domain' \in [DomainIds -> [name : Names, tenant : TenantIds] \cup {NoRow}]
        /\ \A e \in Live(domain)' : e \in Live(domain) /\ domain'[e] = domain[e]
    BY <1>2 DEF TInv, TypesOK, Live
  <1> DEFINE Rows == [key : Keys, tenant : TenantIds \cup {NoRow},
                      domain : DomainIds \cup {NoRow}, owner : Slugs \cup {NoRow}]
             Unlinked(r) == IF r.key \in U THEN [r EXCEPT !.domain = NoRow] ELSE r
  <1>4. ASSUME NEW r \in reports
        PROVE  Unlinked(r) \in Rows /\ Unlinked(r).key = r.key
    <2>1. r \in Rows
      BY DEF TInv, TypesOK
    <2>2. QED BY <2>1
  <1>5. reports' = {Unlinked(r) : r \in reports}
    BY <1>2
  <1> HIDE DEF Unlinked, Rows
  <1>6. reports' \subseteq Rows
    BY <1>4, <1>5
  <1>7. \A r, o \in reports' : r.key = o.key => r = o
    <2>1. \A r, o \in reports : r.key = o.key => r = o
      BY DEF TInv, UniqueOK
    <2>2. QED BY <1>4, <1>5, <2>1
  <1>8. UniqueOK'
    <2>1. \A v, u \in Live(domain)' : domain'[v].name = domain'[u].name => v = u
      BY <1>3 DEF TInv, UniqueOK
    <2>2. QED BY <1>2, <1>7, <2>1 DEF TInv, UniqueOK, Live
  <1>9. /\ lastId'.tenant <= HighestId /\ Live(tenant)' = Live(tenant)
        /\ \A t \in Live(tenant) : t <= HighestId
    BY <1>2 DEF TInv, HighOK, Live
  <1>10. QED BY <1>2, <1>3, <1>6, <1>8, <1>9, AnsweredTInv DEF TInv, TypesOK, Rows

LEMMA CommitReportTInv ==
    ASSUME TInv, NEW q \in Requests, CommitReport(q)
    PROVE  TInv'
  <1>1. PICK t : t = req[q].tenant
    OBVIOUS
  <1>2. PICK new : new = [key |-> req[q].key, tenant |-> t, domain |-> req[q].domain,
                          owner |-> IF t = NoRow THEN NoRow ELSE tenant[t]]
    OBVIOUS
  <1>3. /\ req[q].op = "file" /\ req[q].key \notin KeysHeld /\ reports' = reports \cup {new}
        /\ Answered(q) /\ UNCHANGED <<tenant, domain, lastId, starts, crashes>>
    BY <1>1, <1>2 DEF CommitReport
  <1>4. req[q] \in [op : {"file"}, key : Keys, tenant : TenantIds \cup {NoRow},
                    domain : DomainIds \cup {NoRow}]
    BY <1>3, RequestTypes DEF TInv, TypesOK
  <1>5. /\ new \in [key : Keys, tenant : TenantIds \cup {NoRow},
                     domain : DomainIds \cup {NoRow}, owner : Slugs \cup {NoRow}]
        /\ new.key = req[q].key
    <2>1. t = NoRow \/ tenant[t] \in Slugs \cup {NoRow}
      BY <1>1, <1>4 DEF TInv, TypesOK
    <2>2. QED BY <1>1, <1>2, <1>4, <2>1
  <1>6. \A r \in reports : r.key # new.key
    BY <1>3, <1>5 DEF KeysHeld
  <1>7. UniqueOK'
    <2>1. \A r, o \in reports' : r.key = o.key => r = o
      BY <1>3, <1>6 DEF TInv, UniqueOK
    <2>2. QED BY <1>3, <2>1 DEF TInv, UniqueOK, Live
  <1>8. /\ lastId'.tenant <= HighestId /\ Live(tenant)' = Live(tenant)
        /\ \A u \in Live(tenant) : u <= HighestId
    BY <1>3 DEF TInv, HighOK, Live
  <1>9. QED BY <1>3, <1>5, <1>7, <1>8, AnsweredTInv DEF TInv, TypesOK

LEMMA RejectedTInv ==
    ASSUME TInv, NEW q \in Requests, Rejected(q)
    PROVE  TInv'
  <1>1. Answered(q) /\ UNCHANGED <<tenant, domain, lastId, reports, starts, crashes>>
    BY DEF Rejected, tables
  <1>2. UniqueOK'
    BY <1>1 DEF TInv, UniqueOK, Live
  <1>3. /\ lastId'.tenant <= HighestId /\ Live(tenant)' = Live(tenant)
        /\ \A u \in Live(tenant) : u <= HighestId
    BY <1>1 DEF TInv, HighOK, Live
  <1>4. QED BY <1>1, <1>2, <1>3, AnsweredTInv DEF TInv, TypesOK

LEMMA NextTInv ==
    ASSUME TInv, [Next]_vars
    PROVE  TInv'
  <1>1. CASE UNCHANGED vars
    <2>1. UNCHANGED <<tables, service, looked, missing, req, crashes>>
      BY <1>1 DEF vars, starts
    <2>2. TypesOK' /\ MissingOK'
      BY <2>1 DEF TInv, TypesOK, MissingOK, tables
    <2>3. Turns' = Turns /\ Turns \in Nat
      BY <2>1, TurnsType DEF TInv, Turns, ToCome
    <2>4. QED BY <2>1, <2>2, <2>3, TablesKept
  <1>2. ASSUME NEW q \in Requests, Write(q) PROVE TInv'
    BY <1>2, CommitTenantTInv, CommitDomainTInv, CommitTenantDeletionTInv,
       CommitDomainDeletionTInv, CommitReportTInv DEF Write
  <1>3. QED BY <1>1, <1>2, ServiceTInv, ReadTInv, RejectedTInv DEF Next

LEMMA TInvTypes == TInv => TypeOK
  <1>1. SUFFICES ASSUME TInv PROVE TypeOK
    OBVIOUS
  <1>2. lastId \in [tenant : {0} \cup TenantIds, domain : {0} \cup DomainIds]
    <2>1. lastId \in [tenant : Nat, domain : {0} \cup DomainIds] /\ lastId.tenant <= HighestId
      BY <1>1 DEF TInv, TypesOK, HighOK
    <2>2. lastId.tenant \in {0} \cup TenantIds
      BY <1>1, <2>1, HighestIdType DEF TInv
    <2>3. QED BY <2>1, <2>2
  <1>3. ASSUME NEW S, \A x, y \in S : x = y PROVE Cardinality(S) <= 1
    <2>1. CASE S = {}
      BY <2>1, FS_EmptySet
    <2>2. CASE S # {}
      <3>1. PICK x : S = {x}
        BY <1>3, <2>2
      <3>2. QED BY <3>1, FS_Singleton
    <2>3. QED BY <2>1, <2>2
  <1>4. \A slug \in Slugs : Cardinality(TenantOf(slug)) <= 1
    <2>1. ASSUME NEW slug PROVE \A t, u \in TenantOf(slug) : t = u
      BY <1>1 DEF TInv, UniqueOK, TenantOf
    <2>2. QED BY <1>3, <2>1
  <1>5. \A name \in Names : Cardinality(DomainOf(name)) <= 1
    <2>1. ASSUME NEW name PROVE \A d, e \in DomainOf(name) : d = e
      BY <1>1 DEF TInv, UniqueOK, DomainOf
    <2>2. QED BY <1>3, <2>1
  <1>6. \A r, o \in reports : r.key = o.key => r = o
    BY <1>1 DEF TInv, UniqueOK
  <1>7. QED BY <1>1, <1>2, <1>4, <1>5, <1>6 DEF TInv, TypesOK, TypeOK

\* No slug, domain or report is ever there twice, whichever services start and
\* requests are served at the same time, and whatever crashes: bootstrap,
\* create_tenant, add_domain and the filing of reports against the unique
\* constraints of the schema (control_plane/service.py, db/models.py).
THEOREM RegistryTypeCorrect == Spec => []TypeOK
  <1>1. Spec => []TInv
    BY InitTInv, NextTInv, PTL DEF Spec
  <1>2. QED BY <1>1, TInvTypes, PTL
=============================================================================
