------------------------------- MODULE Intake -------------------------------
(***************************************************************************)
(* Report intake: what happens between a report mail arriving and the      *)
(* sender being told it was accepted (smtp/server.py handle_DATA, the      *)
(* /api/ingest endpoint, ingest/pipeline.py process_message), while the    *)
(* operator adds, rotates and deletes report addresses and domains         *)
(* (control_plane/service.py).                                             *)
(*                                                                         *)
(* Every message is processed in one database transaction (session_scope); *)
(* each SELECT and each flush of that transaction is an action, because    *)
(* at READ COMMITTED any other transaction may commit between two of them. *)
(*                                                                         *)
(* Abstracted: the bytes of a message are a sequence of documents, each    *)
(* "report" (classified and parsed), "broken" (classified, but its parser  *)
(* raises) or "unknown" (not a report).  A report's key is what the unique *)
(* constraint of its table names.  The quarantine tenant always exists     *)
(* (bootstrap creates it at every start).                                  *)
(***************************************************************************)
EXTENDS Integers, Sequences, FiniteSets

CONSTANTS
    Backend,      \* "postgresql", or "sqlite" (foreign keys off, one writer)
    Workers,      \* threads and processes that may run process_message
    Mail,         \* messages; a forwarded copy is a message of its own
    Rcpt,         \* [Mail -> local part of the first recipient, or NoRow]
    Docs,         \* [Mail -> the documents the message carries]
    LocalParts,   \* local parts mint_local_part may return
    Typos,        \* local parts that are never minted
    MaxDomains,   \* bound on domain ids
    Names,        \* domain names
    Tenants, Unrouted,
    Keys,         \* identities of reports (columns of the unique constraint)
    NoRow,        \* SQL NULL / no such row / nothing
    MaxFailures   \* bound on crashes, outages and lost answers

DomainIds == 1 .. MaxDomains

Document == [kind : {"report", "broken", "unknown"}, key : Keys,
             policy : Names \cup {NoRow}]

Statuses == {"routed", "retired", "unrouted", "duplicate", "failed"}

ASSUME IntakeAssumption ==
    /\ Backend \in {"postgresql", "sqlite"}
    /\ MaxDomains \in Nat
    /\ MaxFailures \in Nat
    /\ Unrouted \in Tenants
    /\ LocalParts \cap Typos = {}
    /\ Rcpt \in [Mail -> LocalParts \cup Typos \cup {NoRow}]
    /\ Docs \in [Mail -> Seq(Document)]
    /\ NoRow \notin Mail \cup LocalParts \cup Typos \cup DomainIds \cup Names
    /\ NoRow \notin [key : Keys, tenant : Tenants, domain : DomainIds \cup {NoRow}, mail : Mail]
    /\ NoRow \notin [name : Names, tenant : Tenants]
    /\ NoRow \notin [domain : DomainIds, state : {"active", "retired"}]

DomainRow  == [name : Names, tenant : Tenants]
AddressRow == [domain : DomainIds, state : {"active", "retired"}]
Report     == [key : Keys, tenant : Tenants, domain : DomainIds \cup {NoRow},
               mail : Mail]
RawRow     == [mail : Mail, status : Statuses]

VARIABLES
    \* committed rows
    domain,       \* domains, by id
    lastId,       \* the id sequence of domains
    address,      \* report_addresses, by local part
    minted,       \* local parts ever minted: what a sender can know
    raws,         \* raw_messages
    reports,      \* aggregate_reports and tls_reports
    \* the senders
    delivered,    \* messages answered with 250 / 201
    failures,
    \* one transaction per worker
    pc, job, known, status, route, next, pending, written,
    \* the delete_domain request in progress
    deletion

registry == <<domain, lastId, address, minted>>
store    == <<raws, reports>>
senders  == <<delivered, failures>>
txn      == <<pc, job, known, status, route, next, pending, written>>
vars     == <<registry, store, senders, txn, deletion>>

Quarantine == [tenant |-> Unrouted, domain |-> NoRow]
NoDeletion == [stage |-> "none", domain |-> NoRow, reports |-> {}, addresses |-> {}]

KeysOf(rows) == {r.key : r \in rows}

Init ==
    /\ domain = [d \in DomainIds |-> NoRow]
    /\ lastId = 0
    /\ address = [l \in LocalParts |-> NoRow]
    /\ minted = {}
    /\ raws = {}
    /\ reports = {}
    /\ delivered = {}
    /\ failures = 0
    /\ pc = [w \in Workers |-> "idle"]
    /\ job = [w \in Workers |-> NoRow]
    /\ known = [w \in Workers |-> NoRow]
    /\ status = [w \in Workers |-> "routed"]
    /\ route = [w \in Workers |-> Quarantine]
    /\ next = [w \in Workers |-> 1]
    /\ pending = [w \in Workers |-> NoRow]
    /\ written = [w \in Workers |-> {}]
    /\ deletion = NoDeletion

-----------------------------------------------------------------------------
(* Transactions.                                                           *)

InTxn(w) == pc[w] \notin {"idle", "reply"}

\* SQLite has one writer: the first INSERT of a transaction waits for the
\* others.  PostgreSQL takes row locks only, modelled where they bite.
WriteLockFree ==
    Backend = "sqlite" => \A w \in Workers : ~InTxn(w)

\* The session is closed and its thread is free again.
Release(w) ==
    /\ pc' = [pc EXCEPT ![w] = "idle"]
    /\ job' = [job EXCEPT ![w] = NoRow]
    /\ known' = [known EXCEPT ![w] = NoRow]
    /\ status' = [status EXCEPT ![w] = "routed"]
    /\ route' = [route EXCEPT ![w] = Quarantine]
    /\ next' = [next EXCEPT ![w] = 1]
    /\ pending' = [pending EXCEPT ![w] = NoRow]
    /\ written' = [written EXCEPT ![w] = {}]

\* An exception that leaves session_scope: nothing of the transaction stays,
\* and the sender is answered 451 / 500, or not at all.
Rollback(w) ==
    /\ Release(w)
    /\ UNCHANGED <<registry, store, senders, deletion>>

-----------------------------------------------------------------------------
(* process_message.                                                        *)

\* Senders learn an address from DNS, so only minted ones (or mistyped ones)
\* are ever named.  A message that was not answered 250 is sent again, also
\* while an earlier attempt is still being processed.
Sendable(m) ==
    /\ m \notin delivered
    /\ Rcpt[m] \in minted \cup Typos \cup {NoRow}

Receive(w, m) ==
    /\ pc[w] = "idle"
    /\ Sendable(m)
    /\ WriteLockFree
    /\ pc' = [pc EXCEPT ![w] = "resolve"]
    /\ job' = [job EXCEPT ![w] = m]
    /\ UNCHANGED <<registry, store, senders, deletion,
                   known, status, route, next, pending, written>>

\* Mutant: the retired look-up is made first, the active one second.
HasAddressSwapped(l, state) ==
    l \in LocalParts /\ address[l] # NoRow /\ address[l].state # state

HasAddress(l, state) ==
    /\ l \in LocalParts
    /\ address[l] # NoRow
    /\ address[l].state = state

\* resolve_address: the SELECT on active addresses.
ResolveAddress(w) ==
    LET l == Rcpt[job[w]] IN
    /\ pc[w] = "resolve"
    /\ IF HasAddress(l, "active")
         THEN /\ known' = [known EXCEPT ![w] = address[l].domain]
              /\ pc' = [pc EXCEPT ![w] = "domain"]
         ELSE /\ pc' = [pc EXCEPT ![w] = "retired"]
              /\ UNCHANGED known
    /\ UNCHANGED <<registry, store, senders, deletion,
                   job, status, route, next, pending, written>>

\* resolve_retired_address: a second SELECT, made only when the first found
\* nothing; without a row the message is quarantined, never refused.
ResolveRetired(w) ==
    LET l == Rcpt[job[w]] IN
    /\ pc[w] = "retired"
    /\ IF HasAddress(l, "retired")
         THEN /\ known' = [known EXCEPT ![w] = address[l].domain]
              /\ status' = [status EXCEPT ![w] = "retired"]
              /\ pc' = [pc EXCEPT ![w] = "domain"]
         ELSE /\ status' = [status EXCEPT ![w] = "unrouted"]
              /\ pc' = [pc EXCEPT ![w] = "docs"]
              /\ UNCHANGED known
    /\ UNCHANGED <<registry, store, senders, deletion,
                   job, route, next, pending, written>>

\* known.domain.tenant_id: the lazy load of the address's domain.
LoadDomain(w) ==
    LET d == known[w] IN
    /\ pc[w] = "domain"
    /\ domain[d] # NoRow
    /\ route' = [route EXCEPT ![w] = [tenant |-> domain[d].tenant, domain |-> d]]
    /\ pc' = [pc EXCEPT ![w] = "docs"]
    /\ UNCHANGED <<registry, store, senders, deletion,
                   job, known, status, next, pending, written>>

\* Mutant: a domain that is gone leaves the message without a tenant.
DomainGoneNoTenant(w) ==
    /\ pc[w] = "domain" /\ domain[known[w]] = NoRow
    /\ route' = [route EXCEPT ![w] = [tenant |-> NoRow, domain |-> NoRow]]
    /\ pc' = [pc EXCEPT ![w] = "docs"]
    /\ UNCHANGED <<registry, store, senders, deletion,
                   job, known, status, next, pending, written>>

\* The domain was deleted after its address was read: None has no tenant_id,
\* and the line is outside the try.
DomainGone(w) ==
    /\ pc[w] = "domain"
    /\ domain[known[w]] = NoRow
    /\ Rollback(w)

MoreDocs(w) ==
    /\ status[w] # "failed"
    /\ next[w] <= Len(Docs[job[w]])

CurrentDoc(w) == Docs[job[w]][next[w]]

SkipUnknown(w) ==
    /\ pc[w] = "docs"
    /\ MoreDocs(w)
    /\ CurrentDoc(w).kind = "unknown"
    /\ next' = [next EXCEPT ![w] = @ + 1]
    /\ UNCHANGED <<registry, store, senders, deletion,
                   pc, job, known, status, route, pending, written>>

\* Mutant: one bad document is skipped, the message keeps its status.
ParseErrorSkips(w) ==
    /\ pc[w] = "docs" /\ MoreDocs(w) /\ CurrentDoc(w).kind = "broken"
    /\ next' = [next EXCEPT ![w] = @ + 1]
    /\ UNCHANGED <<registry, store, senders, deletion,
                   pc, job, known, status, route, pending, written>>

\* A parser raises: the exception is caught, the message is marked failed,
\* the documents after this one are not looked at and those before it stay.
ParseError(w) ==
    /\ pc[w] = "docs"
    /\ MoreDocs(w)
    /\ CurrentDoc(w).kind = "broken"
    /\ status' = [status EXCEPT ![w] = "failed"]
    /\ UNCHANGED <<registry, store, senders, deletion,
                   pc, job, known, route, next, pending, written>>

\* Mutant: the SELECT sees rows that other transactions have not committed.
HeldDirty(w, k) ==
    k \in KeysOf(reports) \cup UNION {KeysOf(written[v]) : v \in Workers}

\* Mutant: only copies inside the same message are noticed.
HeldHere(w, k) == k \in KeysOf(written[w])

\* The SELECT that looks for the report; it sees committed rows and the
\* transaction's own flushed ones.
Held(w, k) == k \in KeysOf(reports) \cup KeysOf(written[w])

CheckDuplicate(w) ==
    /\ pc[w] = "docs"
    /\ MoreDocs(w)
    /\ CurrentDoc(w).kind = "report"
    /\ pending[w] = NoRow
    /\ IF Held(w, CurrentDoc(w).key)
         THEN /\ next' = [next EXCEPT ![w] = @ + 1]
              /\ UNCHANGED pc
         ELSE /\ pc' = [pc EXCEPT ![w] = "store"]
              /\ UNCHANGED next
    /\ UNCHANGED <<registry, store, senders, deletion,
                   job, known, status, route, pending, written>>

\* Routing by recipient did not pin a domain: the policy domain named in the
\* report does, and its tenant with it.
DomainNamed(n) == {d \in DomainIds : domain[d] # NoRow /\ domain[d].name = n}

Attribution(w, doc) ==
    IF route[w].domain = NoRow /\ DomainNamed(doc.policy) # {}
    THEN LET d == CHOOSE d \in DomainNamed(doc.policy) : TRUE
         IN  [tenant |-> domain[d].tenant, domain |-> d]
    ELSE route[w]

AddReport(w) ==
    LET doc == CurrentDoc(w)
        to  == Attribution(w, doc)
    IN
    /\ pc[w] = "store"
    /\ pending' = [pending EXCEPT ![w] =
                     [key |-> doc.key, tenant |-> to.tenant,
                      domain |-> to.domain, mail |-> job[w]]]
    /\ next' = [next EXCEPT ![w] = @ + 1]
    /\ pc' = [pc EXCEPT ![w] = "docs"]
    /\ UNCHANGED <<registry, store, senders, deletion,
                   job, known, status, route, written>>

-----------------------------------------------------------------------------
(* The unit of work: a pending INSERT is flushed before the next SELECT    *)
(* (autoflush) and at the end of process_message.                          *)

Flushing(w) ==
    /\ pc[w] = "docs"
    /\ pending[w] # NoRow
    /\ MoreDocs(w) => CurrentDoc(w).kind = "report"

\* PostgreSQL: an INSERT of a key that an open transaction has inserted
\* waits for the end of that transaction.
WaitsFor(w, v) ==
    /\ v # w
    /\ Flushing(w)
    /\ pending[w].key \in KeysOf(written[v])

Waiting(w) == \E v \in Workers : WaitsFor(w, v)

\* Mutant: aggregate_reports.domain_id is not a foreign key.
ForeignKeyUnchecked(w) == TRUE

ForeignKeyHolds(w) ==
    Backend = "postgresql" =>
        (pending[w].domain # NoRow => domain[pending[w].domain] # NoRow)

\* Mutant: no unique constraint on the table of reports.
FlushUnchecked(w) ==
    /\ Flushing(w) /\ ForeignKeyHolds(w)
    /\ written' = [written EXCEPT ![w] = @ \cup {pending[w]}]
    /\ pending' = [pending EXCEPT ![w] = NoRow]
    /\ UNCHANGED <<registry, store, senders, deletion,
                   pc, job, known, status, route, next>>

Flush(w) ==
    /\ Flushing(w)
    /\ ~Waiting(w)
    /\ pending[w].key \notin KeysOf(reports)
    /\ ForeignKeyHolds(w)
    /\ written' = [written EXCEPT ![w] = @ \cup {pending[w]}]
    /\ pending' = [pending EXCEPT ![w] = NoRow]
    /\ UNCHANGED <<registry, store, senders, deletion,
                   pc, job, known, status, route, next>>

\* IntegrityError.  Inside the try it is caught, but it has deactivated the
\* session's transaction, so the commit raises in its place.
FlushFails(w) ==
    /\ Flushing(w)
    /\ ~Waiting(w)
    /\ pending[w].key \in KeysOf(reports) \/ ~ForeignKeyHolds(w)
    /\ Rollback(w)

\* Two messages with the same reports in opposite orders: PostgreSQL aborts
\* one transaction of a cycle of waiters.
DeadlockAbort(w) ==
    /\ \E C \in SUBSET Workers :
         /\ w \in C
         /\ \A u \in C : /\ \E v \in C : WaitsFor(u, v)
                         /\ \E v \in C : WaitsFor(v, u)
    /\ Rollback(w)

Understood(w) ==
    \E i \in 1 .. next[w] - 1 : Docs[job[w]][i].kind = "report"

\* Mutant: a message that brought nothing new is not told apart.
FinalStatusNoDuplicate(w) ==
    IF status[w] = "routed" /\ ~Understood(w) THEN "failed" ELSE status[w]

FinalStatus(w) ==
    CASE status[w] = "routed" /\ ~Understood(w)    -> "failed"
      [] status[w] = "routed" /\ Understood(w) /\ written[w] = {} -> "duplicate"
      [] OTHER                                     -> status[w]

Commit(w) ==
    /\ pc[w] = "docs"
    /\ ~MoreDocs(w)
    /\ pending[w] = NoRow
    /\ raws' = raws \cup {[mail |-> job[w], status |-> FinalStatus(w)]}
    /\ reports' = reports \cup written[w]
    /\ pc' = [pc EXCEPT ![w] = "reply"]
    /\ written' = [written EXCEPT ![w] = {}]
    /\ UNCHANGED <<registry, senders, deletion,
                   job, known, status, route, next, pending>>

-----------------------------------------------------------------------------
(* The answer, and what can go wrong around it.                            *)

\* 250 Message accepted for delivery / 201 Created.
Reply(w) ==
    /\ pc[w] = "reply"
    /\ delivered' = delivered \cup {job[w]}
    /\ Release(w)
    /\ UNCHANGED <<registry, store, failures, deletion>>

\* Committed, but the answer never reaches the sender: a crash, a dropped
\* connection, or the 60 s timeout of a forwarding edge.
LoseReply(w) ==
    /\ pc[w] = "reply"
    /\ failures < MaxFailures
    /\ failures' = failures + 1
    /\ Release(w)
    /\ UNCHANGED <<registry, store, delivered, deletion>>

\* Mutant: the exception is answered with 250.
FailAnswered(w) ==
    /\ InTxn(w) /\ failures < MaxFailures
    /\ failures' = failures + 1
    /\ delivered' = delivered \cup {job[w]}
    /\ Release(w)
    /\ UNCHANGED <<registry, store, deletion>>

\* A crash or a database outage in the middle of the transaction.
Fail(w) ==
    /\ InTxn(w)
    /\ failures < MaxFailures
    /\ failures' = failures + 1
    /\ Release(w)
    /\ UNCHANGED <<registry, store, delivered, deletion>>

-----------------------------------------------------------------------------
(* The control plane.                                                      *)

\* PostgreSQL draws ids from a sequence; SQLite gives max(id) + 1, so the id
\* of a deleted domain may come back.
IsNextId(d) ==
    IF Backend = "postgresql"
    THEN d = lastId + 1
    ELSE /\ d > 1 => domain[d - 1] # NoRow
         /\ \A e \in DomainIds : e >= d => domain[e] = NoRow

\* add_domain: the domain and its first address in one transaction.
AddDomain(d, n, t, l) ==
    /\ WriteLockFree
    /\ IsNextId(d)
    /\ DomainNamed(n) = {}
    /\ l \notin minted
    /\ domain' = [domain EXCEPT ![d] = [name |-> n, tenant |-> t]]
    /\ lastId' = IF d > lastId THEN d ELSE lastId
    /\ address' = [address EXCEPT ![l] = [domain |-> d, state |-> "active"]]
    /\ minted' = minted \cup {l}
    /\ UNCHANGED <<store, senders, txn, deletion>>

\* mint_address, the first step of a rotation.
MintAddress(d, l) ==
    /\ WriteLockFree
    /\ domain[d] # NoRow
    /\ l \notin minted
    /\ address' = [address EXCEPT ![l] = [domain |-> d, state |-> "active"]]
    /\ minted' = minted \cup {l}
    /\ UNCHANGED <<domain, lastId, store, senders, txn, deletion>>

\* deactivate_address, the last step of a rotation.
DeactivateAddress(l) ==
    /\ WriteLockFree
    /\ address[l] # NoRow
    /\ address[l].state = "active"
    /\ domain[address[l].domain] # NoRow
    /\ address' = [address EXCEPT ![l].state = "retired"]
    /\ UNCHANGED <<domain, lastId, minted, store, senders, txn, deletion>>

\* delete_domain reads the domain's reports, then its addresses, and writes
\* only when the session commits.
ReadReports(d) ==
    /\ deletion.stage = "none"
    /\ domain[d] # NoRow
    /\ deletion' = [stage |-> "reports", domain |-> d, addresses |-> {},
                    reports |-> KeysOf({r \in reports : r.domain = d})]
    /\ UNCHANGED <<registry, store, senders, txn>>

ReadAddresses ==
    /\ deletion.stage = "reports"
    /\ deletion' = [deletion EXCEPT !.stage = "flush",
                      !.addresses = {l \in LocalParts :
                          address[l] # NoRow /\ address[l].domain = deletion.domain}]
    /\ UNCHANGED <<registry, store, senders, txn>>

\* Mutant: the reports of a deleted domain go back to the quarantine.
UnlinkedToQuarantine(r) ==
    IF r.domain = deletion.domain /\ r.key \in deletion.reports
    THEN [r EXCEPT !.domain = NoRow, !.tenant = Unrouted] ELSE r

Unlinked(r) ==
    IF r.domain = deletion.domain /\ r.key \in deletion.reports
    THEN [r EXCEPT !.domain = NoRow]
    ELSE r

\* Rows that still name the domain after the reads of this request.
StillReferenced ==
    \/ \E r \in reports :
         r.domain = deletion.domain /\ r.key \notin deletion.reports
    \/ \E l \in LocalParts \ deletion.addresses :
         address[l] # NoRow /\ address[l].domain = deletion.domain

\* PostgreSQL: an uncommitted report of the domain holds a lock on its row.
DomainLocked ==
    \E w \in Workers : \E r \in written[w] : r.domain = deletion.domain

DeleteDomain ==
    /\ deletion.stage = "flush"
    /\ WriteLockFree
    /\ Backend = "postgresql" => ~DomainLocked /\ ~StillReferenced
    /\ reports' = {Unlinked(r) : r \in reports}
    /\ address' = [l \in LocalParts |->
                     IF l \in deletion.addresses THEN NoRow ELSE address[l]]
    /\ domain' = [domain EXCEPT ![deletion.domain] = NoRow]
    /\ deletion' = NoDeletion
    /\ UNCHANGED <<lastId, minted, raws, senders, txn>>

\* A row arrived after the reads: the foreign key refuses the DELETE.
DeleteRefused ==
    /\ deletion.stage = "flush"
    /\ Backend = "postgresql" /\ ~DomainLocked /\ StillReferenced
    /\ deletion' = NoDeletion
    /\ UNCHANGED <<registry, store, senders, txn>>

-----------------------------------------------------------------------------
\* Everything that was sent has been answered: the service rests.
Rest ==
    /\ \A m \in Mail : ~Sendable(m)
    /\ \A w \in Workers : pc[w] = "idle"
    /\ UNCHANGED vars

ReadStep(w) ==
    \/ ResolveAddress(w) \/ ResolveRetired(w) \/ LoadDomain(w) \/ DomainGone(w)
    \/ SkipUnknown(w) \/ ParseError(w) \/ CheckDuplicate(w) \/ AddReport(w)

WriteStep(w) ==
    Flush(w) \/ FlushFails(w) \/ DeadlockAbort(w) \/ Commit(w) \/ Reply(w)

WorkerStep(w) == ReadStep(w) \/ WriteStep(w)

Trouble(w) == LoseReply(w) \/ Fail(w)

ControlPlane ==
    \/ \E d \in DomainIds, n \in Names, t \in Tenants, l \in LocalParts :
         AddDomain(d, n, t, l)
    \/ \E d \in DomainIds, l \in LocalParts : MintAddress(d, l)
    \/ \E l \in LocalParts : DeactivateAddress(l)
    \/ \E d \in DomainIds : ReadReports(d)
    \/ ReadAddresses
    \/ DeleteDomain
    \/ DeleteRefused

Next ==
    \/ \E w \in Workers : \/ \E m \in Mail : Receive(w, m)
                          \/ WorkerStep(w)
                          \/ Trouble(w)
    \/ ControlPlane
    \/ Rest

Spec == Init /\ [][Next]_vars

\* A worker thread runs until its session is closed; PostgreSQL wakes a
\* waiting INSERT when the row it waits for is decided, so a waiter is not
\* overtaken forever; senders keep retrying what was answered 451.
FairSpec ==
    /\ Spec
    /\ \A w \in Workers : WF_vars(WorkerStep(w))
    /\ \A w \in Workers, k \in Keys :
          SF_vars(Flush(w) /\ pending[w].key = k)
    /\ \A m \in Mail : SF_vars(\E w \in Workers : Receive(w, m))
-----------------------------------------------------------------------------
(* Properties.                                                             *)

TypeOK ==
    /\ domain \in [DomainIds -> DomainRow \cup {NoRow}]
    /\ lastId \in 0 .. MaxDomains
    /\ address \in [LocalParts -> AddressRow \cup {NoRow}]
    /\ minted \subseteq LocalParts
    /\ raws \subseteq RawRow
    /\ reports \subseteq Report
    /\ delivered \subseteq Mail
    /\ failures \in 0 .. MaxFailures
    /\ pc \in [Workers -> {"idle", "resolve", "retired", "domain", "docs",
                           "store", "reply"}]
    /\ job \in [Workers -> Mail \cup {NoRow}]
    /\ known \in [Workers -> DomainIds \cup {NoRow}]
    /\ status \in [Workers -> Statuses]
    /\ route \in [Workers -> [tenant : Tenants, domain : DomainIds \cup {NoRow}]]
    /\ next \in [Workers -> Nat \ {0}]
    /\ pending \in [Workers -> Report \cup {NoRow}]
    /\ written \in [Workers -> SUBSET Report]
    /\ deletion \in [stage : {"none", "reports", "flush"},
                     domain : DomainIds \cup {NoRow},
                     reports : SUBSET Keys, addresses : SUBSET LocalParts]

\* The documents of a message that a parser gets to see and can read: those
\* before the first one whose parser raises.
Readable(m) ==
    {i \in 1 .. Len(Docs[m]) :
        /\ Docs[m][i].kind = "report"
        /\ \A j \in 1 .. i : Docs[m][j].kind # "broken"}

ReadableKeys(m) == {Docs[m][i].key : i \in Readable(m)}

Broken(m) == \E i \in 1 .. Len(Docs[m]) : Docs[m][i].kind = "broken"

\* "A message addressed to ... should never silently lose data": a message
\* the sender was told is accepted is stored, whatever failed on the way
\* (smtp/server.py handle_DATA answers 250 only after session_scope commits).
NothingAckedIsLost ==
    \A m \in delivered : \E r \in raws : r.mail = m

\* A stored message has all its readable reports held, by this message or by
\* another one: "duplicate" never names a report that a concurrent
\* transaction was still going to roll back, and a message not marked failed
\* had no document that failed to parse.
FiledMeansHeld ==
    \A r \in raws :
        /\ ReadableKeys(r.mail) \subseteq KeysOf(reports)
        /\ r.status # "failed" => ~Broken(r.mail)

\* The same report is never held twice, however many copies of it are being
\* processed at once: the SELECT of _store_aggregate does not lock, so the
\* unique constraint must catch what it misses.
HeldOnce ==
    \A r, s \in reports : r.key = s.key => r = s

\* A report linked to a domain belongs to that domain's tenant, and the domain
\* exists: no interleaving of intake with delete_domain leaves a report
\* pointing at a row that is gone.
LinkedToLiveDomain ==
    \A r \in reports :
        r.domain # NoRow =>
            /\ domain[r.domain] # NoRow
            /\ domain[r.domain].tenant = r.tenant

\* Mail to an address we minted is quarantined only when the address was
\* deleted with its domain, never because it was being rotated between the
\* two look-ups of process_message.
MintedNeverQuarantined ==
    \A r \in raws :
        /\ r.status = "unrouted"
        /\ Rcpt[r.mail] \in LocalParts
        => address[Rcpt[r.mail]] = NoRow

\* "routed" is the status of a message that brought something new: its reports
\* are there and name it as their source.
RoutedBroughtReports ==
    \A r \in raws :
        r.status = "routed" => \E s \in reports : s.mail = r.mail

\* delete_domain: historical reports are kept, with their tenant and source;
\* a committed report only ever loses its link to a domain.
HistoryIsKept ==
    [][\A r \in reports : \E s \in reports' :
          /\ s.key = r.key /\ s.tenant = r.tenant /\ s.mail = r.mail
          /\ s.domain \in {r.domain, NoRow}]_vars

\* Every message is filed as if it were the only one being processed: the
\* outcome recorded for it and the reports it adds are those of one atomic
\* step, although its transaction reads and writes in many.
Ledger == INSTANCE ReportLedger WITH
            filed <- raws, held <- KeysOf(reports), acked <- delivered,
            Content <- [m \in Mail |-> ReadableKeys(m)],
            Unreadable <- {m \in Mail : Broken(m)}

ImplementsLedger == Ledger!Spec

\* "Transient failure: senders retry, so a hiccup here loses nothing": a
\* message a sender can address is accepted in the end, whatever conflicts,
\* deadlocks, crashes and lost answers it meets first.
EveryMailIsAccepted ==
    \A m \in Mail : Sendable(m) ~> m \in delivered
=============================================================================
