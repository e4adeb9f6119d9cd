# dmarc-service: specifications, model checks and proofs

TLA+ modules of dmarc-service, the TLC configurations that check them, and
proofs checked by TLAPS. Paths such as `ingest/pipeline.py` are below
`src/src/dmarc_service/`. `PROJECT.json` lists, for every definition, the lines
it stands for.

## 1. The system

dmarc-service receives DMARC aggregate reports (RUA) and TLS-RPT reports for the
domains of several tenants. One process serves HTTP (`dmarc-service web`), one
receives mail (`smtp`, or `smtp` in forward mode on an edge machine), one polls a
mailbox (`imap`), and an operator runs commands (`set-password`, `reprocess`,
`migrate`, `backup`, `enrich`). They share nothing but the database: SQLite by
default, PostgreSQL in production.

| component | state | operations | talks to |
|---|---|---|---|
| Ingest pipeline, `ingest/pipeline.py` | `raw_messages`, `aggregate_reports`, `tls_reports` | `process_message`, `process_upload`, `process_tlsrpt_http`, `reprocess` | control plane (resolve, attribute), parsers |
| SMTP receiver, `smtp/server.py` | none of its own | `handle_DATA`: local or forward | pipeline in its own transaction; `/api/ingest` over HTTP |
| JSON API, `api/app.py` | none of its own | domains, addresses, tenants, `/api/ingest`, `/tlsrpt`, queries | control plane, pipeline |
| Control plane, `control_plane/service.py` | `tenants`, `domains`, `report_addresses`; a cache of DNS answers in memory, per process | bootstrap, add and delete tenants and domains, mint, deactivate, resolve, DNS records to publish and their live check | database, DNS |
| Accounts, `auth/service.py`, `api/ui.py`, `cli.py` | `users`, `auth_providers`, `api_tokens` | set-up, SSO provisioning, roles, provider, tokens | database, identity provider |
| IMAP poller, `ingest/imap.py` | the mailbox and its flags | `fetch_once`, `fetch_all`, `run` | IMAP server, pipeline |
| Parsers, `ingest/parsers.py` | none | `classify`, `parse_aggregate`, `parse_tlsrpt` | - |
| IP enrichment, `ingest/enrich.py` | `ip_intel` | `enrich_ips` on page load, `backfill` | DNS, registries, database |
| SPF expansion, `ingest/spf.py` | a cache in memory | walk of includes with a budget of look-ups | DNS; called by report pages and metrics |
| Backup, `backup.py` | object store | dump, upload, prune | `pg_dump`, S3 |
| Metrics, `metrics.py` | a snapshot in memory | scrape, background refresh | database, SPF expansion, DNS check |

What is hard about it:

* **Interleaved transactions.** Reads are plain SELECTs at READ COMMITTED and
  nothing is locked: the duplicate check, the two look-ups of an address, the
  lazy load of its domain, the count of administrators and the reads of
  `delete_domain` may all be out of date when they are used. PostgreSQL adds
  waits on unique keys, deadlocks and foreign keys; SQLite adds a single writer
  and enforces no foreign keys (`db/session.py` sets no pragma).
* **Failure.** A message is one transaction and is acknowledged after it
  commits, so crashes, outages and lost answers lead to retries, and retries of
  what was committed lead to duplicates.
* **Time.** What cannot be understood today is kept and replayed under a later
  release, while addresses are minted and retired.
* **Shared memory.** Page loads, the API and the refresh of the metrics run in
  threads of one process and share the cache of DNS answers without a lock; a
  look-up takes seconds, during which another thread may drop or replace the
  entry it is for.
  The snapshot of the metrics is read and replaced by different threads.
* **External parties.** IMAP names messages by position, and positions shift;
  registries throttle; what is published in the DNS may loop; a bucket may be
  shared by several installations.
* **Starting.** `web` and `smtp` start together and both create the built-in
  tenants.

What makes each component correct:

* intake: an accepted message is stored; a stored message has its readable
  reports held; no report is held twice; a status tells the truth; mail to a
  minted address is never taken for unknown mail; concurrent messages are filed
  as if one after the other; a sender that retries is accepted in the end;
* registry: deleting a domain keeps its reports and their tenant, and leaves no
  link to a domain that is gone; every domain and report has a tenant that
  exists; every service comes up;
* replay: what a later release can read is held in the end; nothing is held
  twice; labels tell the truth;
* DNS check: an answer is not used past its time; a forced re-check is followed
  by fresh look-ups; a half-finished rotation does not read as healthy;
* accounts: the first one rules; the last administrator stays; one provider, and
  what is left of the two when requests overlap;
* SPF: the walk ends within its budget, lists no network that the records do not,
  and of theirs all but those the code gives up, and reports the look-ups they cost;
* metrics: a scrape shows one refresh; an outage does not end the refreshing;
* enrichment: nothing known of an address is lost; every address that a registry
  knows is named in the end;
* backup: every copy of the retention time, and the last one whatever its age, is
  in the bucket and whole;
* IMAP: nothing is acknowledged before it is stored, nothing leaves the mailbox
  before it is filed, unless the server refused to file it, everything is stored in
  the end.

## 2. Modules

| module | models |
|---|---|
| `ReportLedger` | what intake promises: every message is filed in one atomic step |
| `ReplayLedger` | what replays promise: a batch is filed in one atomic step, in order |
| `Intake` | `process_message` SELECT by SELECT and flush by flush, `handle_DATA` and `/api/ingest` around it, and the operations on domains and addresses beside it |
| `IntakeInv` | the inductive invariant of `Intake` |
| `IntakeProofs` | the theorems about `Intake` |
| `Accounts` | set-up, SSO callback, roles, provider, `set-password`, `disable-sso` |
| `WebProofs` | the theorems about `Accounts` and about `Enrich`, both written by web requests |
| `Reprocess` | `process_upload`, `reprocess`, releases of parsers, addresses; implements `ReplayLedger` |
| `ImapPoller` | `fetch_once`, command by command, and an external IMAP server |
| `DnsCheck` | the live check of DNS records: the cache, the look-ups, the forced re-check, the verdicts |
| `Registry` | tenants and their domains: `bootstrap`, creating and deleting, `/tlsrpt`, quarantined mail, restarts |
| `SpfWalk` | `expand_with_cost`, term by term, and what a record means without the walk |
| `Metrics` | `DnsSnapshot` and `DatabaseCollector.collect`; extends `SpfWalk`, whose steps are steps of its refresh |
| `Enrich` | `enrich_ips` and `backfill` in concurrent transactions |
| `Backup` | `backup.run` and `prune` against one bucket |
| `ReprocessProofs`, `ImapProofs`, `MetricsProofs`, `BackupProofs`, `DnsProofs`, `RegistryProofs` | the theorems about `Reprocess`, `ImapPoller`, `SpfWalk` and `Metrics`, `Backup`, `DnsCheck` and `Registry`, each with its inductive invariant |
| `MCIntake`, `MCAccounts`, `MCReprocess`, `MCImapPoller`, `MCDnsCheck`, `MCRegistry`, `MCMetrics`, `MCEnrich`, `MCBackup` | the small instances for TLC |

### Intake

| state | code |
|---|---|
| `domain`, `lastId`, `address` | rows of `domains` and `report_addresses`, and the id sequence |
| `minted` | local parts ever returned by `mint_local_part` (what DNS ever told a sender) |
| `raws`, `reports` | committed rows of `raw_messages` and of the two report tables |
| `delivered` | messages answered 250 or 201 |
| `pc`, `job`, `known`, `status`, `route`, `next` | the locals of one `process_message` |
| `pending`, `written` | objects added to the session, and those flushed but not committed |
| `deletion` | what the `delete_domain` in progress has read |

Each SELECT, each flush and the commit is an action, because another transaction
may commit between any two. `Flush` is the autoflush before the next SELECT and
the explicit one at the end; `FlushFails` is the IntegrityError that the `try`
around `_store_reports` catches although the session can no longer be used, so
that the commit raises; `DeadlockAbort` is PostgreSQL ending a cycle of waiters.
`WaitsFor` is PostgreSQL's wait on an uncommitted equal key, `ForeignKeyHolds`
and `DomainLocked` are foreign keys and the row locks they take, `WriteLockFree`
is SQLite's single writer, `IsNextId` its reuse of ids. `LoseReply` stands for a
crash after the commit and for the 60 s timeout of a forwarding edge; `Fail` for
a crash or an outage inside the transaction.

### Accounts

A request is a sequence of SELECTs (`stage` names the next one) that ends in a
write. `want` is the flag being set, `seen` the provider rows `set_provider` read.
`counted` is the set of administrators that `set_admin` counted; the code keeps only
their number, and a property reads it. `"create"` is an account from `/setup` or SSO, `"command"` one from
`set-password`, whose `--admin` is explicit.

### Reprocess

A document is its report's key and two releases: the first that classifies it
and the first whose parser reads it. `Receive` is `process_message` in one step,
which theorem `IntakeIsSerial` justifies. A replay is `Begin` (the SELECT of the
batch), one `Examine` per message and `Commit` or `Abort`, with everything else
in between. `Delete` is `delete_domain`, as far as it takes an address away; on
PostgreSQL it waits while a replay has written rows that name the domain. `Vanish`
is the same deletion where it meets a replay that has not written them yet: between
the look-up of the address and `known.domain.tenant_id` (`pipeline.py:247`, outside
the `try`), or before the next query flushes the rows. The replay then ends with an
exception and is rolled back. Each address has a domain of its own here, and the
deletion of a domain that a report names without being addressed to it is left out;
it can end a replay in the same way. `Ledger` is the abstract specification: there a replay chooses a batch
of the oldest unfinished messages and files them in one step, each report going to
the oldest message of the batch that has it. What the deployed release makes of a
message (`Readings`) is its third variable; addresses are left out of it, so the
choice between "routed" and "retired" is open there.

### ImapPoller

Every IMAP command is an action. `view` is the numbering the session knows,
`number` the sequence number the code holds. `refused` are the messages whose COPY
the server has refused, which the code does not look at. The server is external: as RFC 3501
has it, a session hears of other sessions' expunges while COPY runs and not
during FETCH, STORE or SEARCH.

### DnsCheck

| state | code |
|---|---|
| `now` | `time.monotonic()`, in ticks |
| `active`, `retired` | the domain's rows of `report_addresses`; addresses are numbers in the order in which they were minted |
| `cache` | `_dns_cache`; `asked`, when the look-up began, is kept beside its date `at` |
| `pc`, `left`, `expect`, `asking`, `young` | a thread: the names still to do, the content and `retired_markers` of its records, the look-up under way, the ages below a minute |
| `shown`, `since` | the record judged last and when a re-check had last gone through as the check began; nothing in the code, only the properties read them |

A check is a `Hit`, or `Ask` and `Store`, for each record; a re-check reads the age
of each entry (`Test`, `Index`) and then drops them one by one (`Drop`). Only a
look-up lets time pass. DNS may answer anything at any time: the owner edits the
zone, and `_resolve_txt` falls back to a public resolver, which may be behind, when
the zone's nameservers cannot be found. `required_dns_records` reads the addresses
in two statements, and is one step: an address never becomes active again, and the
session keeps the first value it read of a row. A TXT value is
its version tag, the addresses in it and the one that comes first (`first`), since
`_names_expected_address` looks for the oldest expected address as the first one
only. A page that also shows the age
of its answers only reads the cache once more and is not modelled beyond that.

### Registry

| state | code |
|---|---|
| `tenant`, `domain`, `lastId` | rows of `tenants` and `domains`, and the id sequences |
| `reports` | rows of the two report tables; `owner`, the tenant's slug at filing, is read by the property only |
| `service`, `looked`, `missing` | a starting process and the SELECTs of `bootstrap` it has made |
| `req` | what a request has read and decided; it is written at the flush and the commit |

A request reads in one step and commits in another, with everything else in
between; the unique indexes and foreign keys are looked at in the second.
`Rejected` is the error that they raise, or any other: the request is rolled
back. The API and the web UI differ in their guards (section 5), and the model
takes the weaker ones. `Intake` has the mail path in detail; here it is one
read and one commit, so that mail meets the deletion of the quarantine tenant.

### SpfWalk and Metrics

`walk` recurses; `stack` is its call stack, a name and the terms still to look
at per call, and `budget`, `seen`, `networks` are the variables it closes over.
`zone` is what the DNS holds. A look-up brings everything or, failing, less
(`lossy` remembers that). The second part of the module says what a record
means without the walk: `Reach` is the least set of names closed under include,
`Meant` the networks that a term stands for, `Authorised` those of all terms of
these names, `LookUps` their terms that need a look-up, each as a name and a place in
its record, and `Cost` how many there are. `GivenUp` names what the code leaves out of
`Meant`: the exchanges of an `mx` after the fifth, and everything behind a term with a
prefix length.

In `Metrics`, `pc`, `todo`, `records`, `lookups` are the locals of `refresh`,
`snap` the three fields of the snapshot, `lock` its lock, `copy` what a scrape
has copied. The three assignments and the three copies are steps of their own,
which is what the lock is there for. The checks of the records themselves are in
`DnsCheck`; here their outcome is any status.

### Enrich

`intel` is the committed table: per address the set of its parts that are known,
the host name and the registry data. `cached` are the rows a transaction read,
`todo` what it looks up, `found` what it was told, `left` the rows still to be
flushed and `held` those flushed, whose locks it holds until it commits. `Blocks`
is PostgreSQL's wait on such a row, `Conflict` the unique index, `Deadlock` the
end of a cycle of waiters. A report page goes on with the SPF expansion and the
template before it commits, so that locks are held for seconds. The parts of the
specification carry the module's name (`EnrichInit`, `EnrichTypeOK`), because
`WebProofs` extends the module together with `Accounts`.

### Backup

A run is a sequence of dump, upload, list and deletions, and `Fail` may end it
anywhere. `Lists` says whose copies a site's prefix lists. `uploaded` is the
history of completed uploads, which the property compares with `bucket`.

## 3. What is checked

| run | instance | properties | result |
|---|---|---|---|
| `IntakePostgres` | 2 workers, 2 messages with the same 2 reports in opposite orders (one with an unknown part, one ending in an unreadable document), one by recipient and one mistyped, 2 local parts, 2 domain ids, 2 tenants | `TypeOK`, `FiledMeansHeld`, `HeldOnce`, `RoutedBroughtReports`, `LinkedToLiveDomain`, `MintedNeverQuarantined`, `HistoryIsKept`, `ImplementsLedger` | holds, 641 441 states |
| `IntakeLive` | the same two orders, 1 domain, 1 failure, fairness | `NothingAckedIsLost`, `EveryMailIsAccepted` | holds, 71 015 states |
| `IntakeSqliteOrphan` | SQLite, 1 message, 2 local parts, 2 ids | `EveryMailIsAccepted` | violated |
| `AccountsShared` | 2 requests, 3 accounts, command line, 1 provider seeded | `TypeOK`, `ProvidersBounded`, `OnlyStaleCountsLoseAdmins`, `FirstAccountIsAdmin` | holds, 112 414 states |
| `AccountsLastAdmin` | 2 requests | `LastAdminStays` | violated |
| `ReprocessMail` | 2 messages, an uploaded file and an uploaded mail, 1 release to come, 1 address that is minted, retired and deleted, 1 replay at a time, batches of 2, fairness | `TypeOK`, `LabelsAreTrue`, `ReplayIsAtomic`, `Replayed` | holds, 18 359 states |
| `ImapOne` | 1 poller, a server that may refuse COPY, 3 messages (2 reports), 2 failures, fairness | `TypeOK`, `AckedIsStored`, `RemovedIsFiled`, `EveryMailIsStored` | holds, 8 629 states |
| `DnsShared` | 2 threads, the tenant's record, led by its address, and the verification record, 1 address retired and 1 to mint and retire, time to live 2, interval 1, look-ups up to 1 tick, clock to 3 | `TypeOK`, `ShownIsRecent`, `RecheckIsFresh`, `PublishedIsLive` | holds, 6 044 948 states |
| `RegistryTenants` | PostgreSQL, multi-tenant, 2 services, 2 requests and 1 mail at a time, 2 slugs, 1 name, 2 reports, 1 crash, fairness | `TypeOK`, `EverythingHasItsTenant`, `EveryServiceStarts` | holds, 974 315 states |
| `SpfMetrics` | 2 domains of 3 names; a zone with a loop that exceeds the budget of 5, one with a record included twice, and one with prefix lengths; 1 refresh, 1 scraper, 2 outages, fairness | `TypeOK`, `NothingInvented`, `WalkIsExact`, `SnapshotIsWhole`, `EveryRoundIsPublished` | holds, 465 652 states |
| `EnrichPages` | 2 threads, 3 addresses of which one never resolves, 2 reports in opposite orders, limits 2, 2 failures, fairness | `EnrichTypeOK`, `NothingForgotten`, `EveryOwnerIsNamed` | holds, 190 466 states |
| `BackupCopies` | 2 sites with separate prefixes, 2 runs at a time, retention 2 days, 4 days, 4 dumps | `TypeOK`, `WindowIsKept` | holds, 459 493 states |

Why the bounds are enough to see what matters:

* two workers and two keys in opposite orders are the smallest cycle of waiters;
  a message that finds one report held and one not, and one that finds both held
  by a transaction that is still open, occur with two messages;
* two domain ids and two tenants let a name come back under another id and
  another tenant; two local parts make a rotation;
* `MaxFailures = 1` puts one crash or lost answer at every point. Safety under
  any number of failures is proved;
* one release to come splits every document into "before" and "after"; batches of two
  among four messages leave some out, and two of the four may stay unreadable for
  good and fill every batch; one of the uploads brings a report that is held beside
  one that is not read yet;
* two failures of the poller put a second cut into the recovery from the first;
* a clock up to 3 lets an answer asked for at 0 be stored at 1 and expire at 3,
  and a re-check at 2 find an entry that is a tick old and would still be served;
* two slugs and two requests let a tenant be deleted and created again, under
  another id, between the read and the commit of a third; a crash lets `bootstrap`
  run against tables that are in use;
* the zones have a loop that exhausts the budget inside a nested call, a bare `a`
  in an included record, a record included twice and an `mx` with more exchanges
  than are resolved, terms with a prefix length; below the limit and above it. 5 stands for 10, 1 for the 5
  exchanges. From one refresh to the next nothing is carried but `snap`;
* two addresses and two orders are the smallest cycle of waiting pages; a limit
  of 2 with one dead address leaves one to resolve on a later view;
* four days and a retention of two let a copy expire while another run is between
  its listing and its deletions;
* two requests are the two halves of each race of accounts, roles and providers;
  three accounts are an administrator, another one, and a bystander.

Some runs leave a switch at the value under which the code is right, and the
difference is documented in section 5: `ReprocessMail` runs one replay at a time and
`ImapOne` one poller, `BackupCopies` takes separate prefixes, and `IntakePostgres`, `RegistryTenants` and
`BackupCopies` take PostgreSQL.

### Fairness

* `Intake`: a worker that can go on does (a thread runs until its session is
  closed). A waiting INSERT is woken when the transaction it waits for ends and
  is not overtaken for ever (strong fairness of `Flush` for each key). Senders
  retry what was answered 451 until it is accepted (strong fairness of `Receive`
  for each message). No fairness for the control plane, crashes or lost answers.
* `Reprocess`: a replay runs to its end, and replays start again and again, as
  `migrate` runs one on every deploy. None for releases, mail or addresses.
* `ImapPoller`: `run` polls for ever. No fairness for failures or new mail.
* `Registry`: a service that stops is started again (`restart: unless-stopped` in
  `deploy/vps/docker-compose.yml`) and a start goes on. No fairness for requests.
* `Metrics`: the daemon thread loops for ever, and is not overtaken for ever at the
  lock by scrapes (strong fairness of `Refresh`); a scrape that holds the lock goes
  on. No fairness for new scrapes, domains or outages.
* `Enrich`: a request goes on until its session is closed, and every report is
  looked at again and again (strong fairness of `View` for each report, since the
  threads may all be busy). None for `backfill`, an operator's command.

## 4. What is proved

The proofs hold for every number of workers, messages, documents, domains,
tenants, accounts, requests, threads, installations and failures, for any zone and
any look-up and retention times.

**Intake** (`IntakeProofs`). `TypeCorrect`, `NothingIsLost`, `FilingIsComplete`,
`NothingIsCountedTwice`, `RotationLosesNothing`, `RoutedIsEarned`,
`LinksAreSound` (with PostgreSQL's foreign keys), `HistoryStays`, and
`IntakeIsSerial`: `Intake` implements `ReportLedger`.

None of these properties is inductive. A message is filed correctly because of
what its transaction knew all along, so `IntakeInv` says of every open
transaction: each document behind `next` that could be read is held by a
committed row, by a row this transaction flushed, or is its pending row; the rows
it wrote and the pending one carry its own message and keys of its documents; the
status follows from the documents and look-ups so far; a domain it holds a
reference to was live under the tenant it copied, for as long as a flushed row
keeps the foreign-key lock. Committed rows have distinct keys because a flush
requires the key to be absent from committed rows and from other transactions'
rows, which stays so until the commit. For the rotation theorem the invariant
adds that `address` never goes from retired back to active, so a message that saw
no active row and then no retired row had no row at all.

The refinement maps `filed` to `raws`, `held` to the keys of `reports` and
`acked` to `delivered`. `Commit` is the atomic filing step, `Reply` the
acknowledgement, and everything else stutters.

**Accounts** (`WebProofs`). `AccountsTypeCorrect` and `FirstAccountRules`
hold for any number of concurrent requests: the invariant `FirstOK` says that a
request about to create an account while there is none has decided to make it an
administrator, which no other request can undo, because accounts are never
deleted. "The last administrator cannot be demoted" is false when requests overlap
(`AccountsLastAdmin`); `AdminsLostToStaleCounts` says what is true for any number of
them: the step that leaves no administrator is a demotion whose count contained
somebody who was demoted since (`CountOK`: a count that let a request go on had two
administrators in it). `LeftoverProvidersBounded` is what remains of "single-provider
model": a save deletes the rows it has read and adds one, and a row that it has not read
was added by a request that was at work with it, so there are never more rows than
requests (`OwnersOK` gives each row a request of its own).

**SPF and metrics** (`MetricsProofs`). `ScrapesAreWhole` rests on what the lock
does: it is held from the first of three assignments, or copies, to the last
(`LockOK`), so that what a scrape has copied so far is what the snapshot still
holds (`CopyOK`). `NothingIsInvented` follows the call stack: every call of `walk`
is for a name that includes reach from the domain, and what it has still to look at
are terms of that name's record (`StackOK`); a term's networks are then among the
authorised ones, whatever part of an answer was lost. Neither the stack's depth nor
the zone is bounded. `TypesHold` adds the types. `ExpansionIsExact` is about a walk
that lost no answer. Its invariant `WorkOK` says that the calls on the stack are for
different names, each with the end of its record still to do (`FramesOK`); that the
look-ups of the names seen which no call has still to do (`Looked`) are as many as
the budget has lost; and that what the other terms ask for was done (`TermDone`).
When the stack is empty, nothing is still to do, so the names seen are closed under
include and are `Reach`. It holds while the budget lasts. A walk whose budget is used
up has made `MaxTerms` different look-ups, so the cost is at least that, and the
calls return without adding anything (`EInv`). What a term stands for (`Meant`) is
defined without what the walk looks up (`Found`); `FoundIsMeant` is the lemma that
relates them: a term's look-ups bring all it stands for except what is `GivenUp`.

**Reprocess** (`ReprocessProofs`). A label tells the truth with respect to a set of
reports and a release (`Earned`), and goes on doing so when reports are added, since
none is ever deleted, and under later releases. It says of a duplicate that everything
understood of it is held, not by whom: an earlier attempt of the message itself may have
brought a part. `BatchOK` says of an open replay that the labels it read gave it those
messages, and that the labels it will write are earned by the reports of the database
together with its own; at the commit these become one set. From this follow
`ReprocessTypeCorrect` and `LabelsTellTheTruth`, for any number of
replays at a time.

`ReplayIsAsIfAtomic` is the refinement of `ReplayLedger`, when one replay runs at a
time (`Single`): what it read of a message is then still there when it commits
(`Current`). With two it is false (section 5). A deletion that ends a replay is a step
that changes nothing. The replay
reads which keys are held message by message, while mail goes on to bring reports, so
what it writes is not what it would write in one step at its beginning; it is
what it would write at its commit. The invariant `SInv` says why: the batch goes
through the oldest unfinished messages in order, none between them left out
(`OrderOK`), also while new ones arrive, because ids grow; the reports of the
messages passed are held, or are the replay's own, each with the oldest message that
has it (`PassedOK`, `OneRowEach`). A report that mail brings after the replay has
written it makes the commit fail (`Conflict`), so what is committed was held by nobody
else, and each label is the one that the atomic replay gives.

`MailIsFiledAsInIntake` is the bridge between the two modules that receive mail: the
one-step `Receive` of `Reprocess` is a `File` step of `ReportLedger`, under whatever
release is deployed, and `IntakeIsSerial` has the transactions of `Intake` implement
that step.

**IMAP poller** (`ImapProofs`). A session names messages by number. The invariant
ties the two together: what a session has in hand is the message that its view has
under the number in hand, its view names only messages of the mailbox, and what it
has gone on from is stored, marked read (`SessionOK`); so a STORE marks that message
and no other, and what has a flag or is gone was stored (`FlagsOK`). The lemmas about
`Only` say what an expunge leaves: the other messages, each under one number.
`AcknowledgedIsStored` and `ImapTypeCorrect` hold for any number of pollers
that leave processed mail in place, and for one that moves it (`Alone`): another
poller's expunge renumbers the view between a FETCH and its STORE (section 5).
`MovedIsFiled` says of the one that moves it that a message is gone only when it is in
the processed folder or its COPY was refused: only such a message is ever marked for
deletion (`FiledOK`), whether the server refuses or not.

**Backup** (`BackupProofs`). Keys are used once (`KeysOK`). A run that lists or
deletes has uploaded its own copy, at most the retention before it lists, and what
it goes on to delete was out of date at its listing, hence older than that copy
(`PruneOK`); this gives `BackupTypeCorrect` for any prefixes. `WindowIsAlwaysKept`
assumes `Separate`: `pg_dump`, and prefixes that list their own installation's
copies only. Then what a run deletes is of its own site (`SiteInv`), whose newest
copy is never among it.

**DNS check** (`DnsProofs`). A cache entry was asked for at most `MaxLookup` before
it was stored, and not earlier than `MaxLookup` before the last completed re-check.
Threads store while a re-check drops entries, so `CacheOK` says of a running one
that the names it has passed hold nothing older than a look-up under way. From
this follow `AnswersAreRecent` and `RechecksAreFresh`. `RetiredIsNotPublished` uses
that the addresses which a check expects were not retired when it began
(`ExpectOK`), since the two sets are read together.

**Registry** (`RegistryProofs`). `TenantsKeepTheirs` is for PostgreSQL. Ids grow
and are not used again (`IdsOK`), so the tenant and the domain that a request has
read may be gone when it commits but never be another's (`FilingOK`), and a
foreign key refuses what is gone. `RegistryTypeCorrect` is for either backend. Slugs,
names and keys are unique because each insert is refused that finds its value
(`UniqueOK`), and a start inserts several tenants at once because those it found
missing differ (`MissingOK`). That ids stay within their bound needs a count: a
service inserts tenants once for each time it comes up, which is once at first and
once for each crash (`Turns`, `HighOK`); a start that the unique index fails inserts
nothing, however often it is repeated.

**Enrichment** (`WebProofs`). `NamesAreKept` follows from the only step that changes the table, the commit, which
merges column by column. `EnrichTypeCorrect` says that a page looks up no more
addresses than its limit, that two transactions never hold the same row, and that
no address gets a second row. Its invariant `EInv` adds that only a transaction that
writes holds rows, and that what it was told is known of the address (`LocalsOK`). A row is held
until the commit, so that when it is merged nobody else has inserted or changed it
since it was written (`CommitKeeps`).

**Assumptions.** The constants are what their modules' `ASSUME`s say (the time to
live of a DNS answer is positive; the marker of a free lock is no scraper; a zone has
finitely many names, and there are finitely many addresses; the two built-in tenants have different slugs). Beyond that
the models assume: `mint_local_part` never returns a local part twice (random and
unique); the quarantine tenant exists (`bootstrap` creates it at start); the
identity of a report is its unique constraint; the IMAP server follows RFC 3501.

**Only model-checked.** Liveness (`EveryMailIsAccepted`, `Replayed`,
`EveryMailIsStored`, `EveryServiceStarts`, `EveryRoundIsPublished`,
`EveryOwnerIsNamed`), which is beyond the prover because it needs ENABLED under
fairness. Every invariant and every action property that a passing run checks is
proved as well, under the assumptions named above: one replay at a time for
`ReplayIsAtomic`, one poller where it moves mail, PostgreSQL, separate prefixes.

## 5. Where the code and its documents part

Two disagreements are demonstrated by a run:

1. `IntakeSqliteOrphan`: on SQLite an address minted while its domain is being
   deleted outlives it, and mail to it is refused with 451 for ever.
2. `AccountsLastAdmin`: two concurrent demotions leave no administrator.

Others were met while modelling. Each can be reproduced by changing the instance
named; they have no run of their own. The first ones contradict a document.

* `README.md:67-68` has `reprocess` replay "anything that produced no report after a
  parser fix". It does not replay four kinds of message, which `Replayed` excepts
  (`Waiting`, `Replayable`; without any of the conditions it fails in `ReprocessMail`):
  mail to a retired address that no parser understood yet, which is labelled
  "retired" (`pipeline.py:63`) and never selected; an upload of which one document is
  held already, or stored, and another is not read yet, which is stored as "routed"
  (`pipeline.py:313,328`) and never selected; an uploaded `.eml`, which is replayed as a
  bare document (`pipeline.py:253`); and whatever is not among the first 1000
  unfinished messages, where those that never become reports, and duplicates, keep
  their places (`pipeline.py:230-235`).
* A domain that is deleted between two statements of a replay which needs it ends the
  replay with an exception (`Vanish`), and nothing of its batch is kept, although
  `pipeline.py:270` means to "keep going through the batch".
* SPF: `spf.py:5` has "every `include:`, `a`, `mx` and `ip4`/`ip6` term" resolve to
  networks, and `docs/FEATURES.md:31` says the same. An `mx` is resolved to its first
  five exchanges (`spf.py:110`); `a:host/24` is looked up as the name "host/24" and finds
  nothing, and a bare `a/24` is not recognised (`spf.py:97,102`). Their senders are shown
  as unknown (`WalkIsExact` without `GivenUp`).
* DNS: `service.py:308` strips "mailto:" from the front of each word of the expected
  record, but the first address is in the word "rua=mailto:address" and keeps its tag.
  It is found only in a record that begins its list with it. A record
  "rua=mailto:old,mailto:new" that names the new address beside a retired one is shown as
  retired, although `service.py:131` says a record "may legitimately carry extra rua
  entries". The false alarm does not touch `PublishedIsLive`.
* A refused COPY is not noticed (`imap.py:177`) and the message is deleted from the
  mailbox; its content is in the database, so nothing is lost but its place in the
  processed folder (`refused` in `ImapPoller`).
* "Single-provider model: replace whatever is configured" (`auth/service.py:91`): two
  concurrent saves of the SSO settings leave two rows (`ProvidersBounded` with 1 in
  place of the number of requests), and `get_provider` reads one without an order.
* Two pollers that file mail, as `imap --once` beside the service: the expunge of
  one renumbers the mailbox of the other during its COPY, and its STORE hits a
  message that was never fetched, although `imap.py:141-142` says a crash means "the
  message is retried rather than lost" (`AckedIsStored`, `Pollers = {p1, p2}`).
* A look-up that is under way while a re-check is forced stores its answer after the
  entry was dropped. The next page is served it as fresh, up to 15 minutes long,
  although `service.py:238` says "the next render re-resolves" (`RecheckIsFresh`
  without `MaxLookup`).
* RFC 7208 allows ten look-ups, and `spf.py:15` says the walk is bounded the same
  way. The tenth include is counted and its record is not read, and neither is
  any term after the tenth look-up, `ip4` and `ip6` included, so their senders are
  missing (`WalkIsExact` with `<=` in place of the second `<`, and `MaxTerms = 6`,
  the cost of the zone with the loop).

* On SQLite a report committed during `delete_domain` keeps its link to the
  deleted domain, and as ids are reused, the next domain takes it over
  (`LinkedToLiveDomain` with `Backend = "sqlite"`).
* `set-password` without `--admin` on an empty installation creates an ordinary
  first user, after which `/setup` is closed.
* An upload whose parser refuses it is labelled "duplicate" by a replay. Hence
  `LabelsAreTrue` speaks of mail only where it is about duplicates.
* Recovered mail to a recipient that was never minted, or whose domain is gone, is
  labelled "retired" (`pipeline.py:276`). No property says otherwise.
* Two replays at once: one relabels as duplicates what the other recovered
  (`ReplayIsAtomic`, two runners).

* `force_dns_recheck` says it is refused "when the last check is younger" than a
  minute. It compares the oldest look-up, and one name without an entry lets it
  through (`TooSoon`).
* SPF: a record that is included twice costs its look-ups once here and twice by
  RFC 7208; `exists:`, `ptr` and terms with the qualifiers `?`, `~` and `-` cost nothing
  here. A walk that lost answers is cached for an hour by `cached_expand`.
* Addresses that never resolve come first in `todo`. As many of them as the limit
  keep a page from every other address (`EveryOwnerIsNamed` with `Limit = 1`);
  `backfill` may be starved alike, since its SELECT has a limit and no order.
* A page that loses the race for a new address answers 500, and the results of all
  its look-ups are rolled back (`Conflict`, `Deadlock`).
* A host name that could not be resolved is never asked for again once the registry
  has answered (`Incomplete` looks at the registry data only).
* The web UI refuses to delete the quarantine tenant and to give it domains; the API
  does not. Without the tenant, unknown mail is filed under none until a service
  starts again. The API refuses to create tenants in single-tenant mode; the UI
  does not.
* A domain name with a dot at its end passes the API's test for an existing domain
  and then fails at the unique index (`app.py:183`, `service.py:49`).
* On SQLite `delete_tenant` leaves the reports of a tenant without one, and the next
  tenant with its id takes them over (`EverythingHasItsTenant`,
  `Backend = "sqlite"`).
* `prune` deletes every old object under its prefix, whoever put it there. With an
  empty prefix, or one that begins another installation's, that is the other one's
  last copies (`WindowIsKept`, `Lists <- Covering`).
* On SQLite the database file is copied while the service may write to it
  (`WindowIsKept`, `Backend = "sqlite"`).
* A name whose entry another thread drops between `n in _dns_cache` and the index
  raises KeyError, where `dns_checked_age` promises None (`IndexError` fires).
* A record is published when one answer has the version tag and one, possibly
  another, names an expected address (`Status`).

## 6. What is not modelled

* XML, JSON and MIME grammars: a document is readable, unreadable or no report.
* Passwords, sign-in, API tokens, sessions and encryption: library calls and
  single-row writes, none of which a modelled decision reads.
* Mailbox settings (`/settings/mailboxes`) and the two columns that report the last
  poll.
* Pages, queries and gauges that only read and draw; the choice of the contact that
  names an owner in a registry's answer.
* The cache of `cached_expand`, and the comparison of an address with networks.
* Migrations, configuration loading, TLS of the listeners, the metrics listener and
  its token.

## 7. Plan

Done: the modules of section 2 and their runs; proofs of every safety property that
a run checks, and of the two refinements.

What could follow:

1. Wider switches for `Registry`: `EverythingHasItsTenant` on SQLite as far as it
   holds without foreign keys.
2. The cache of `cached_expand`, with walks that lost answers.
3. Mail in `Registry` as a step of `ReportLedger`, as `MailIsFiledAsInIntake` does for
   `Reprocess`; it needs the tenant of a report in the ledger.
