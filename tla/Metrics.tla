------------------------------ MODULE Metrics ------------------------------
(***************************************************************************)
(* The DNS part of the metrics endpoint (metrics.py): the thread that      *)
(* refreshes DnsSnapshot on a timer, one SPF expansion (SpfWalk) per       *)
(* domain, and the scrapes that read the snapshot while it does.           *)
(*                                                                         *)
(* The database and the resolver may be away: a refresh is then given up   *)
(* and tried again, a scrape reports that it could not read.  updated, a   *)
(* time in the code, is the number of the refresh.                         *)
(***************************************************************************)
EXTENDS SpfWalk

CONSTANTS
    Domains,      \* names that may be registered
    Statuses,     \* outcomes of checking a domain's records
    Scrapers,
    Nothing,
    MaxRounds,    \* bound on the refreshes that are published
    MaxFailures   \* bound on outages

ASSUME MetricsAssumption ==
    /\ Domains \subseteq Names
    /\ MaxRounds \in Nat /\ MaxFailures \in Nat
    /\ Nothing \notin Scrapers \cup {"refresh"} /\ "refresh" \notin Scrapers

VARIABLES
    registered,           \* the domains in the database
    pc, todo,             \* the refresh, and the domains it has still to do
    records, lookups,     \* its results so far
    snap,                 \* the shared fields records, spf and updated
    lock,                 \* who holds the snapshot's lock
    scrape, copy,         \* per scrape: where it is, the fields it has copied
    failures

refreshing == <<pc, todo, records, lookups>>
scraping   == <<scrape, copy>>
vars == <<spfVars, registered, refreshing, snap, lock, scraping, failures>>

Empty == [records |-> << >>, spf |-> << >>, updated |-> 0]

Init ==
    /\ SpfInit
    /\ registered \in SUBSET Domains
    /\ pc = "sleep" /\ todo = {}
    /\ records = << >> /\ lookups = << >>
    /\ snap = Empty
    /\ lock = Nothing
    /\ scrape = [s \in Scrapers |-> "idle"]
    /\ copy = [s \in Scrapers |-> Empty]
    /\ failures = 0

\* A function with one more (or another) value.
With(f, d, v) == [x \in DOMAIN f \cup {d} |-> IF x = d THEN v ELSE f[x]]

Fails ==
    /\ failures < MaxFailures
    /\ failures' = failures + 1

\* Domains come and go in the control plane.
Register(d) ==
    /\ registered' \in {registered \cup {d}, registered \ {d}}
    /\ registered' # registered
    /\ UNCHANGED <<spfVars, refreshing, snap, lock, scraping, failures>>

\* The end of a refresh, and of its variables.
EndRefresh ==
    /\ pc' = "sleep"
    /\ todo' = {} /\ records' = << >> /\ lookups' = << >>

\* DnsSnapshot.refresh: the domains are read once.
StartRefresh ==
    /\ pc = "sleep"
    /\ snap.updated < MaxRounds
    /\ todo' = registered
    /\ pc' = "check"
    /\ UNCHANGED <<spfVars, registered, records, lookups, snap, lock, scraping, failures>>

\* The records of the next domain are checked and its SPF expansion begins.
CheckDomain(d) ==
    /\ pc = "check" /\ d \in todo
    /\ \E st \in Statuses : records' = With(records, d, st)
    /\ Begin(d)
    /\ todo' = todo \ {d}
    /\ pc' = "walk"
    /\ UNCHANGED <<registered, lookups, snap, lock, scraping, failures>>

WalkStep ==
    /\ pc = "walk"
    /\ Walk
    /\ UNCHANGED <<registered, refreshing, snap, lock, scraping, failures>>

WalkEnds ==
    /\ pc = "walk" /\ Done
    /\ lookups' = With(lookups, domain, Used)
    /\ Leave
    /\ pc' = "check"
    /\ UNCHANGED <<registered, todo, records, snap, lock, scraping, failures>>

\* An expansion that raises leaves its domain out, and the rest goes on.
WalkRaises ==
    /\ pc = "walk" /\ Forget
    /\ Fails
    /\ pc' = "check"
    /\ UNCHANGED <<registered, todo, records, lookups, snap, lock, scraping>>

\* Mutant: the lock is not taken.
PublishRecordsUnlocked ==
    /\ pc = "check" /\ todo = {}
    /\ snap' = [snap EXCEPT !.records = records]
    /\ pc' = "publish spf"
    /\ UNCHANGED <<spfVars, registered, todo, records, lookups, lock, scraping,
                   failures>>

\* The three assignments are made under the lock.
PublishRecords ==
    /\ pc = "check" /\ todo = {}
    /\ lock = Nothing
    /\ lock' = "refresh"
    /\ snap' = [snap EXCEPT !.records = records]
    /\ pc' = "publish spf"
    /\ UNCHANGED <<spfVars, registered, todo, records, lookups, scraping,
                   failures>>

PublishSpf ==
    /\ pc = "publish spf"
    /\ snap' = [snap EXCEPT !.spf = lookups]
    /\ pc' = "publish time"
    /\ UNCHANGED <<spfVars, registered, todo, records, lookups, lock, scraping,
                   failures>>

PublishTime ==
    /\ pc = "publish time"
    /\ snap' = [snap EXCEPT !.updated = @ + 1]
    /\ lock' = Nothing
    /\ EndRefresh
    /\ UNCHANGED <<spfVars, registered, scraping, failures>>

\* Mutant: the exception ends the thread.
RefreshDies ==
    /\ pc = "check"
    /\ Fails
    /\ pc' = "dead"
    /\ UNCHANGED <<spfVars, registered, todo, records, lookups, snap, lock, scraping>>

\* run: a refresh that raises is logged, and the loop sleeps and tries again.
RefreshRaises ==
    /\ pc = "check"
    /\ Fails
    /\ EndRefresh
    /\ UNCHANGED <<spfVars, registered, snap, lock, scraping>>

Refresh ==
    \/ StartRefresh \/ \E d \in Domains : CheckDomain(d)
    \/ WalkStep \/ WalkEnds
    \/ PublishRecords \/ PublishSpf \/ PublishTime

Unscraped == <<spfVars, registered, refreshing, snap>>

\* collect: the database is read first; if that fails nothing else is shown.
ScrapeDatabase(s) ==
    /\ scrape[s] = "idle"
    /\ copy' = [copy EXCEPT ![s] = Empty]
    /\ \/ scrape' = [scrape EXCEPT ![s] = "lock"] /\ UNCHANGED failures
       \/ scrape' = [scrape EXCEPT ![s] = "down"] /\ Fails
    /\ UNCHANGED <<Unscraped, lock>>

\* DnsSnapshot.read: the three fields are copied under the lock.
ReadRecords(s) ==
    /\ scrape[s] = "lock"
    /\ lock = Nothing
    /\ lock' = s
    /\ copy' = [copy EXCEPT ![s].records = snap.records]
    /\ scrape' = [scrape EXCEPT ![s] = "spf"]
    /\ UNCHANGED <<Unscraped, failures>>

ReadSpf(s) ==
    /\ scrape[s] = "spf"
    /\ copy' = [copy EXCEPT ![s].spf = snap.spf]
    /\ scrape' = [scrape EXCEPT ![s] = "time"]
    /\ UNCHANGED <<Unscraped, lock, failures>>

ReadTime(s) ==
    /\ scrape[s] = "time"
    /\ copy' = [copy EXCEPT ![s].updated = snap.updated]
    /\ lock' = Nothing
    /\ scrape' = [scrape EXCEPT ![s] = "shown"]
    /\ UNCHANGED <<Unscraped, failures>>

\* The answer is sent; nothing is shown of a snapshot that was never taken.
Answer(s) ==
    /\ scrape[s] \in {"shown", "down"}
    /\ scrape' = [scrape EXCEPT ![s] = "idle"]
    /\ copy' = [copy EXCEPT ![s] = Empty]
    /\ UNCHANGED <<Unscraped, lock, failures>>

Scrape(s) ==
    ScrapeDatabase(s) \/ ReadRecords(s) \/ ReadSpf(s) \/ ReadTime(s) \/ Answer(s)

Next ==
    \/ \E d \in Domains : Register(d)
    \/ Refresh \/ WalkRaises \/ RefreshRaises
    \/ \E s \in Scrapers : Scrape(s)

Spec == Init /\ [][Next]_vars

\* The thread runs for ever, and a scrape that holds the lock goes on.
FairSpec ==
    Spec /\ SF_vars(Refresh)
         /\ \A s \in Scrapers : WF_vars(ReadSpf(s) \/ ReadTime(s))

-----------------------------------------------------------------------------
(* Properties.                                                             *)

Costs == 0 .. MaxTerms

IsSnapshot(f) ==
    /\ DOMAIN f.records \subseteq Domains /\ DOMAIN f.spf \subseteq Domains
    /\ \A d \in DOMAIN f.records : f.records[d] \in Statuses
    /\ \A d \in DOMAIN f.spf : f.spf[d] \in Costs
    /\ f.updated \in 0 .. MaxRounds

TypeOK ==
    /\ SpfTypeOK
    /\ registered \subseteq Domains /\ todo \subseteq Domains
    /\ pc \in {"sleep", "check", "walk", "publish spf", "publish time"}
    /\ IsSnapshot([records |-> records, spf |-> lookups, updated |-> 0])
    /\ IsSnapshot(snap) /\ \A s \in Scrapers : IsSnapshot(copy[s])
    /\ lock \in {Nothing, "refresh"} \cup Scrapers
    /\ scrape \in [Scrapers -> {"idle", "lock", "spf", "time", "shown", "down"}]
    /\ failures \in 0 .. MaxFailures

\* "A scrape reads the last result": the statuses, the SPF costs and the time
\* that a scrape shows together are those of the last refresh that was
\* completed, never of two refreshes.
SnapshotIsWhole ==
    [][\A s \in Scrapers : scrape'[s] = "shown" /\ scrape[s] # "shown" =>
           /\ copy'[s] = snap
           /\ pc \notin {"publish spf", "publish time"}]_vars

\* "A resolver outage must not end the loop": every refresh is published in the
\* end, whatever was away before it and however often it is scraped.
EveryRoundIsPublished == <>[](snap.updated = MaxRounds)
=============================================================================
