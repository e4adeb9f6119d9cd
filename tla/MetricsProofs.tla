--------------------------- MODULE MetricsProofs ---------------------------
(***************************************************************************)
(* The metrics and the SPF expansion, for any number of domains, refreshes,*)
(* scrapes and failures, and for whatever is published in the DNS.         *)
(***************************************************************************)
EXTENDS Metrics, FiniteSetTheorems, SequenceTheorems, TLAPS

Reading == {"spf", "time"}

\* The lock is held from the first copy or assignment to the last.
LockOK ==
    /\ lock = "refresh" <=> pc \in {"publish spf", "publish time"}
    /\ \A s \in Scrapers : lock = s <=> scrape[s] \in Reading
    /\ scrape \in [Scrapers -> Reading \cup {"idle", "lock", "shown", "down"}]

IsRecord(f) == f = [records |-> f.records, spf |-> f.spf, updated |-> f.updated]

\* What a scrape has copied so far is what the snapshot holds.
CopyOK ==
    /\ IsRecord(snap)
    /\ DOMAIN copy = Scrapers /\ copy = [s \in Scrapers |-> copy[s]]
    /\ \A s \in Scrapers :
          /\ IsRecord(copy[s])
          /\ scrape[s] \in Reading => copy[s].records = snap.records
          /\ scrape[s] = "time" => copy[s].spf = snap.spf

SInv == LockOK /\ CopyOK

LEMMA InitSInv == Init => SInv
  BY MetricsAssumption, Zenon DEF Init, SInv, LockOK, CopyOK, IsRecord, Empty, Reading

\* A field of a snapshot is replaced.
LEMMA OneField ==
    ASSUME NEW f, IsRecord(f), NEW v
    PROVE  /\ [f EXCEPT !.records = v] = [records |-> v, spf |-> f.spf, updated |-> f.updated]
           /\ [f EXCEPT !.spf = v] = [records |-> f.records, spf |-> v, updated |-> f.updated]
           /\ [f EXCEPT !.updated = v] = [records |-> f.records, spf |-> f.spf, updated |-> v]
  BY DEF IsRecord

\* While no scrape is copying, the snapshot may change.
LEMMA SnapChanges ==
    ASSUME SInv, \A s \in Scrapers : scrape[s] \notin Reading,
           IsRecord(snap'), UNCHANGED scraping
    PROVE  CopyOK'
  <1>1. scrape' = scrape /\ copy' = copy
    BY DEF scraping
  <1>2. /\ DOMAIN copy = Scrapers /\ copy = [s \in Scrapers |-> copy[s]]
        /\ \A s \in Scrapers : IsRecord(copy[s])
    BY DEF SInv, CopyOK
  <1>3. /\ DOMAIN copy' = Scrapers /\ copy' = [s \in Scrapers |-> copy'[s]]
        /\ \A s \in Scrapers : IsRecord(copy'[s])
    BY <1>1, <1>2
  <1>4. \A s \in Scrapers : scrape'[s] \notin Reading /\ scrape'[s] # "time"
    BY <1>1 DEF Reading
  <1>5. QED BY <1>3, <1>4 DEF CopyOK

\* The lock is free, or the refresh's, when it publishes.
LEMMA PublishingLocks ==
    ASSUME SInv, PublishRecords \/ PublishSpf \/ PublishTime
    PROVE  /\ \A s \in Scrapers : scrape[s] \notin Reading
           /\ LockOK'
  <1>1. /\ lock = "refresh" <=> pc \in {"publish spf", "publish time"}
        /\ \A s \in Scrapers : lock = s <=> scrape[s] \in Reading
        /\ scrape \in [Scrapers -> Reading \cup {"idle", "lock", "shown", "down"}]
    BY DEF SInv, LockOK
  <1>2. /\ lock \in {Nothing, "refresh"} /\ lock' \in {Nothing, "refresh"}
        /\ lock' = "refresh" <=> pc' \in {"publish spf", "publish time"}
        /\ scrape' = scrape
    <2>1. CASE PublishRecords
      BY <2>1, MetricsAssumption DEF PublishRecords, scraping
    <2>2. CASE PublishSpf
      BY <2>2, <1>1, MetricsAssumption DEF PublishSpf, scraping
    <2>3. CASE PublishTime
      BY <2>3, <1>1, MetricsAssumption DEF PublishTime, EndRefresh, scraping
    <2>4. QED BY <2>1, <2>2, <2>3
  <1>3. \A s \in Scrapers : lock # s /\ lock' # s
    BY <1>2, MetricsAssumption
  <1>4. \A s \in Scrapers : scrape[s] \notin Reading
    BY <1>1, <1>3
  <1>5. LockOK'
    BY <1>1, <1>2, <1>3, <1>4 DEF LockOK
  <1>6. QED BY <1>4, <1>5

LEMMA RefreshSInv ==
    ASSUME SInv, Refresh \/ WalkRaises \/ RefreshRaises
    PROVE  SInv'
  <1> USE MetricsAssumption DEF SInv, LockOK, CopyOK, IsRecord, Reading
  <1>1. CASE StartRefresh
    BY <1>1 DEF StartRefresh, scraping
  <1>2. CASE \E d \in Domains : CheckDomain(d)
    BY <1>2 DEF CheckDomain, scraping
  <1>3. CASE WalkStep
    BY <1>3 DEF WalkStep, scraping, refreshing
  <1>4. CASE WalkEnds
    BY <1>4 DEF WalkEnds, scraping
  <1>5. CASE PublishRecords \/ PublishSpf \/ PublishTime
    <2>1. LockOK' /\ \A s \in Scrapers : scrape[s] \notin Reading
      BY <1>5, PublishingLocks
    <2>2. IsRecord(snap')
      <3>1. IsRecord(snap)
        OBVIOUS
      <3>2. CASE PublishRecords
        BY <3>1, <3>2, OneField DEF PublishRecords
      <3>3. CASE PublishSpf
        BY <3>1, <3>3, OneField DEF PublishSpf
      <3>4. CASE PublishTime
        BY <3>1, <3>4, OneField DEF PublishTime
      <3>5. QED BY <1>5, <3>2, <3>3, <3>4
    <2>3. UNCHANGED scraping
      BY <1>5 DEF PublishRecords, PublishSpf, PublishTime
    <2>4. CopyOK'
      BY <2>1, <2>2, <2>3, SnapChanges
    <2>5. QED BY <2>1, <2>4
  <1>6. CASE WalkRaises
    BY <1>6 DEF WalkRaises, scraping
  <1>7. CASE RefreshRaises
    BY <1>7 DEF RefreshRaises, EndRefresh, scraping
  <1>8. QED BY <1>1, <1>2, <1>3, <1>4, <1>5, <1>6, <1>7 DEF Refresh

\* A scrape s goes on to the state x with the copy y.
LEMMA OneScrape ==
    ASSUME SInv, NEW s \in Scrapers, NEW x, NEW y,
           UNCHANGED <<pc, snap>>,
           scrape' = [scrape EXCEPT ![s] = x], copy' = [copy EXCEPT ![s] = y],
           x \in Reading \cup {"idle", "lock", "shown", "down"},
           IsRecord(y),
           x \in Reading => y.records = snap.records,
           x = "time" => y.spf = snap.spf,
           lock' = s <=> x \in Reading,
           lock' # lock => lock \in {s, Nothing} /\ lock' \in {s, Nothing}
    PROVE  SInv'
  <1>1. LockOK'
    <2>1. /\ lock = "refresh" <=> pc \in {"publish spf", "publish time"}
          /\ \A r \in Scrapers : lock = r <=> scrape[r] \in Reading
          /\ scrape \in [Scrapers -> Reading \cup {"idle", "lock", "shown", "down"}]
      BY DEF SInv, LockOK
    <2>2. lock' = "refresh" <=> pc' \in {"publish spf", "publish time"}
      <3>1. s # "refresh" /\ Nothing # "refresh"
        BY MetricsAssumption
      <3>2. lock' = "refresh" <=> lock = "refresh"
        BY <3>1
      <3>3. pc' = pc
        OBVIOUS
      <3>4. QED BY <2>1, <3>2, <3>3
    <2>3. ASSUME NEW r \in Scrapers PROVE lock' = r <=> scrape'[r] \in Reading
      <3>1. CASE r = s
        BY <2>1, <3>1
      <3>2. CASE r # s
        <4>1. scrape'[r] = scrape[r]
          BY <2>1, <3>2
        <4>2. lock' = r <=> lock = r
          BY <3>2, MetricsAssumption
        <4>3. QED BY <2>1, <4>1, <4>2
      <3>3. QED BY <3>1, <3>2
    <2>4. scrape' \in [Scrapers -> Reading \cup {"idle", "lock", "shown", "down"}]
      BY <2>1
    <2>5. QED BY <2>2, <2>3, <2>4 DEF LockOK
  <1>2. CopyOK'
    <2>1. IsRecord(snap') /\ DOMAIN copy' = Scrapers /\ copy' = [r \in Scrapers |-> copy'[r]]
      BY DEF SInv, CopyOK
    <2>2. ASSUME NEW r \in Scrapers
          PROVE  /\ IsRecord(copy'[r])
                 /\ scrape'[r] \in Reading => copy'[r].records = snap.records
                 /\ scrape'[r] = "time" => copy'[r].spf = snap.spf
      <3>1. CASE r = s
        <4>1. scrape'[r] = x /\ copy'[r] = y
          BY <3>1 DEF SInv, LockOK, CopyOK
        <4>2. QED BY <4>1
      <3>2. CASE r # s
        <4>1. scrape'[r] = scrape[r] /\ copy'[r] = copy[r]
          BY <3>2 DEF SInv, LockOK, CopyOK
        <4>2. QED BY <4>1 DEF SInv, CopyOK
      <3>3. QED BY <3>1, <3>2
    <2>3. QED BY <2>1, <2>2 DEF CopyOK
  <1>3. QED BY <1>1, <1>2 DEF SInv

LEMMA ScrapeSInv ==
    ASSUME SInv, NEW s \in Scrapers, Scrape(s)
    PROVE  SInv'
  <1>1. /\ UNCHANGED <<pc, snap>>
        /\ IsRecord(copy[s]) /\ IsRecord(Empty)
        /\ lock = s <=> scrape[s] \in Reading
        /\ scrape[s] \in Reading => copy[s].records = snap.records
        /\ scrape[s] = "time" => copy[s].spf = snap.spf
        /\ Nothing # s
    BY MetricsAssumption DEF SInv, LockOK, CopyOK, IsRecord, Empty, Scrape, ScrapeDatabase,
           ReadRecords, ReadSpf, ReadTime, Answer, Unscraped, refreshing
  <1>2. CASE ScrapeDatabase(s)
    <2>1. PICK x \in {"lock", "down"} : scrape' = [scrape EXCEPT ![s] = x]
      BY <1>2 DEF ScrapeDatabase
    <2>2. copy' = [copy EXCEPT ![s] = Empty] /\ lock' = lock /\ scrape[s] = "idle"
      BY <1>2 DEF ScrapeDatabase
    <2>3. QED BY <1>1, <2>1, <2>2, OneScrape DEF Reading
  <1>3. CASE ReadRecords(s)
    <2> DEFINE y == [copy[s] EXCEPT !.records = snap.records]
    <2>1. /\ scrape' = [scrape EXCEPT ![s] = "spf"] /\ copy' = [copy EXCEPT ![s] = y]
          /\ lock' = s /\ lock = Nothing
      BY <1>3 DEF ReadRecords
    <2>2. IsRecord(y) /\ y.records = snap.records
      BY <1>1, OneField DEF IsRecord
    <2> HIDE DEF y
    <2>3. QED BY <1>1, <2>1, <2>2, OneScrape DEF Reading
  <1>4. CASE ReadSpf(s)
    <2> DEFINE y == [copy[s] EXCEPT !.spf = snap.spf]
    <2>1. /\ scrape' = [scrape EXCEPT ![s] = "time"] /\ copy' = [copy EXCEPT ![s] = y]
          /\ lock' = lock /\ scrape[s] = "spf"
      BY <1>4 DEF ReadSpf
    <2>2. IsRecord(y) /\ y.records = copy[s].records /\ y.spf = snap.spf
      BY <1>1, OneField DEF IsRecord
    <2> HIDE DEF y
    <2>3. QED BY <1>1, <2>1, <2>2, OneScrape DEF Reading
  <1>5. CASE ReadTime(s)
    <2> DEFINE y == [copy[s] EXCEPT !.updated = snap.updated]
    <2>1. /\ scrape' = [scrape EXCEPT ![s] = "shown"] /\ copy' = [copy EXCEPT ![s] = y]
          /\ lock' = Nothing /\ scrape[s] = "time"
      BY <1>5 DEF ReadTime
    <2>2. IsRecord(y)
      BY <1>1, OneField DEF IsRecord
    <2> HIDE DEF y
    <2>3. QED BY <1>1, <2>1, <2>2, OneScrape DEF Reading
  <1>6. CASE Answer(s)
    <2>1. /\ scrape' = [scrape EXCEPT ![s] = "idle"] /\ copy' = [copy EXCEPT ![s] = Empty]
          /\ lock' = lock /\ scrape[s] \in {"shown", "down"}
      BY <1>6 DEF Answer
    <2>2. QED BY <1>1, <2>1, OneScrape DEF Reading
  <1>7. QED BY <1>2, <1>3, <1>4, <1>5, <1>6 DEF Scrape

LEMMA StepSInv == SInv /\ [Next]_vars => SInv'
  <1> SUFFICES ASSUME SInv, [Next]_vars PROVE SInv'
    OBVIOUS
  <1>1. CASE \E d \in Domains : Register(d)
    BY <1>1 DEF Register, SInv, LockOK, CopyOK, IsRecord, refreshing, scraping
  <1>2. CASE Refresh \/ WalkRaises \/ RefreshRaises
    BY <1>2, RefreshSInv
  <1>3. CASE \E s \in Scrapers : Scrape(s)
    BY <1>3, ScrapeSInv
  <1>4. CASE UNCHANGED vars
    BY <1>4 DEF vars, SInv, LockOK, CopyOK, IsRecord, refreshing, scraping
  <1>5. QED BY <1>1, <1>2, <1>3, <1>4 DEF Next

LEMMA SnapshotInvariance == Spec => []SInv
  <1>1. QED BY InitSInv, StepSInv, PTL DEF Spec

\* What a scrape shows is one refresh, whole: the lock covers the three copies
\* of DnsSnapshot.read and the three assignments of DnsSnapshot.refresh.
THEOREM ScrapesAreWhole == Spec => SnapshotIsWhole
  <1> DEFINE Shows ==
        \A s \in Scrapers : scrape'[s] = "shown" /\ scrape[s] # "shown" =>
            /\ copy'[s] = snap
            /\ pc \notin {"publish spf", "publish time"}
  <1>1. SInv /\ [Next]_vars => [Shows]_vars
    <2> SUFFICES ASSUME SInv, Next, NEW s \in Scrapers,
                        scrape'[s] = "shown", scrape[s] # "shown"
                 PROVE  copy'[s] = snap /\ pc \notin {"publish spf", "publish time"}
      BY DEF vars
    <2> USE MetricsAssumption DEF SInv, LockOK, CopyOK, IsRecord, Reading, Unscraped, refreshing
    <2>1. ReadTime(s)
      <3>1. CASE \E d \in Domains : Register(d)
        BY <3>1 DEF Register, scraping
      <3>2. CASE Refresh \/ WalkRaises \/ RefreshRaises
        BY <3>2 DEF Refresh, StartRefresh, CheckDomain, WalkStep, WalkEnds, WalkRaises,
                    PublishRecords, PublishSpf, PublishTime, RefreshRaises, scraping
      <3>3. CASE \E r \in Scrapers : Scrape(r)
        <4>1. PICK r \in Scrapers : Scrape(r)
          BY <3>3
        <4>2. ASSUME ~ ReadTime(r) PROVE scrape'[s] # "shown" \/ scrape'[s] = scrape[s]
          BY <4>1, <4>2 DEF Scrape, ScrapeDatabase, ReadRecords, ReadSpf, Answer
        <4>3. ReadTime(r)
          BY <4>2
        <4>4. s = r
          BY <4>3 DEF ReadTime
        <4>5. QED BY <4>3, <4>4
      <3>4. QED BY <3>1, <3>2, <3>3 DEF Next
    <2>2. /\ copy'[s] = [copy[s] EXCEPT !.updated = snap.updated]
          /\ copy[s].records = snap.records /\ copy[s].spf = snap.spf
      BY <2>1 DEF ReadTime
    <2>3. copy'[s] = snap
      <3>1. IsRecord(copy[s]) /\ IsRecord(snap)
        OBVIOUS
      <3>2. QED BY <2>2, <3>1, OneField DEF IsRecord
    <2>4. pc \notin {"publish spf", "publish time"}
      BY <2>1 DEF ReadTime
    <2>5. QED BY <2>3, <2>4
  <1>2. QED BY <1>1, SnapshotInvariance, PTL DEF Spec, SnapshotIsWhole

-----------------------------------------------------------------------------
(* The walk.                                                               *)

Frame == [name : Names, rest : Seq(Terms)]

\* A call of walk goes on with the terms after the first.
Shorter(f) == [f EXCEPT !.rest = Tail(f.rest)]

LEMMA ShorterFrame ==
    ASSUME NEW f \in Frame, f.rest # << >>
    PROVE  /\ Shorter(f) \in Frame
           /\ Shorter(f).name = f.name
           /\ \A i \in DOMAIN Shorter(f).rest :
                 i + 1 \in DOMAIN f.rest /\ Shorter(f).rest[i] = f.rest[i + 1]
  <1>1. f.rest \in Seq(Terms) /\ f.name \in Names
    BY DEF Frame
  <1>2. /\ Tail(f.rest) \in Seq(Terms) /\ Len(Tail(f.rest)) = Len(f.rest) - 1
        /\ \A i \in 1 .. Len(Tail(f.rest)) : Tail(f.rest)[i] = f.rest[i + 1]
    BY <1>1, HeadTailProperties
  <1>3. Shorter(f).rest = Tail(f.rest) /\ Shorter(f).name = f.name
    BY DEF Shorter, Frame
  <1>4. Shorter(f) \in Frame
    BY <1>1, <1>2 DEF Shorter, Frame
  <1>5. /\ DOMAIN f.rest = 1 .. Len(f.rest) /\ Len(f.rest) \in Nat
        /\ DOMAIN Tail(f.rest) = 1 .. Len(Tail(f.rest))
    BY <1>1, <1>2, LenProperties
  <1>6. QED BY <1>2, <1>3, <1>4, <1>5

\* A term that the walk has still to look at is one of its record's.
StackOK ==
    \A k \in DOMAIN stack :
        /\ stack[k].name \in Reach(domain)
        /\ \A i \in DOMAIN stack[k].rest :
              \E j \in DOMAIN zone.txt[stack[k].name] :
                  stack[k].rest[i] = zone.txt[stack[k].name][j]

WInv ==
    /\ SpfTypeOK
    /\ calling # Self => calling \in Reach(domain)
    /\ StackOK
    /\ networks \subseteq Authorised(domain)

\* The record of a name is among those it consists of.
LEMMA ReachSelf == ASSUME NEW d \in Names PROVE d \in Reach(d)
  BY DEF Reach

\* So are the records that these include.
LEMMA ReachIncluded ==
    ASSUME SpfTypeOK, NEW d, NEW n \in Reach(d), NEW j \in DOMAIN zone.txt[n],
           zone.txt[n][j].kind = "include", zone.txt[n][j].host \in Names
    PROVE  zone.txt[n][j].host \in Reach(d)
  <1>1. ASSUME NEW S \in SUBSET Names, d \in S, Closed(S) PROVE zone.txt[n][j].host \in S
    BY <1>1 DEF Reach, Closed
  <1>2. QED BY <1>1 DEF Reach

\* The name a term is about, and the exchanges of a name.
LEMMA SubjectType ==
    ASSUME SpfTypeOK, NEW n \in Names, NEW t \in Terms
    PROVE  /\ Subject(n, t) \in Names
           /\ zone.mx[Subject(n, t)] \in Seq(Names)
           /\ DOMAIN zone.mx[Subject(n, t)] \subseteq Nat \ {0}
  <1>1. Subject(n, t) \in Names
    BY DEF Subject, Terms
  <1>2. zone.mx \in [Names -> Seq(Names)]
    BY SpfAssumption DEF SpfTypeOK
  <1>3. zone.mx[Subject(n, t)] \in Seq(Names)
    BY <1>1, <1>2
  <1>4. /\ DOMAIN zone.mx[Subject(n, t)] = 1 .. Len(zone.mx[Subject(n, t)])
        /\ Len(zone.mx[Subject(n, t)]) \in Nat
    BY <1>3, LenProperties
  <1>5. QED BY <1>1, <1>3, <1>4

\* Nothing is found that a term does not stand for, and what a term stands for
\* is found or given up.
LEMMA FoundIsMeant ==
    ASSUME SpfTypeOK, NEW n \in Names, NEW t \in Terms
    PROVE  /\ Found(zone, Subject(n, t), t) \subseteq Meant(n, t)
           /\ Meant(n, t) \subseteq Found(zone, Subject(n, t), t) \cup GivenUp(n, t)
  <1> DEFINE h == Subject(n, t)
  <1>1. CASE t.kind = "mx"
    <2> DEFINE D == DOMAIN zone.mx[h]
               N(i) == zone.addr[zone.mx[h][i]]
    <2>1. D \subseteq Nat \ {0} /\ MaxExchanges \in Nat
      BY SubjectType, SpfAssumption
    <2>2. Found(zone, h, t) = UNION {N(i) : i \in {k \in D : k <= MaxExchanges}}
      BY <1>1 DEF Found
    <2>3. Meant(n, t) = UNION {N(i) : i \in {k \in D : k > 0}}
      BY <1>1 DEF Meant, ExchangesAfter
    <2>4. GivenUp(n, t) = UNION {N(i) : i \in {k \in D : k > MaxExchanges}}
      BY <1>1 DEF GivenUp, ExchangesAfter
    <2>5. \A k \in D : k \in Nat \ {0}
      BY <2>1
    <2> HIDE DEF D, N
    <2>6. {k \in D : k <= MaxExchanges} \subseteq {k \in D : k > 0}
      BY <2>5
    <2>7. {k \in D : k > 0} \subseteq
            {k \in D : k <= MaxExchanges} \cup {k \in D : k > MaxExchanges}
      <3>1. \A k \in D : k <= MaxExchanges \/ k > MaxExchanges
        BY <2>1, <2>5
      <3>2. QED BY <3>1
    <2>8. QED BY <2>2, <2>3, <2>4, <2>6, <2>7
  <1>2. CASE t.kind = "a" \/ t.kind = "ip"
    BY <1>2 DEF Found, Meant
  <1>3. CASE t.kind \in {"a:/", "a/", "mx:/", "mx/"}
    BY <1>3 DEF Found, GivenUp
  <1>4. CASE t.kind \in {"include", "other"}
    BY <1>4 DEF Found, Meant
  <1>5. QED
    BY <1>1, <1>2, <1>3, <1>4 DEF Terms

\* What a term of such a record stands for is authorised.
LEMMA MeantIsAuthorised ==
    ASSUME SpfTypeOK, NEW d, NEW n \in Reach(d), NEW j \in DOMAIN zone.txt[n],
           zone.txt[n][j] \in Terms
    PROVE  Found(zone, Subject(n, zone.txt[n][j]), zone.txt[n][j]) \subseteq Authorised(d)
  <1>1. Meant(n, zone.txt[n][j]) \subseteq Authorised(d)
    BY DEF Authorised
  <1>2. n \in Names
    BY DEF Reach
  <1>3. QED BY <1>1, <1>2, FoundIsMeant

\* The record in hand and its next term.
LEMMA AtTermFacts ==
    ASSUME WInv, NEW kinds, AtTerm(kinds)
    PROVE  /\ Top \in Frame /\ Len(stack) \in DOMAIN stack
           /\ Term \in Terms /\ Term.kind \in kinds
           /\ Top.name \in Reach(domain)
           /\ \E j \in DOMAIN zone.txt[Top.name] : Term = zone.txt[Top.name][j]
  <1>1. stack \in Seq(Frame) /\ stack # << >>
    BY DEF WInv, SpfTypeOK, AtTerm, Frame
  <1>2. Len(stack) \in DOMAIN stack /\ Top \in Frame
    <2>1. Len(stack) \in Nat \ {0} /\ DOMAIN stack = 1 .. Len(stack)
      BY <1>1, EmptySeq, LenProperties
    <2>2. QED BY <1>1, <2>1, ElementOfSeq DEF Top
  <1>3. Top.rest \in Seq(Terms) /\ Top.rest # << >>
    BY <1>2 DEF AtTerm, Frame
  <1>4. 1 \in DOMAIN Top.rest /\ Term = Top.rest[1] /\ Term \in Terms
    BY <1>3 DEF Term
  <1>5. QED BY <1>2, <1>4 DEF WInv, StackOK, AtTerm, Top

\* The stack stays in order when a term is taken off.
LEMMA AtTermStack ==
    ASSUME WInv, NEW kinds, AtTerm(kinds)
    PROVE  /\ stack' \in Seq(Frame)
           /\ StackOK'
           /\ UNCHANGED <<zone, domain, seen>>
  <1> DEFINE n == Len(stack)
  <1>1. /\ stack \in Seq(Frame) /\ n \in 1 .. Len(stack) /\ DOMAIN stack = 1 .. Len(stack)
        /\ stack[n] \in Frame /\ stack[n].rest # << >>
    <2>1. stack \in Seq(Frame)
      BY DEF WInv, SpfTypeOK, Frame
    <2>2. QED BY <2>1, AtTermFacts, LenProperties DEF Top, AtTerm
  <1>2. stack' = [stack EXCEPT ![n] = Shorter(stack[n])]
    BY DEF AtTerm, Shorter
  <1>3. /\ stack' \in Seq(Frame) /\ Len(stack') = Len(stack)
        /\ \A k \in 1 .. Len(stack) : stack'[k] = IF k = n THEN Shorter(stack[n]) ELSE stack[k]
    BY <1>1, <1>2, ShorterFrame, ExceptSeq
  <1>4. DOMAIN stack' = 1 .. Len(stack)
    BY <1>3, LenProperties
  <1>7. UNCHANGED <<zone, domain, seen>>
    BY DEF AtTerm
  <1>8. Reach(domain)' = Reach(domain)
    BY <1>7 DEF Reach, Closed
  <1>9. ASSUME NEW k \in DOMAIN stack'
        PROVE  /\ stack'[k].name \in Reach(domain)
               /\ \A i \in DOMAIN stack'[k].rest :
                     \E j \in DOMAIN zone.txt[stack'[k].name] :
                         stack'[k].rest[i] = zone.txt[stack'[k].name][j]
    <2>1. CASE k # n
      <3>1. k \in DOMAIN stack /\ stack'[k] = stack[k]
        BY <2>1, <1>1, <1>3, <1>4
      <3>2. QED BY <3>1 DEF WInv, StackOK
    <2>2. CASE k = n
      <3>1. stack'[k] = Shorter(stack[n])
        BY <1>1, <1>3, <2>2
      <3>2. QED BY <3>1, <1>1, ShorterFrame DEF WInv, StackOK
    <2>3. QED BY <2>1, <2>2
  <1>10. StackOK'
    BY <1>7, <1>8, <1>9 DEF StackOK
  <1>11. QED BY <1>3, <1>7, <1>10

LEMMA SameMeaning ==
    ASSUME UNCHANGED <<zone, domain>>
    PROVE  Reach(domain)' = Reach(domain) /\ Authorised(domain)' = Authorised(domain)
  BY DEF Reach, Closed, Authorised, Meant, ExchangesAfter, Subject

LEMMA WalkWInv ==
    ASSUME WInv, Walk
    PROVE  WInv' /\ domain' = domain
  <1> USE SpfAssumption
  <1>1. CASE Enter
    <2>1. /\ UNCHANGED <<zone, domain, budget, networks>> /\ calling' = Self
          /\ calling \in Names /\ calling \in Reach(domain)
      BY <1>1 DEF Enter, WInv, SpfTypeOK
    <2>2. seen' \subseteq Names /\ lossy' \in BOOLEAN
      BY <1>1, <2>1 DEF Enter, Answered, WInv, SpfTypeOK
    <2>3. \/ stack' = stack
          \/ stack' = Append(stack, [name |-> calling, rest |-> zone.txt[calling]])
      BY <1>1 DEF Enter
    <2>4. zone.txt[calling] \in Seq(Terms)
      BY <2>1 DEF WInv, SpfTypeOK
    <2>5. /\ stack \in Seq(Frame) /\ DOMAIN stack = 1 .. Len(stack) /\ Len(stack) \in Nat
          /\ [name |-> calling, rest |-> zone.txt[calling]] \in Frame
      BY <2>1, <2>4, LenProperties DEF WInv, SpfTypeOK, Frame
    <2>8. /\ stack' \in Seq(Frame) /\ DOMAIN stack \subseteq DOMAIN stack'
          /\ \A k \in DOMAIN stack : stack'[k] = stack[k]
          /\ \A k \in DOMAIN stack' \ DOMAIN stack :
                stack'[k] = [name |-> calling, rest |-> zone.txt[calling]]
      <3>1. CASE stack' = stack
        BY <3>1, <2>5
      <3>2. CASE stack' = Append(stack, [name |-> calling, rest |-> zone.txt[calling]])
        <4>1. /\ stack' \in Seq(Frame) /\ Len(stack') = Len(stack) + 1
              /\ \A k \in 1 .. Len(stack) : stack'[k] = stack[k]
              /\ stack'[Len(stack) + 1] = [name |-> calling, rest |-> zone.txt[calling]]
          BY <2>5, <3>2, AppendProperties
        <4>2. DOMAIN stack' = 1 .. Len(stack) + 1
          BY <4>1, LenProperties
        <4>3. QED BY <2>5, <4>1, <4>2
      <3>3. QED BY <2>3, <3>1, <3>2
    <2>6. StackOK'
      <3>1. SUFFICES ASSUME NEW k \in DOMAIN stack'
                     PROVE  /\ stack'[k].name \in Reach(domain)
                            /\ \A i \in DOMAIN stack'[k].rest :
                                  \E j \in DOMAIN zone.txt[stack'[k].name] :
                                      stack'[k].rest[i] = zone.txt[stack'[k].name][j]
        BY <2>1, SameMeaning DEF StackOK
      <3>2. CASE k \in DOMAIN stack
        <4>1. stack'[k] = stack[k]
          BY <2>8, <3>2
        <4>2. QED BY <4>1, <3>2 DEF WInv, StackOK
      <3>3. CASE k \notin DOMAIN stack
        <4>1. stack'[k] = [name |-> calling, rest |-> zone.txt[calling]]
          BY <2>8, <3>3
        <4>2. QED BY <4>1, <2>1
      <3>4. QED BY <3>2, <3>3
    <2>7. QED BY <2>1, <2>2, <2>8, <2>6, SameMeaning DEF WInv, SpfTypeOK, Frame
  <1>2. CASE Include
    <2>1. AtTerm({"include"}) /\ budget' = budget - 1 /\ calling' = Term.host
          /\ UNCHANGED <<networks, lossy>>
      BY <1>2 DEF Include
    <2>2. Term.kind = "include" /\ Term.host \in Names
      <3>1. Term \in Terms /\ Term.kind \in {"include"}
        BY <2>1, AtTermFacts
      <3>2. QED BY <3>1 DEF Terms
    <2>3. budget' \in 0 .. MaxTerms
      BY <2>1 DEF AtTerm, WInv, SpfTypeOK
    <2>4. Term.host \in Reach(domain)
      BY <2>1, <2>2, AtTermFacts, ReachIncluded DEF WInv
    <2>5. QED BY <2>1, <2>2, <2>3, <2>4, AtTermStack, SameMeaning DEF Frame, WInv, SpfTypeOK
  <1>3. CASE Addresses
    <2>1. AtTerm({"a", "mx", "a:/", "mx:/"}) /\ budget' = budget - 1 /\ calling' = calling
          /\ lossy' \in BOOLEAN
          /\ networks' \subseteq networks \cup Found(zone, Host(Top.name, Term), Term)
      BY <1>3 DEF Addresses, Answered, WInv, SpfTypeOK
    <2>2. PICK j \in DOMAIN zone.txt[Top.name] : Term = zone.txt[Top.name][j]
      BY <2>1, AtTermFacts
    <2>3. /\ Term.kind \in {"a", "mx", "a:/", "mx:/"} /\ Top.name \in Reach(domain)
          /\ Term \in Terms
      BY <2>1, AtTermFacts
    <2>4. Found(zone, Host(Top.name, Term), Term) \subseteq Authorised(domain)
      <3>1. Host(Top.name, Term) = Subject(Top.name, Term)
        BY <2>3 DEF Host, Subject
      <3>2. QED
        BY <2>2, <2>3, <3>1, MeantIsAuthorised DEF WInv
    <2>5. Found(zone, Host(Top.name, Term), Term) \subseteq Nets
      <3>1. Term.host \in Names \cup {Self} /\ Top.name \in Names
        <4>1. Top \in Frame
          BY <2>1, AtTermFacts
        <4>2. QED BY <4>1, <2>3 DEF Terms, Frame
      <3>2. Host(Top.name, Term) \in Names
        BY <3>1 DEF Host
      <3>3. zone.addr \in [Names -> SUBSET Nets] /\ zone.mx \in [Names -> Seq(Names)]
        BY SpfAssumption DEF WInv, SpfTypeOK
      <3>4. CASE Term.kind = "a"
        BY <3>2, <3>3, <3>4 DEF Found
      <3>5. CASE Term.kind = "mx"
        <4> DEFINE mx == zone.mx[Host(Top.name, Term)]
        <4>1. mx \in Seq(Names)
          BY <3>2, <3>3
        <4>2. \A i \in DOMAIN mx : zone.addr[mx[i]] \subseteq Nets
          BY <3>3, <4>1, ElementOfSeq
        <4>3. Found(zone, Host(Top.name, Term), Term) =
                UNION {zone.addr[mx[i]] : i \in {k \in DOMAIN mx : k <= MaxExchanges}}
          BY <3>5 DEF Found
        <4>4. QED BY <4>2, <4>3
      <3>6. CASE Term.kind \in {"a:/", "mx:/"}
        BY <3>6 DEF Found
      <3>7. QED BY <2>3, <3>4, <3>5, <3>6
    <2>6. budget' \in 0 .. MaxTerms
      BY <2>1 DEF AtTerm, WInv, SpfTypeOK
    <2>7. QED BY <2>1, <2>4, <2>5, <2>6, AtTermStack, SameMeaning DEF Frame, WInv, SpfTypeOK, AtTerm
  <1>4. CASE Literal
    <2>1. AtTerm({"ip", "a/", "mx/", "other"}) /\ UNCHANGED <<budget, calling, lossy>>
          /\ networks' = networks \cup Found(zone, Self, Term)
      BY <1>4 DEF Literal
    <2>2. PICK j \in DOMAIN zone.txt[Top.name] : Term = zone.txt[Top.name][j]
      BY <2>1, AtTermFacts
    <2>3. Term.kind \in {"ip", "a/", "mx/", "other"} /\ Top.name \in Reach(domain) /\ Term \in Terms
      BY <2>1, AtTermFacts
    <2>4. Found(zone, Self, Term) = Found(zone, Subject(Top.name, Term), Term)
      BY <2>3 DEF Found, Terms
    <2>5. Found(zone, Self, Term) \subseteq Authorised(domain)
      BY <2>2, <2>3, <2>4, MeantIsAuthorised DEF WInv
    <2>6. Found(zone, Self, Term) \subseteq Nets
      BY <2>3 DEF Found, Terms
    <2>7. QED BY <2>1, <2>5, <2>6, AtTermStack, SameMeaning DEF Frame, WInv, SpfTypeOK, AtTerm
  <1>5. CASE Return
    <2>1. /\ UNCHANGED <<zone, domain, budget, seen, networks, calling, lossy>>
          /\ stack # << >> /\ stack' = SubSeq(stack, 1, Len(stack) - 1)
      BY <1>5 DEF Return
    <2>2. /\ stack' \in Seq(Frame)
          /\ \A k \in DOMAIN stack' : k \in DOMAIN stack /\ stack'[k] = stack[k]
      <3>1. /\ stack \in Seq(Frame) /\ DOMAIN stack = 1 .. Len(stack)
            /\ Len(stack) \in Nat \ {0}
        BY <2>1, LenProperties, EmptySeq DEF WInv, SpfTypeOK, Frame
      <3>2. \A k \in 1 .. Len(stack) - 1 : stack[k] \in Frame
        BY <3>1, ElementOfSeq
      <3>3. /\ stack' \in Seq(Frame) /\ Len(stack') = Len(stack) - 1
            /\ \A k \in 1 .. Len(stack) - 1 : stack'[k] = stack[k]
        BY <2>1, <3>1, <3>2, SubSeqProperties
      <3>4. DOMAIN stack' = 1 .. Len(stack) - 1
        BY <3>3, LenProperties
      <3>5. QED BY <3>1, <3>3, <3>4
    <2>3. StackOK'
      <3>1. SUFFICES ASSUME NEW k \in DOMAIN stack'
                     PROVE  /\ stack'[k].name \in Reach(domain)
                            /\ \A i \in DOMAIN stack'[k].rest :
                                  \E j \in DOMAIN zone.txt[stack'[k].name] :
                                      stack'[k].rest[i] = zone.txt[stack'[k].name][j]
        BY <2>1, SameMeaning DEF StackOK
      <3>2. k \in DOMAIN stack /\ stack'[k] = stack[k]
        BY <2>2
      <3>3. QED BY <3>2 DEF WInv, StackOK
    <2>4. QED BY <2>1, <2>2, <2>3, SameMeaning DEF WInv, SpfTypeOK, Frame
  <1>6. QED BY <1>1, <1>2, <1>3, <1>4, <1>5 DEF Walk

\* An expansion starts with all its look-ups.
LEMMA AllTerms == MaxTerms \in 0 .. MaxTerms
  <1>1. MaxTerms \in Nat
    BY SpfAssumption
  <1>2. QED BY <1>1

LEMMA InitWInv == Init => WInv
  <1>1. SUFFICES ASSUME Init PROVE WInv
    OBVIOUS
  <1>2. /\ zone \in Zones /\ domain = Self /\ budget = MaxTerms /\ seen = {} /\ networks = {}
        /\ stack = << >> /\ calling = Self /\ lossy = FALSE
    BY <1>1 DEF Init, SpfInit
  <1>3. DOMAIN stack = {}
    BY <1>2
  <1>4. StackOK
    BY <1>3 DEF StackOK
  <1>5. SpfTypeOK
    <2>1. stack \in Seq(Frame)
      BY <1>2, EmptySeq
    <2>2. /\ zone \in Zones /\ domain \in Names \cup {Self} /\ budget \in 0 .. MaxTerms
          /\ seen \subseteq Names /\ networks \subseteq Nets
          /\ calling \in Names \cup {Self} /\ lossy \in BOOLEAN
      BY <1>2, AllTerms
    <2>3. QED BY <2>1, <2>2 DEF SpfTypeOK, Frame
  <1>6. QED BY <1>2, <1>4, <1>5 DEF WInv

\* Each step of the program begins an expansion, goes on with it, forgets it or
\* leaves it alone.
LEMMA NextWalks ==
    ASSUME [Next]_vars
    PROVE  (\E d \in Domains : Begin(d)) \/ Forget \/ Walk \/ UNCHANGED spfVars
  BY DEF Next, vars, Register, Refresh, StartRefresh, CheckDomain, WalkStep, WalkEnds,
         Leave, PublishRecords, PublishSpf, PublishTime, WalkRaises, RefreshRaises,
         Scrape, ScrapeDatabase, ReadRecords, ReadSpf, ReadTime, Answer, Unscraped

LEMMA NextWInv ==
    ASSUME WInv, [Next]_vars
    PROVE  WInv'
  <1>1. CASE UNCHANGED spfVars
    <2>1. UNCHANGED <<zone, domain, budget, seen, networks, stack, calling, lossy>>
      BY <1>1 DEF spfVars
    <2>2. QED BY <2>1, SameMeaning DEF WInv, SpfTypeOK, StackOK
  <1>2. CASE \E d \in Domains : Begin(d)
    <2>1. PICK d \in Names : Begin(d)
      BY <1>2, MetricsAssumption
    <2>2. /\ zone' = zone /\ domain' = d /\ budget' = MaxTerms /\ seen' = {} /\ networks' = {}
          /\ stack' = << >> /\ calling' = d /\ lossy' = FALSE
      BY <2>1 DEF Begin
    <2>3. StackOK'
      BY <2>2 DEF StackOK
    <2>4. calling' \in Reach(domain)'
      BY <2>2 DEF Reach
    <2>5. SpfTypeOK'
      <3>1. stack' \in Seq(Frame)
        BY <2>2, EmptySeq
      <3>2. /\ zone' \in Zones /\ domain' \in Names \cup {Self} /\ budget' \in 0 .. MaxTerms
            /\ seen' \subseteq Names /\ networks' \subseteq Nets
            /\ calling' \in Names \cup {Self} /\ lossy' \in BOOLEAN
        BY <2>2, AllTerms DEF WInv, SpfTypeOK
      <3>3. QED BY <3>1, <3>2 DEF SpfTypeOK, Frame
    <2>6. QED BY <2>2, <2>3, <2>4, <2>5 DEF WInv
  <1>3. CASE Forget
    <2>2. /\ zone' = zone /\ domain' = Self /\ budget' = MaxTerms /\ seen' = {}
          /\ networks' = {} /\ stack' = << >> /\ calling' = Self /\ lossy' = FALSE
      BY <1>3 DEF Forget
    <2>3. StackOK'
      BY <2>2 DEF StackOK
    <2>4. SpfTypeOK'
      <3>1. stack' \in Seq(Frame)
        BY <2>2, EmptySeq
      <3>2. /\ zone' \in Zones /\ domain' \in Names \cup {Self} /\ budget' \in 0 .. MaxTerms
            /\ seen' \subseteq Names /\ networks' \subseteq Nets
            /\ calling' \in Names \cup {Self} /\ lossy' \in BOOLEAN
        BY <2>2, AllTerms DEF WInv, SpfTypeOK
      <3>3. QED BY <3>1, <3>2 DEF SpfTypeOK, Frame
    <2>5. QED BY <2>2, <2>3, <2>4 DEF WInv
  <1>4. CASE Walk
    BY <1>4, WalkWInv
  <1>5. (\E d \in Domains : Begin(d)) \/ Forget \/ Walk \/ UNCHANGED spfVars
    BY NextWalks
  <1>6. QED BY <1>1, <1>2, <1>3, <1>4, <1>5

\* Whatever is published, and whatever look-ups fail, an expansion lists no
\* network that the records of its domain do not (spf.py, expand_with_cost).
THEOREM NothingIsInvented == Spec => []NothingInvented
  <1>1. WInv => NothingInvented
    BY DEF WInv, NothingInvented
  <1>2. QED BY <1>1, InitWInv, NextWInv, PTL DEF Spec

-----------------------------------------------------------------------------
(* The types.                                                              *)

\* A refresh that is published is within the bound, as it was when it began.
RefreshTypeOK ==
    /\ todo \subseteq Domains
    /\ pc \in {"sleep", "check", "walk", "publish spf", "publish time"}
    /\ pc = "walk" => domain \in Domains
    /\ DOMAIN records \subseteq Domains /\ \A d \in DOMAIN records : records[d] \in Statuses
    /\ DOMAIN lookups \subseteq Domains /\ \A d \in DOMAIN lookups : lookups[d] \in Costs
    /\ pc # "sleep" => snap.updated < MaxRounds

RestTypeOK ==
    /\ registered \subseteq Domains
    /\ lock \in {Nothing, "refresh"} \cup Scrapers
    /\ scrape \in [Scrapers -> {"idle", "lock", "spf", "time", "shown", "down"}]
    /\ failures \in 0 .. MaxFailures

RecordsOK == IsRecord(snap) /\ \A s \in Scrapers : IsRecord(copy[s])

SnapTypeOK ==
    /\ IsSnapshot(snap) /\ \A s \in Scrapers : IsSnapshot(copy[s])
    /\ copy = [s \in Scrapers |-> copy[s]]

TInv == SpfTypeOK /\ RefreshTypeOK /\ RestTypeOK /\ SnapTypeOK /\ RecordsOK

LEMMA UsedIsCost == ASSUME SpfTypeOK PROVE Used \in Costs
  <1>1. MaxTerms \in Nat /\ budget \in 0 .. MaxTerms
    BY SpfAssumption DEF SpfTypeOK
  <1>2. QED BY <1>1 DEF Used, Costs

LEMMA NoResults == DOMAIN << >> = {}
  OBVIOUS

LEMMA NextRound ==
    ASSUME NEW n \in 0 .. MaxRounds, n < MaxRounds
    PROVE  n + 1 \in 0 .. MaxRounds
  <1>1. MaxRounds \in Nat
    BY MetricsAssumption
  <1>2. QED BY <1>1

\* A field of a snapshot is assigned.
LEMMA AssignField ==
    ASSUME NEW f, IsRecord(f), NEW v
    PROVE  /\ IsRecord([f EXCEPT !.records = v])
           /\ IsRecord([f EXCEPT !.spf = v])
           /\ IsRecord([f EXCEPT !.updated = v])
  <1>1. PICK a, b, c : f = [records |-> a, spf |-> b, updated |-> c]
    BY DEF IsRecord
  <1>2. /\ [f EXCEPT !.records = v] = [records |-> v, spf |-> b, updated |-> c]
        /\ [f EXCEPT !.spf = v] = [records |-> a, spf |-> v, updated |-> c]
        /\ [f EXCEPT !.updated = v] = [records |-> a, spf |-> b, updated |-> v]
    BY <1>1
  <1>3. QED BY <1>2 DEF IsRecord

\* The results stay of their type when one is added.
LEMMA WithType ==
    ASSUME NEW f, NEW V, NEW d \in Domains, NEW v \in V,
           DOMAIN f \subseteq Domains, \A x \in DOMAIN f : f[x] \in V
    PROVE  /\ DOMAIN With(f, d, v) \subseteq Domains
           /\ \A x \in DOMAIN With(f, d, v) : With(f, d, v)[x] \in V
  BY DEF With

LEMMA FailsType ==
    ASSUME failures \in 0 .. MaxFailures, Fails
    PROVE  failures' \in 0 .. MaxFailures
  BY MetricsAssumption DEF Fails

LEMMA WalkKeepsDomain == Walk => domain' = domain
  BY DEF Walk, Enter, Include, Addresses, Literal, Return, AtTerm

LEMMA RefreshType ==
    ASSUME TInv, Refresh \/ WalkRaises \/ RefreshRaises
    PROVE  RefreshTypeOK' /\ RestTypeOK' /\ SnapTypeOK' /\ RecordsOK'
  <1> USE MetricsAssumption DEF TInv, RefreshTypeOK, RestTypeOK
  <1>1. CASE StartRefresh
    BY <1>1 DEF StartRefresh, scraping, SnapTypeOK, IsSnapshot, RecordsOK, IsRecord
  <1>2. CASE \E d \in Domains : CheckDomain(d)
    <2>1. PICK d \in Domains, st \in Statuses :
            /\ pc' = "walk" /\ records' = With(records, d, st) /\ domain' = d
            /\ todo' = todo \ {d} /\ pc = "check"
            /\ UNCHANGED <<registered, lookups, snap, lock, scrape, copy, failures>>
      BY <1>2 DEF CheckDomain, Begin, scraping
    <2>2. QED BY <2>1, WithType DEF SnapTypeOK, IsSnapshot, RecordsOK, IsRecord
  <1>3. CASE WalkStep
    BY <1>3, WalkKeepsDomain DEF WalkStep, scraping, refreshing, SnapTypeOK, IsSnapshot, RecordsOK, IsRecord
  <1>4. CASE WalkEnds
    <2>1. /\ lookups' = With(lookups, domain, Used) /\ pc = "walk" /\ pc' = "check"
          /\ UNCHANGED <<registered, todo, records, snap, lock, scrape, copy, failures>>
      BY <1>4 DEF WalkEnds, scraping
    <2>2. QED BY <2>1, WithType, UsedIsCost DEF SnapTypeOK, IsSnapshot, RecordsOK, IsRecord
  <1>5. CASE PublishRecords
    <2>1. /\ snap' = [snap EXCEPT !.records = records] /\ pc = "check" /\ pc' = "publish spf"
          /\ lock' = "refresh"
          /\ UNCHANGED <<registered, todo, records, lookups, scrape, copy, failures>>
      BY <1>5 DEF PublishRecords, scraping
    <2>2. snap'.records = records /\ snap'.spf = snap.spf /\ snap'.updated = snap.updated
      BY <2>1 DEF RecordsOK, IsRecord
    <2>3. SnapTypeOK' /\ RecordsOK'
      BY <2>1, <2>2 DEF SnapTypeOK, IsSnapshot, RecordsOK, IsRecord
    <2>4. QED BY <2>1, <2>2, <2>3
  <1>6. CASE PublishSpf
    <2>1. /\ snap' = [snap EXCEPT !.spf = lookups] /\ pc = "publish spf" /\ pc' = "publish time"
          /\ UNCHANGED <<registered, todo, records, lookups, lock, scrape, copy, failures>>
      BY <1>6 DEF PublishSpf, scraping
    <2>2. snap'.records = snap.records /\ snap'.spf = lookups /\ snap'.updated = snap.updated
      BY <2>1 DEF RecordsOK, IsRecord
    <2>3. SnapTypeOK' /\ RecordsOK'
      BY <2>1, <2>2 DEF SnapTypeOK, IsSnapshot, RecordsOK, IsRecord
    <2>4. QED BY <2>1, <2>2, <2>3
  <1>7. CASE PublishTime
    <2>1. /\ snap' = [snap EXCEPT !.updated = @ + 1] /\ pc = "publish time" /\ pc' = "sleep"
          /\ lock' = Nothing /\ todo' = {} /\ records' = << >> /\ lookups' = << >>
          /\ UNCHANGED <<registered, scrape, copy, failures>>
      BY <1>7 DEF PublishTime, EndRefresh, scraping
    <2>2. snap'.records = snap.records /\ snap'.spf = snap.spf /\ snap'.updated = snap.updated + 1
      BY <2>1 DEF RecordsOK, IsRecord
    <2>3. snap'.updated \in 0 .. MaxRounds
      <3>1. snap.updated \in 0 .. MaxRounds /\ snap.updated < MaxRounds /\ MaxRounds \in Nat
        BY <2>1 DEF SnapTypeOK, IsSnapshot
      <3>2. QED BY <3>1, <2>2, NextRound
    <2>4. SnapTypeOK' /\ RecordsOK'
      BY <2>1, <2>2, <2>3 DEF SnapTypeOK, IsSnapshot, RecordsOK, IsRecord
    <2>5. DOMAIN records' = {} /\ DOMAIN lookups' = {}
      BY <2>1, NoResults
    <2>6. RefreshTypeOK'
      BY <2>5, <2>1
    <2>7. QED BY <2>1, <2>2, <2>4, <2>6
  <1>8. CASE WalkRaises
    <2>1. /\ pc = "walk" /\ pc' = "check" /\ Fails
          /\ UNCHANGED <<registered, todo, records, lookups, snap, lock, scrape, copy>>
      BY <1>8 DEF WalkRaises, scraping
    <2>2. QED BY <2>1, FailsType DEF SnapTypeOK, IsSnapshot, RecordsOK, IsRecord
  <1>9. CASE RefreshRaises
    <2>1. /\ pc' = "sleep" /\ Fails /\ todo' = {} /\ records' = << >> /\ lookups' = << >>
          /\ UNCHANGED <<registered, snap, lock, scrape, copy>>
      BY <1>9 DEF RefreshRaises, EndRefresh, scraping
    <2>2. DOMAIN records' = {} /\ DOMAIN lookups' = {}
      BY <2>1, NoResults
    <2>3. RefreshTypeOK'
      BY <2>2, <2>1
    <2>4. QED BY <2>1, <2>3, FailsType DEF SnapTypeOK, IsSnapshot, RecordsOK, IsRecord
  <1>10. QED BY <1>1, <1>2, <1>3, <1>4, <1>5, <1>6, <1>7, <1>8, <1>9 DEF Refresh

LEMMA ScrapeType ==
    ASSUME TInv, NEW s \in Scrapers, Scrape(s)
    PROVE  RefreshTypeOK' /\ RestTypeOK' /\ SnapTypeOK' /\ RecordsOK'
  <1> DEFINE States == {"idle", "lock", "spf", "time", "shown", "down"}
  <1>1. /\ UNCHANGED <<registered, pc, todo, records, lookups, snap, domain>>
        /\ \E st \in States : scrape' = [scrape EXCEPT ![s] = st]
        /\ lock' \in {lock, s, Nothing}
        /\ failures' = failures \/ Fails
    BY DEF Scrape, ScrapeDatabase, ReadRecords, ReadSpf, ReadTime, Answer, Unscraped,
           refreshing, spfVars
  <1>2. RefreshTypeOK'
    BY <1>1 DEF TInv, RefreshTypeOK
  <1>3. RestTypeOK'
    <2>1. scrape' \in [Scrapers -> States]
      BY <1>1 DEF TInv, RestTypeOK
    <2>2. failures' \in 0 .. MaxFailures
      BY <1>1, FailsType DEF TInv, RestTypeOK
    <2>3. QED BY <1>1, <2>1, <2>2 DEF TInv, RestTypeOK
  <1>4. \E f : /\ copy' = [copy EXCEPT ![s] = f]
               /\ IsRecord(f)
               /\ \/ f = Empty
                  \/ f = [copy[s] EXCEPT !.records = snap.records]
                  \/ f = [copy[s] EXCEPT !.spf = snap.spf]
                  \/ f = [copy[s] EXCEPT !.updated = snap.updated]
    <2>1. CASE ScrapeDatabase(s) \/ Answer(s)
      BY <2>1 DEF ScrapeDatabase, Answer, Empty, IsRecord
    <2>2. CASE ReadRecords(s)
      <3>1. IsRecord([copy[s] EXCEPT !.records = snap.records])
        BY AssignField DEF TInv, RecordsOK
      <3>2. copy' = [copy EXCEPT ![s] = [copy[s] EXCEPT !.records = snap.records]]
        BY <2>2 DEF ReadRecords, TInv, SnapTypeOK
      <3>3. QED BY <3>1, <3>2
    <2>3. CASE ReadSpf(s)
      <3>1. IsRecord([copy[s] EXCEPT !.spf = snap.spf])
        BY AssignField DEF TInv, RecordsOK
      <3>2. copy' = [copy EXCEPT ![s] = [copy[s] EXCEPT !.spf = snap.spf]]
        BY <2>3 DEF ReadSpf, TInv, SnapTypeOK
      <3>3. QED BY <3>1, <3>2
    <2>4. CASE ReadTime(s)
      <3>1. IsRecord([copy[s] EXCEPT !.updated = snap.updated])
        BY AssignField DEF TInv, RecordsOK
      <3>2. copy' = [copy EXCEPT ![s] = [copy[s] EXCEPT !.updated = snap.updated]]
        BY <2>4 DEF ReadTime, TInv, SnapTypeOK
      <3>3. QED BY <3>1, <3>2
    <2>5. QED BY <2>1, <2>2, <2>3, <2>4 DEF Scrape
  <1>5. PICK f : /\ copy' = [copy EXCEPT ![s] = f]
                 /\ IsRecord(f)
                 /\ \/ f = Empty
                    \/ f = [copy[s] EXCEPT !.records = snap.records]
                    \/ f = [copy[s] EXCEPT !.spf = snap.spf]
                    \/ f = [copy[s] EXCEPT !.updated = snap.updated]
    BY <1>4
  <1>6. IsSnapshot(f)
    <2>1. IsSnapshot(snap) /\ IsSnapshot(copy[s]) /\ IsRecord(copy[s])
      BY DEF TInv, SnapTypeOK, RecordsOK
    <2>2. CASE f = Empty
      BY <2>2, MetricsAssumption DEF IsSnapshot, Empty
    <2>3. CASE f = [copy[s] EXCEPT !.records = snap.records]
      <3>1. f.records = snap.records /\ f.spf = copy[s].spf /\ f.updated = copy[s].updated
        BY <2>1, <2>3 DEF IsRecord
      <3>2. QED BY <2>1, <3>1 DEF IsSnapshot
    <2>4. CASE f = [copy[s] EXCEPT !.spf = snap.spf]
      <3>1. f.records = copy[s].records /\ f.spf = snap.spf /\ f.updated = copy[s].updated
        BY <2>1, <2>4 DEF IsRecord
      <3>2. QED BY <2>1, <3>1 DEF IsSnapshot
    <2>5. CASE f = [copy[s] EXCEPT !.updated = snap.updated]
      <3>1. f.records = copy[s].records /\ f.spf = copy[s].spf /\ f.updated = snap.updated
        BY <2>1, <2>5 DEF IsRecord
      <3>2. QED BY <2>1, <3>1 DEF IsSnapshot
    <2>6. QED BY <1>5, <2>2, <2>3, <2>4, <2>5
  <1>7. /\ copy' = [x \in Scrapers |-> copy'[x]] /\ copy'[s] = f
        /\ \A x \in Scrapers : x # s => copy'[x] = copy[x]
    BY <1>5 DEF TInv, SnapTypeOK
  <1>8. SnapTypeOK' /\ RecordsOK'
    <2>1. \A x \in Scrapers : IsSnapshot(copy'[x]) /\ IsRecord(copy'[x])
      BY <1>5, <1>6, <1>7 DEF TInv, SnapTypeOK, RecordsOK
    <2>2. IsSnapshot(snap') /\ IsRecord(snap')
      BY <1>1 DEF TInv, SnapTypeOK, RecordsOK
    <2>3. QED BY <1>7, <2>1, <2>2 DEF SnapTypeOK, RecordsOK, IsSnapshot, IsRecord, Costs
  <1>9. QED BY <1>2, <1>3, <1>8

LEMMA InitType == Init => TInv
  <1>1. SUFFICES ASSUME Init PROVE TInv
    OBVIOUS
  <1>2. SpfTypeOK
    BY <1>1, InitWInv DEF WInv
  <1>3. /\ registered \subseteq Domains /\ pc = "sleep" /\ todo = {}
        /\ records = << >> /\ lookups = << >> /\ snap = Empty /\ lock = Nothing
        /\ scrape = [s \in Scrapers |-> "idle"] /\ copy = [s \in Scrapers |-> Empty]
        /\ failures = 0
    BY <1>1 DEF Init
  <1>4. IsSnapshot(Empty) /\ IsRecord(Empty)
    BY MetricsAssumption, NoResults DEF IsSnapshot, IsRecord, Empty
  <1>5. DOMAIN records = {} /\ DOMAIN lookups = {}
    BY <1>3, NoResults
  <1>6. RefreshTypeOK
    BY <1>3, <1>5 DEF RefreshTypeOK
  <1>7. RestTypeOK
    BY <1>3, MetricsAssumption DEF RestTypeOK
  <1>8. SnapTypeOK /\ RecordsOK
    BY <1>3, <1>4 DEF SnapTypeOK, RecordsOK
  <1>9. QED BY <1>2, <1>6, <1>7, <1>8 DEF TInv

LEMMA NextType ==
    ASSUME WInv, TInv, [Next]_vars
    PROVE  TInv'
  <1>1. SpfTypeOK'
    BY NextWInv DEF WInv
  <1>2. CASE (\E d \in Domains : Register(d)) \/ UNCHANGED vars
    <2>1. /\ UNCHANGED <<domain, pc, todo, records, lookups, snap, lock, scrape, copy, failures>>
          /\ registered' \subseteq Domains
      BY <1>2 DEF Register, vars, spfVars, refreshing, scraping, TInv, RestTypeOK
    <2>2. QED BY <1>1, <2>1
             DEF TInv, RefreshTypeOK, RestTypeOK, SnapTypeOK, RecordsOK, IsSnapshot, IsRecord
  <1>3. CASE Refresh \/ WalkRaises \/ RefreshRaises
    BY <1>1, <1>3, RefreshType DEF TInv
  <1>4. CASE \E s \in Scrapers : Scrape(s)
    BY <1>1, <1>4, ScrapeType DEF TInv
  <1>5. QED BY <1>2, <1>3, <1>4 DEF Next

\* Every variable has its type; in particular a refresh that raises is over, and
\* its thread is back at the loop (metrics.py, DnsSnapshot.run).
THEOREM TypesHold == Spec => []TypeOK
  <1>1. WInv /\ TInv => TypeOK
    <2>1. SUFFICES ASSUME TInv PROVE TypeOK
      OBVIOUS
    <2> DEFINE f == [records |-> records, spf |-> lookups, updated |-> 0]
    <2>2. f.records = records /\ f.spf = lookups /\ f.updated = 0
      OBVIOUS
    <2>3. 0 \in 0 .. MaxRounds
      BY MetricsAssumption
    <2>4. IsSnapshot(f)
      <3> HIDE DEF f
      <3>1. QED BY <2>1, <2>2, <2>3 DEF TInv, RefreshTypeOK, IsSnapshot
    <2>5. SpfTypeOK /\ IsSnapshot(snap) /\ \A s \in Scrapers : IsSnapshot(copy[s])
      BY <2>1 DEF TInv, SnapTypeOK
    <2>6. /\ todo \subseteq Domains
          /\ pc \in {"sleep", "check", "walk", "publish spf", "publish time"}
      BY <2>1 DEF TInv, RefreshTypeOK
    <2>7. QED BY <2>1, <2>4, <2>5, <2>6 DEF TInv, RestTypeOK, TypeOK
  <1>2. QED BY <1>1, InitWInv, InitType, NextWInv, NextType, PTL DEF Spec

-----------------------------------------------------------------------------
(* The number of look-ups.                                                 *)

CostsLookUp == {"include", "a", "mx", "a:/", "mx:/"}

\* The i-th term of the record of n is still to be looked at.
Ahead(n, i) ==
    \E k \in DOMAIN stack :
        stack[k].name = n /\ i > Len(zone.txt[n]) - Len(stack[k].rest)

\* The look-ups that were made.
Looked == {p \in LookUps(seen) : ~Ahead(p[1], p[2])}

\* A record is walked by one call, and what that call has still to look at is the
\* end of the record.
FramesOK ==
    \A k \in DOMAIN stack :
        LET n == stack[k].name
            r == stack[k].rest
        IN  /\ n \in seen
            /\ Len(r) <= Len(zone.txt[n])
            /\ \A i \in 1 .. Len(r) : r[i] = zone.txt[n][Len(zone.txt[n]) - Len(r) + i]
            /\ \A h \in DOMAIN stack : stack[h].name = n => h = k

\* What a term asks for was done: the record it includes was begun, its networks
\* are listed.
TermDone(n, i) ==
    LET t == zone.txt[n][i] IN
    /\ t.kind = "include" => t.host \in seen \cup {calling}
    /\ Found(zone, Subject(n, t), t) \subseteq networks

WorkOK ==
    /\ domain # Self => domain \in seen \cup {calling}
    /\ seen \subseteq Reach(domain)
    /\ FramesOK
    /\ Cardinality(Looked) = MaxTerms - budget
    /\ \A n \in seen : \A i \in DOMAIN zone.txt[n] : ~Ahead(n, i) => TermDone(n, i)

\* A walk that lost nothing has done what it counts, or has met the limit.
EInv ==
    ~lossy => /\ budget > 0 => WorkOK
              /\ budget = 0 => Cost(domain) >= MaxTerms

LEMMA RecordType ==
    ASSUME SpfTypeOK, NEW n \in Names
    PROVE  /\ zone.txt[n] \in Seq(Terms) /\ Len(zone.txt[n]) \in Nat
           /\ DOMAIN zone.txt[n] = 1 .. Len(zone.txt[n])
           /\ \A i \in DOMAIN zone.txt[n] : zone.txt[n][i] \in Terms
  <1>1. zone.txt[n] \in Seq(Terms)
    BY SpfAssumption DEF SpfTypeOK
  <1>2. QED BY <1>1, LenProperties, ElementOfSeq

\* What is counted: names with places in their records.
LEMMA LookUpsAre ==
    ASSUME SpfTypeOK, NEW S \in SUBSET Names
    PROVE  /\ \A n, i : <<n, i>> \in LookUps(S) <=>
                    /\ n \in S /\ i \in DOMAIN zone.txt[n]
                    /\ zone.txt[n][i].kind \in CostsLookUp
           /\ \A p \in LookUps(S) : p = <<p[1], p[2]>>
           /\ IsFiniteSet(LookUps(S))
  <1> DEFINE places(n) == {j \in DOMAIN zone.txt[n] : zone.txt[n][j].kind \in CostsLookUp}
             part(n) == {<<n, i>> : i \in places(n)}
             parts == {part(n) : n \in S}
  <1>1. LookUps(S) = UNION parts
    BY DEF LookUps, CostsLookUp
  <1>2. ASSUME NEW n \in S PROVE IsFiniteSet(part(n))
    <2>1. IsFiniteSet(places(n))
      <3>1. 1 \in Int /\ Len(zone.txt[n]) \in Int /\ DOMAIN zone.txt[n] = 1 .. Len(zone.txt[n])
        BY RecordType
      <3>2. IsFiniteSet(DOMAIN zone.txt[n])
        BY <3>1, FS_Interval
      <3>3. places(n) \in SUBSET DOMAIN zone.txt[n]
        OBVIOUS
      <3>4. QED BY <3>2, <3>3, FS_Subset
    <2>2. [i \in places(n) |-> <<n, i>>] \in Surjection(places(n), part(n))
      <3> DEFINE J == places(n)
      <3> HIDE DEF J
      <3>1. [i \in J |-> <<n, i>>] \in Surjection(J, {<<n, i>> : i \in J})
        BY DEF Surjection
      <3>2. QED BY <3>1 DEF J
    <2> HIDE DEF places, part
    <2>3. QED BY <2>1, <2>2, FS_Surjection
  <1>3. IsFiniteSet(parts)
    <2> HIDE DEF part
    <2>1. [n \in S |-> part(n)] \in Surjection(S, parts)
      BY DEF Surjection
    <2>2. IsFiniteSet(S)
      BY SpfAssumption, FS_Subset
    <2> HIDE DEF parts
    <2>3. QED BY <2>1, <2>2, FS_Surjection
  <1>4. IsFiniteSet(UNION parts)
    <2>1. \A T \in parts : IsFiniteSet(T)
      BY <1>2
    <2> HIDE DEF parts
    <2>2. QED BY <1>3, <2>1, FS_UNION
  <1>5. \A n, i : <<n, i>> \in UNION parts <=> n \in S /\ i \in places(n)
    OBVIOUS
  <1>6. \A p \in UNION parts : p = <<p[1], p[2]>>
    OBVIOUS
  <1>7. QED BY <1>1, <1>4, <1>5, <1>6

\* The next term is one that was ahead, and after it the same ones are, without it.
LEMMA TopTerm ==
    ASSUME WInv, NEW kinds, AtTerm(kinds)
    PROVE  LET n == Len(stack) IN
           /\ n \in DOMAIN stack /\ DOMAIN stack' = DOMAIN stack
           /\ stack'[n].name = Top.name /\ Len(Top.rest) \in Nat \ {0}
           /\ Len(stack'[n].rest) = Len(Top.rest) - 1
           /\ \A i \in 1 .. Len(Top.rest) - 1 : stack'[n].rest[i] = Top.rest[i + 1]
           /\ \A k \in DOMAIN stack : k # n => stack'[k] = stack[k]
           /\ Term = Top.rest[1] /\ Top.name \in Names
  <1> DEFINE n == Len(stack)
  <1>1. stack \in Seq(Frame) /\ n \in DOMAIN stack /\ DOMAIN stack = 1 .. n /\ Top \in Frame
    BY AtTermFacts, LenProperties DEF WInv, SpfTypeOK, Frame
  <1>2. stack' = [stack EXCEPT ![n] = Shorter(Top)] /\ Top.rest # << >> /\ Top = stack[n]
    BY DEF AtTerm, Shorter, Top
  <1>3. Top.rest \in Seq(Terms) /\ Top.name \in Names
    BY <1>1 DEF Frame
  <1>4. /\ Len(Top.rest) \in Nat \ {0} /\ Term = Top.rest[1]
        /\ Len(Tail(Top.rest)) = Len(Top.rest) - 1
        /\ \A i \in 1 .. Len(Tail(Top.rest)) : Tail(Top.rest)[i] = Top.rest[i + 1]
    BY <1>2, <1>3, EmptySeq, HeadTailProperties DEF Term
  <1>5. Shorter(Top).name = Top.name /\ Shorter(Top).rest = Tail(Top.rest)
    BY <1>1 DEF Shorter, Frame
  <1>6. DOMAIN stack' = DOMAIN stack /\ stack'[n] = Shorter(Top)
        /\ \A k \in DOMAIN stack : k # n => stack'[k] = stack[k]
    BY <1>1, <1>2
  <1>7. QED BY <1>1, <1>3, <1>4, <1>5, <1>6

\* The end of R out of L places.
LEMMA Places ==
    ASSUME NEW L \in Nat, NEW R \in Nat \ {0}, R <= L
    PROVE  /\ L - R + 1 \in 1 .. L /\ L - R + 1 > L - R /\ 1 \in 1 .. R
           /\ R - 1 <= L
  OBVIOUS

LEMMA TermAhead ==
    ASSUME WInv, FramesOK, NEW kinds, AtTerm(kinds)
    PROVE  LET N == Top.name
               j == Len(zone.txt[N]) - Len(Top.rest) + 1
           IN  /\ N \in seen /\ j \in DOMAIN zone.txt[N] /\ Term = zone.txt[N][j]
               /\ Ahead(N, j)
               /\ \A m, i : i \in DOMAIN zone.txt[m] /\ m \in seen =>
                     (Ahead(m, i)' <=> Ahead(m, i) /\ ~(m = N /\ i = j))
               /\ FramesOK'
  <1> DEFINE n == Len(stack)
             N == Top.name
             j == Len(zone.txt[N]) - Len(Top.rest) + 1
             L == Len(zone.txt[N])
             R == Len(Top.rest)
  <1>1. /\ n \in DOMAIN stack /\ DOMAIN stack' = DOMAIN stack
        /\ stack'[n].name = N /\ R \in Nat \ {0}
        /\ Len(stack'[n].rest) = R - 1
        /\ \A i \in 1 .. R - 1 : stack'[n].rest[i] = Top.rest[i + 1]
        /\ \A k \in DOMAIN stack : k # n => stack'[k] = stack[k]
        /\ Term = Top.rest[1] /\ N \in Names
    BY TopTerm
  <1>2. Top = stack[n] /\ UNCHANGED <<zone, seen>>
    BY DEF Top, AtTerm
  <1>3. /\ N \in seen /\ R <= L
        /\ \A i \in 1 .. R : Top.rest[i] = zone.txt[N][L - R + i]
        /\ \A h \in DOMAIN stack : stack[h].name = N => h = n
    BY <1>1, <1>2 DEF FramesOK
  <1>4. L \in Nat /\ DOMAIN zone.txt[N] = 1 .. L
    BY <1>1, RecordType DEF WInv
  <1>5. /\ j \in 1 .. L /\ j > L - R /\ 1 \in 1 .. R /\ R - 1 <= L
    <2>1. j = L - R + 1
      OBVIOUS
    <2> HIDE DEF L, R, j
    <2>2. QED BY <1>1, <1>3, <1>4, <2>1, Places
  <1>6. j \in 1 .. L /\ Term = zone.txt[N][j]
    <2>1. Top.rest[1] = zone.txt[N][L - R + 1]
      BY <1>3, <1>5
    <2>2. QED BY <1>1, <1>5, <2>1
  <1>7. Ahead(N, j)
    BY <1>1, <1>2, <1>5 DEF Ahead
  <1>8. ASSUME NEW m \in seen, NEW i \in DOMAIN zone.txt[m]
        PROVE  Ahead(m, i)' <=> Ahead(m, i) /\ ~(m = N /\ i = j)
    <2>1. CASE m # N
      <3>1. \A k \in DOMAIN stack : stack[k].name = m \/ stack'[k].name = m => stack'[k] = stack[k]
        BY <1>1, <1>2, <2>1
      <3>2. QED BY <1>1, <1>2, <2>1, <3>1 DEF Ahead
    <2>2. CASE m = N
      <3>1. i \in Int
        BY <1>4, <2>2
      <3>2. Ahead(m, i) <=> i > L - R
        BY <1>1, <1>2, <1>3, <2>2 DEF Ahead
      <3>3. \A h \in DOMAIN stack' : stack'[h].name = N => h = n
        BY <1>1, <1>3
      <3>4. Ahead(m, i)' <=> i > L - (R - 1)
        BY <1>1, <1>2, <2>2, <3>3 DEF Ahead
      <3>5. j = L - R + 1 /\ L \in Nat /\ R \in Nat
        BY <1>1, <1>4
      <3> HIDE DEF L, R, j
      <3>6. i > L - (R - 1) <=> i > L - R /\ i # j
        BY <3>1, <3>5
      <3>7. QED BY <2>2, <3>2, <3>4, <3>6
    <2>3. QED BY <2>1, <2>2
  <1>9. FramesOK'
    <2>1. SUFFICES ASSUME NEW k \in DOMAIN stack'
                   PROVE  LET m == stack'[k].name
                              r == stack'[k].rest
                          IN  /\ m \in seen
                              /\ Len(r) <= Len(zone.txt[m])
                              /\ \A i \in 1 .. Len(r) :
                                    r[i] = zone.txt[m][Len(zone.txt[m]) - Len(r) + i]
                              /\ \A h \in DOMAIN stack' : stack'[h].name = m => h = k
      BY <1>2 DEF FramesOK
    <2>2. \A h \in DOMAIN stack : stack'[h].name = stack[h].name
      BY <1>1, <1>2
    <2>3. CASE k # n
      <3>1. stack'[k] = stack[k] /\ k \in DOMAIN stack
        BY <1>1, <2>1, <2>3
      <3>2. LET m == stack[k].name
                r == stack[k].rest
            IN  /\ m \in seen
                /\ Len(r) <= Len(zone.txt[m])
                /\ \A i \in 1 .. Len(r) : r[i] = zone.txt[m][Len(zone.txt[m]) - Len(r) + i]
                /\ \A h \in DOMAIN stack : stack[h].name = m => h = k
        BY <3>1 DEF FramesOK
      <3>3. \A h \in DOMAIN stack' : stack'[h].name = stack[k].name => h = k
        BY <1>1, <2>2, <3>2
      <3>4. QED BY <3>1, <3>2, <3>3
    <2>4. CASE k = n
      <3>1. Len(stack'[k].rest) = R - 1 /\ stack'[k].name = N /\ R - 1 <= L
        BY <1>1, <1>5, <2>4
      <3>2. ASSUME NEW i \in 1 .. R - 1
            PROVE  stack'[k].rest[i] = zone.txt[N][L - (R - 1) + i]
        <4>1. i + 1 \in 1 .. R /\ L - R + (i + 1) = L - (R - 1) + i
          <5>1. L \in Nat /\ R \in Nat
            BY <1>1, <1>4
          <5> HIDE DEF L, R
          <5>2. QED BY <3>2, <5>1
        <4>2. stack'[k].rest[i] = Top.rest[i + 1]
          BY <1>1, <2>4
        <4>3. QED BY <1>3, <4>1, <4>2
      <3>3. \A h \in DOMAIN stack' : stack'[h].name = N => h = k
        BY <1>1, <1>3, <2>2, <2>4
      <3>4. QED BY <1>3, <3>1, <3>2, <3>3
    <2>5. QED BY <2>3, <2>4
  <1>10. QED BY <1>3, <1>4, <1>6, <1>7, <1>8, <1>9

\* What was counted belongs to the record of the domain.
LEMMA LookedIsCost ==
    ASSUME SpfTypeOK, seen \subseteq Reach(domain)
    PROVE  Cardinality(Looked) <= Cost(domain) /\ IsFiniteSet(Looked)
           /\ Cost(domain) \in Nat /\ Cardinality(Looked) \in Nat
  <1>1. seen \in SUBSET Names /\ Reach(domain) \in SUBSET Names
    BY DEF SpfTypeOK, Reach
  <1>2. LookUps(seen) \subseteq LookUps(Reach(domain)) /\ IsFiniteSet(LookUps(Reach(domain)))
    <2>1. \A p \in LookUps(seen) : p \in LookUps(Reach(domain))
      BY DEF LookUps
    <2>2. QED BY <1>1, <2>1, LookUpsAre
  <1>3. Looked \in SUBSET LookUps(Reach(domain))
    BY <1>2 DEF Looked
  <1>4. IsFiniteSet(Looked) /\ Cardinality(Looked) <= Cost(domain)
    BY <1>2, <1>3, FS_Subset DEF Cost
  <1>5. QED BY <1>2, <1>4, FS_CardinalityType DEF Cost

LEMMA LookedIsCostNext ==
    (SpfTypeOK /\ seen \subseteq Reach(domain)
       => /\ Cardinality(Looked) <= Cost(domain)
          /\ Cost(domain) \in Nat /\ Cardinality(Looked) \in Nat)'
  <1>1. SpfTypeOK /\ seen \subseteq Reach(domain)
          => /\ Cardinality(Looked) <= Cost(domain)
             /\ Cost(domain) \in Nat /\ Cardinality(Looked) \in Nat
    BY LookedIsCost
  <1>2. QED BY <1>1, PTL

LEMMA SameLooked ==
    ASSUME SpfTypeOK, SpfTypeOK', zone' = zone, seen \subseteq seen',
           \A n \in seen' : \A i \in DOMAIN zone.txt[n] :
               ~Ahead(n, i)' <=> n \in seen /\ ~Ahead(n, i)
    PROVE  Looked' = Looked
  <1>1. seen \in SUBSET Names /\ seen' \in SUBSET Names
    BY DEF SpfTypeOK
  <1>2. \A p \in LookUps(seen) : p = <<p[1], p[2]>> /\ p[1] \in seen /\ p[2] \in DOMAIN zone.txt[p[1]]
    BY <1>1, LookUpsAre
  <1>3. \A p \in LookUps(seen') : p = <<p[1], p[2]>> /\ p[1] \in seen' /\ p[2] \in DOMAIN zone.txt[p[1]]
    BY <1>1, LookUpsAre
  <1>4. \A p \in LookUps(seen') : p[1] \in seen => p \in LookUps(seen)
    BY <1>1, <1>3, LookUpsAre
  <1>5. \A p \in LookUps(seen) : p \in LookUps(seen')
    BY DEF LookUps
  <1>6. LookUps(seen)' = LookUps(seen')
    BY DEF LookUps
  <1>7. Looked' = {p \in LookUps(seen') : ~Ahead(p[1], p[2])'}
    BY <1>6 DEF Looked
  <1>8. QED BY <1>2, <1>3, <1>4, <1>5, <1>7 DEF Looked

\* A look-up that is made is counted once.
LEMMA LookedGrows ==
    ASSUME WInv, WorkOK, NEW kinds, AtTerm(kinds)
    PROVE  Cardinality(Looked') =
               Cardinality(Looked) + (IF Term.kind \in CostsLookUp THEN 1 ELSE 0)
  <1> DEFINE N == Top.name
             j == Len(zone.txt[N]) - Len(Top.rest) + 1
             new == IF Term.kind \in CostsLookUp THEN {<<N, j>>} ELSE {}
  <1>1. /\ N \in seen /\ j \in DOMAIN zone.txt[N] /\ Term = zone.txt[N][j] /\ Ahead(N, j)
        /\ \A m, i : i \in DOMAIN zone.txt[m] /\ m \in seen =>
              (Ahead(m, i)' <=> Ahead(m, i) /\ ~(m = N /\ i = j))
    BY TermAhead DEF WorkOK
  <1> HIDE DEF N, j
  <1>2. UNCHANGED <<zone, seen>> /\ seen \in SUBSET Names
    BY DEF AtTerm, WInv, SpfTypeOK
  <1>3. LookUps(seen)' = LookUps(seen)
    BY <1>2 DEF LookUps
  <1>4. /\ \A p \in LookUps(seen) : p = <<p[1], p[2]>> /\ p[1] \in seen /\ p[2] \in DOMAIN zone.txt[p[1]]
        /\ <<N, j>> \in LookUps(seen) <=> Term.kind \in CostsLookUp
    BY <1>1, <1>2, LookUpsAre DEF WInv
  <1>5. Looked' = {p \in LookUps(seen) : ~Ahead(p[1], p[2])'}
    BY <1>3 DEF Looked
  <1>6. Looked' = Looked \cup new
    <2>1. \A p \in LookUps(seen) : ~Ahead(p[1], p[2])' <=> ~Ahead(p[1], p[2]) \/ p = <<N, j>>
      BY <1>1, <1>4
    <2>2. QED BY <1>4, <1>5, <2>1 DEF Looked
  <1>7. <<N, j>> \notin Looked
    BY <1>1 DEF Looked
  <1>8. IsFiniteSet(Looked) /\ Cardinality(Looked) \in Nat
    BY LookedIsCost DEF WInv, WorkOK
  <1>9. CASE Term.kind \in CostsLookUp
    <2>1. Looked' = Looked \cup {<<N, j>>}
      BY <1>6, <1>9
    <2>2. QED BY <1>7, <1>8, <1>9, <2>1, FS_AddElement
  <1>10. CASE Term.kind \notin CostsLookUp
    BY <1>6, <1>8, <1>10
  <1>11. QED BY <1>9, <1>10

\* What was done stays done.
LEMMA TermDoneKept ==
    ASSUME SpfTypeOK, zone' = zone, networks \subseteq networks',
           \A h \in Names : h \in seen \cup {calling} => h \in seen' \cup {calling'},
           NEW n \in Names, NEW i \in DOMAIN zone.txt[n], TermDone(n, i)
    PROVE  TermDone(n, i)'
  <1>1. zone.txt[n][i] \in Terms
    BY RecordType
  <1>2. zone.txt[n][i].kind = "include" => zone.txt[n][i].host \in Names
    BY <1>1 DEF Terms
  <1>3. zone.txt[n][i].kind = "include" => zone.txt[n][i].host \in seen' \cup {calling'}
    BY <1>2 DEF TermDone
  <1> DEFINE t == zone.txt[n][i]
             h == Subject(n, t)
  <1>4. Found(zone, h, t) \subseteq networks'
    BY DEF TermDone
  <1> HIDE DEF h
  <1>5. Found(zone', h, t) = Found(zone, h, t)
    OBVIOUS
  <1> USE DEF h
  <1>6. QED BY <1>3, <1>4, <1>5 DEF TermDone

\* A term that is looked at, and done, leaves the count right.
LEMMA AtTermWork ==
    ASSUME WInv, WInv', WorkOK, NEW kinds, AtTerm(kinds), networks \subseteq networks',
           NEW N, N = Top.name, NEW j, j = Len(zone.txt[N]) - Len(Top.rest) + 1,
           TermDone(N, j)',
           budget' = budget - (IF Term.kind \in CostsLookUp THEN 1 ELSE 0)
    PROVE  WorkOK' /\ Cost(domain)' >= MaxTerms - budget'
  <1>1. /\ UNCHANGED <<zone, domain, seen>> /\ calling = Self
        /\ SpfTypeOK /\ SpfTypeOK' /\ MaxTerms \in Nat /\ budget \in Nat /\ budget' \in Int
    BY SpfAssumption DEF AtTerm, WInv, SpfTypeOK
  <1>2. Cardinality(Looked') = MaxTerms - budget'
    <2>1. Cardinality(Looked) = MaxTerms - budget
      BY DEF WorkOK
    <2>2. Cardinality(Looked') = Cardinality(Looked) + (IF Term.kind \in CostsLookUp THEN 1 ELSE 0)
      BY LookedGrows
    <2>3. QED BY <1>1, <2>1, <2>2
  <1>3. seen' \subseteq Reach(domain)' /\ (domain' # Self => domain' \in seen')
    BY <1>1, SameMeaning DEF WorkOK
  <1>4. Cost(domain)' >= MaxTerms - budget'
    <2>1. /\ Cardinality(Looked') <= Cost(domain)'
          /\ Cost(domain)' \in Nat /\ Cardinality(Looked') \in Nat
      BY <1>1, <1>3, LookedIsCostNext
    <2>2. QED BY <1>2, <2>1
  <1>5. FramesOK'
    BY TermAhead DEF WorkOK
  <1>6. ASSUME NEW n \in seen', NEW i \in DOMAIN zone'.txt[n], ~Ahead(n, i)'
        PROVE  TermDone(n, i)'
    <2>1. Ahead(n, i)' <=> Ahead(n, i) /\ ~(n = N /\ i = j)
      BY <1>1, <1>6, TermAhead DEF WorkOK
    <2>2. CASE n = N /\ i = j
      BY <2>2
    <2>3. CASE ~(n = N /\ i = j)
      <3>1. n \in seen /\ i \in DOMAIN zone.txt[n] /\ n \in Names /\ ~Ahead(n, i)
        BY <1>1, <1>6, <2>1, <2>3 DEF SpfTypeOK
      <3>2. TermDone(n, i)
        BY <3>1 DEF WorkOK
      <3>3. \A h \in Names : h \in seen \cup {calling} => h \in seen' \cup {calling'}
        BY <1>1, SpfAssumption
      <3>4. QED BY <1>1, <3>1, <3>2, <3>3, TermDoneKept
    <2>4. QED BY <2>2, <2>3
  <1>7. QED BY <1>2, <1>3, <1>4, <1>5, <1>6 DEF WorkOK

LEMMA IncludeEInv == ASSUME WInv, WInv', EInv, Include PROVE EInv'
  <1>0. PICK N, j : N = Top.name /\ j = Len(zone.txt[N]) - Len(Top.rest) + 1
    OBVIOUS
  <1>1. /\ AtTerm({"include"}) /\ budget' = budget - 1 /\ calling' = Term.host
        /\ UNCHANGED <<networks, lossy, zone, seen>> /\ budget \in Nat \ {0}
    BY DEF Include, AtTerm, WInv, SpfTypeOK
  <1>2. Term.kind = "include"
    BY <1>1, AtTermFacts
  <1>3. SUFFICES ASSUME ~lossy PROVE EInv'
    BY <1>1 DEF EInv
  <1>4. WorkOK
    BY <1>1, <1>3 DEF EInv
  <1>5. Term = zone.txt[N][j]
    BY <1>0, <1>1, <1>4, TermAhead DEF WorkOK
  <1>6. TermDone(N, j)'
    BY <1>1, <1>2, <1>5 DEF TermDone, Found
  <1>7. WorkOK' /\ Cost(domain)' >= MaxTerms - budget'
    BY <1>0, <1>1, <1>2, <1>4, <1>6, AtTermWork DEF CostsLookUp
  <1>8. MaxTerms \in Nat
    BY SpfAssumption
  <1>9. budget' = 0 => Cost(domain)' >= MaxTerms
    BY <1>7, <1>8
  <1>10. QED BY <1>7, <1>9 DEF EInv

LEMMA AddressesEInv == ASSUME WInv, WInv', EInv, Addresses PROVE EInv'
  <1>0. PICK N, j : N = Top.name /\ j = Len(zone.txt[N]) - Len(Top.rest) + 1
    OBVIOUS
  <1> DEFINE all == Found(zone, Host(N, Term), Term)
  <1>1. /\ AtTerm({"a", "mx", "a:/", "mx:/"}) /\ budget' = budget - 1 /\ calling' = calling
        /\ \E got \in SUBSET all : Answered(all, got) /\ networks' = networks \cup got
        /\ UNCHANGED <<zone, seen>> /\ budget \in Nat \ {0}
    BY <1>0 DEF Addresses, AtTerm, WInv, SpfTypeOK
  <1>2. Term.kind \in {"a", "mx", "a:/", "mx:/"}
    BY <1>1, AtTermFacts
  <1>3. SUFFICES ASSUME ~lossy' PROVE EInv'
    BY DEF EInv
  <1>4. ~lossy /\ networks' = networks \cup all
    BY <1>1, <1>3 DEF Answered
  <1>5. WorkOK
    BY <1>1, <1>4 DEF EInv
  <1>6. Term = zone.txt[N][j]
    BY <1>0, <1>1, <1>5, TermAhead DEF WorkOK
  <1>7. TermDone(N, j)'
    <2>1. all \subseteq networks' /\ Host(N, Term) = Subject(N, Term)
      BY <1>2, <1>4 DEF Host, Subject
    <2> DEFINE h == Subject(N, Term)
    <2>2. Found(zone, h, Term) \subseteq networks'
      BY <2>1
    <2> HIDE DEF h
    <2>3. Found(zone', h, Term) \subseteq networks'
      BY <1>1, <2>2
    <2>4. h = Subject(N, Term)
      BY DEF h
    <2>5. Term = zone'.txt[N][j]
      BY <1>1, <1>6
    <2>6. QED BY <1>2, <2>3, <2>4, <2>5 DEF TermDone
  <1>8. networks \subseteq networks'
    BY <1>4
  <1>9. WorkOK' /\ Cost(domain)' >= MaxTerms - budget'
    BY <1>0, <1>1, <1>2, <1>5, <1>7, <1>8, AtTermWork DEF CostsLookUp
  <1>10. MaxTerms \in Nat
    BY SpfAssumption
  <1>11. budget' = 0 => Cost(domain)' >= MaxTerms
    BY <1>9, <1>10
  <1>12. QED BY <1>9, <1>11 DEF EInv

LEMMA LiteralEInv == ASSUME WInv, WInv', EInv, Literal PROVE EInv'
  <1>0. PICK N, j : N = Top.name /\ j = Len(zone.txt[N]) - Len(Top.rest) + 1
    OBVIOUS
  <1>1. /\ AtTerm({"ip", "a/", "mx/", "other"}) /\ UNCHANGED <<budget, calling, lossy, zone, seen>>
        /\ networks' = networks \cup Found(zone, Self, Term) /\ budget \in Nat \ {0}
    BY DEF Literal, AtTerm, WInv, SpfTypeOK
  <1>2. Term.kind \in {"ip", "a/", "mx/", "other"}
    BY <1>1, AtTermFacts
  <1>3. SUFFICES ASSUME ~lossy PROVE EInv'
    BY <1>1 DEF EInv
  <1>4. WorkOK
    BY <1>1, <1>3 DEF EInv
  <1>5. Term = zone.txt[N][j]
    BY <1>0, <1>1, <1>4, TermAhead DEF WorkOK
  <1>6. TermDone(N, j)'
    <2>1. Found(zone', Subject(N, Term), Term) \subseteq networks'
      BY <1>1, <1>2 DEF Found
    <2>2. Term = zone'.txt[N][j]
      BY <1>1, <1>5
    <2>3. QED BY <1>2, <2>1, <2>2 DEF TermDone
  <1>7. networks \subseteq networks'
    BY <1>1
  <1>8. WorkOK'
    <2>1. Term.kind \notin CostsLookUp
      BY <1>2 DEF CostsLookUp
    <2>2. budget' = budget - (IF Term.kind \in CostsLookUp THEN 1 ELSE 0)
      BY <1>1, <2>1
    <2>3. QED BY <1>0, <1>1, <1>4, <1>6, <1>7, <2>2, AtTermWork
  <1>9. QED BY <1>1, <1>8 DEF EInv

\* A walk whose limit is met does not change what it costs.
LEMMA SameCost ==
    ASSUME UNCHANGED <<zone, domain>>
    PROVE  Cost(domain)' = Cost(domain)
  BY SameMeaning DEF Cost, LookUps

\* The frames of the calls that go on.
LEMMA StackType ==
    ASSUME SpfTypeOK
    PROVE  /\ stack \in Seq(Frame) /\ Len(stack) \in Nat /\ DOMAIN stack = 1 .. Len(stack)
           /\ \A k \in DOMAIN stack :
                 /\ stack[k].name \in Names
                 /\ Len(stack[k].rest) \in Nat
                 /\ stack[k].rest = << >> => Len(stack[k].rest) = 0
  <1>1. stack \in Seq(Frame)
    BY DEF SpfTypeOK, Frame
  <1>2. \A k \in DOMAIN stack : stack[k] \in Frame
    BY <1>1, LenProperties, ElementOfSeq
  <1>3. QED BY <1>1, <1>2, LenProperties DEF Frame

LEMMA ReturnEInv == ASSUME WInv, WInv', EInv, Return PROVE EInv'
  <1>1. /\ UNCHANGED <<zone, domain, budget, seen, networks, calling, lossy>>
        /\ stack # << >> /\ stack' = SubSeq(stack, 1, Len(stack) - 1) /\ budget \in Nat
    BY DEF Return, WInv, SpfTypeOK
  <1>2. SUFFICES ASSUME ~lossy, budget > 0 PROVE WorkOK'
    BY <1>1, SameCost DEF EInv
  <1>3. WorkOK /\ stack[Len(stack)].rest = << >>
    BY <1>1, <1>2 DEF EInv, Return, Top
  <1>4. /\ stack \in Seq(Frame) /\ Len(stack) \in Nat \ {0} /\ DOMAIN stack = 1 .. Len(stack)
    BY <1>1, StackType, EmptySeq DEF WInv
  <1>5. /\ DOMAIN stack' = 1 .. Len(stack) - 1
        /\ \A k \in 1 .. Len(stack) - 1 : stack'[k] = stack[k]
    <2>1. \A k \in 1 .. Len(stack) - 1 : stack[k] \in Frame
      BY <1>4, ElementOfSeq
    <2>2. /\ stack' \in Seq(Frame) /\ Len(stack') = Len(stack) - 1
          /\ \A k \in 1 .. Len(stack) - 1 : stack'[k] = stack[k]
      BY <1>1, <1>4, <2>1, SubSeqProperties
    <2>3. QED BY <2>2, LenProperties
  <1>6. \A k \in DOMAIN stack' : k \in DOMAIN stack /\ stack'[k] = stack[k]
    BY <1>4, <1>5
  <1>7. ASSUME NEW n \in seen, NEW i \in DOMAIN zone.txt[n]
        PROVE  Ahead(n, i)' <=> Ahead(n, i)
    <2>1. ASSUME Ahead(n, i)' PROVE Ahead(n, i)
      BY <1>1, <1>6, <2>1 DEF Ahead
    <2>2. ASSUME Ahead(n, i) PROVE Ahead(n, i)'
      <3>1. PICK k \in DOMAIN stack : stack[k].name = n /\ i > Len(zone.txt[n]) - Len(stack[k].rest)
        BY <2>2 DEF Ahead
      <3>2. k # Len(stack)
        <4>1. n \in Names
          BY DEF WInv, SpfTypeOK
        <4>2. i \in 1 .. Len(zone.txt[n]) /\ Len(zone.txt[n]) \in Nat
          BY <4>1, RecordType DEF WInv
        <4>3. SUFFICES ASSUME Len(stack[k].rest) = 0 PROVE FALSE
          BY <1>3, <1>4, StackType DEF WInv
        <4>4. QED BY <3>1, <4>2, <4>3
      <3>3. k \in DOMAIN stack' /\ stack'[k] = stack[k]
        BY <1>4, <1>5, <3>2
      <3>4. QED BY <1>1, <3>1, <3>3 DEF Ahead
    <2>3. QED BY <2>1, <2>2
  <1>8. Looked' = Looked
    BY <1>1, <1>7, SameLooked DEF WInv
  <1>9. FramesOK'
    <2>1. SUFFICES ASSUME NEW k \in DOMAIN stack'
                   PROVE  LET m == stack'[k].name
                              r == stack'[k].rest
                          IN  /\ m \in seen
                              /\ Len(r) <= Len(zone.txt[m])
                              /\ \A i \in 1 .. Len(r) :
                                    r[i] = zone.txt[m][Len(zone.txt[m]) - Len(r) + i]
                              /\ \A h \in DOMAIN stack' : stack'[h].name = m => h = k
      BY <1>1 DEF FramesOK
    <2>2. LET m == stack[k].name
              r == stack[k].rest
          IN  /\ m \in seen
              /\ Len(r) <= Len(zone.txt[m])
              /\ \A i \in 1 .. Len(r) : r[i] = zone.txt[m][Len(zone.txt[m]) - Len(r) + i]
              /\ \A h \in DOMAIN stack : stack[h].name = m => h = k
      BY <1>3, <1>6, <2>1 DEF WorkOK, FramesOK
    <2>3. stack'[k] = stack[k]
      BY <1>6, <2>1
    <2>4. \A h \in DOMAIN stack' : stack'[h].name = stack[k].name => h = k
      BY <1>6, <2>2
    <2>5. QED BY <2>2, <2>3, <2>4
  <1>10. ASSUME NEW n \in seen', NEW i \in DOMAIN zone'.txt[n], ~Ahead(n, i)'
         PROVE  TermDone(n, i)'
    <2>1. n \in seen /\ n \in Names /\ i \in DOMAIN zone.txt[n] /\ TermDone(n, i)
      BY <1>1, <1>3, <1>7, <1>10 DEF WorkOK, WInv, SpfTypeOK
    <2>2. SpfTypeOK
      BY DEF WInv
    <2>3. QED BY <1>1, <2>1, <2>2, TermDoneKept
  <1>11. Reach(domain)' = Reach(domain)
    BY <1>1, SameMeaning
  <1>12. QED BY <1>1, <1>3, <1>8, <1>9, <1>10, <1>11 DEF WorkOK

LEMMA EnterEInv == ASSUME WInv, WInv', EInv, Enter PROVE EInv'
  <1>1. /\ UNCHANGED <<zone, domain, budget, networks>> /\ calling' = Self
        /\ calling \in Names /\ calling \in Reach(domain) /\ budget \in Nat
        /\ SpfTypeOK /\ SpfTypeOK'
    BY DEF Enter, WInv, SpfTypeOK
  <1>2. SUFFICES ASSUME ~lossy', budget > 0 PROVE WorkOK'
    <2>1. ~lossy' => ~lossy
      BY DEF Enter, Answered
    <2>2. QED BY <1>1, <2>1, SameCost DEF EInv
  <1>3. ~lossy /\ WorkOK
    BY <1>1, <1>2 DEF Enter, Answered, EInv
  <1>4. seen' = seen \cup {calling}
    BY <1>1, <1>2 DEF Enter
  <1> DEFINE c == calling
             f == [name |-> c, rest |-> zone.txt[c]]
  <1>5. \/ c \in seen /\ stack' = stack
        \/ c \notin seen /\ stack' = Append(stack, f)
    <2>1. CASE c \in seen
      BY <1>2, <2>1 DEF Enter
    <2>2. CASE c \notin seen
      <3>1. PICK got \in SUBSET {c} : /\ Answered({c}, got)
                                      /\ stack' = IF got = {} THEN stack ELSE Append(stack, f)
        <4>1. ~(budget <= 0 \/ calling \in seen)
          BY <1>1, <1>2, <2>2
        <4>2. QED BY <4>1 DEF Enter
      <3>2. got = {c}
        BY <1>2, <3>1 DEF Answered
      <3>3. QED BY <2>2, <3>1, <3>2
    <2>3. QED BY <2>1, <2>2
  <1>6. f \in Frame /\ f.name = c /\ f.rest = zone.txt[c]
        /\ Len(zone.txt[c]) \in Nat /\ DOMAIN zone.txt[c] = 1 .. Len(zone.txt[c])
    BY <1>1, RecordType DEF Frame
  <1>7. stack \in Seq(Frame) /\ Len(stack) \in Nat /\ DOMAIN stack = 1 .. Len(stack)
    BY <1>1, StackType
  <1>8. \A k \in DOMAIN stack : stack[k].name \in seen
    BY <1>3 DEF WorkOK, FramesOK
  <1>9. c \notin seen => /\ DOMAIN stack' = DOMAIN stack \cup {Len(stack) + 1}
                         /\ stack'[Len(stack) + 1] = f
                         /\ \A k \in DOMAIN stack : stack'[k] = stack[k]
    <2> HIDE DEF f
    <2>1. SUFFICES ASSUME stack' = Append(stack, f)
                   PROVE  /\ DOMAIN stack' = DOMAIN stack \cup {Len(stack) + 1}
                          /\ stack'[Len(stack) + 1] = f
                          /\ \A k \in DOMAIN stack : stack'[k] = stack[k]
      BY <1>5
    <2>2. /\ stack' \in Seq(Frame) /\ Len(stack') = Len(stack) + 1
          /\ stack'[Len(stack) + 1] = f
          /\ \A k \in 1 .. Len(stack) : stack'[k] = stack[k]
      BY <1>6, <1>7, <2>1, AppendProperties
    <2>3. DOMAIN stack' = 1 .. Len(stack) + 1
      BY <2>2, LenProperties
    <2>4. QED BY <1>7, <2>2, <2>3
  <1>10. ASSUME NEW n \in seen', NEW i \in DOMAIN zone.txt[n]
         PROVE  ~Ahead(n, i)' <=> n \in seen /\ ~Ahead(n, i)
    <2>1. CASE c \in seen
      <3>1. stack' = stack /\ n \in seen
        BY <1>4, <1>5, <2>1
      <3>2. QED BY <1>1, <3>1 DEF Ahead
    <2>2. CASE c \notin seen /\ n = c
      <3>1. i > Len(zone.txt[n]) - Len(zone.txt[n])
        BY <1>6, <2>2
      <3>2. Len(stack) + 1 \in DOMAIN stack' /\ stack'[Len(stack) + 1] = f
        BY <1>9, <2>2
      <3>3. Ahead(n, i)'
        BY <1>1, <1>6, <2>2, <3>1, <3>2 DEF Ahead
      <3>4. QED BY <2>2, <3>3
    <2>3. CASE c \notin seen /\ n # c
      <3>1. n \in seen
        BY <1>4, <2>3
      <3>2. Ahead(n, i)' <=> Ahead(n, i)
        <4>1. \A k \in DOMAIN stack' : stack'[k].name = n => k \in DOMAIN stack /\ stack'[k] = stack[k]
          BY <1>6, <1>9, <2>3
        <4>2. \A k \in DOMAIN stack : k \in DOMAIN stack' /\ stack'[k] = stack[k]
          BY <1>9, <2>3
        <4>3. QED BY <1>1, <4>1, <4>2 DEF Ahead
      <3>3. QED BY <3>1, <3>2
    <2>4. QED BY <2>1, <2>2, <2>3
  <1>11. Looked' = Looked
    BY <1>1, <1>4, <1>10, SameLooked
  <1>12. FramesOK'
    <2>1. CASE c \in seen
      <3>1. stack' = stack /\ seen' = seen
        BY <1>4, <1>5, <2>1
      <3>2. QED BY <1>1, <1>3, <3>1 DEF WorkOK, FramesOK
    <2>2. CASE c \notin seen
      <3>1. SUFFICES ASSUME NEW k \in DOMAIN stack'
                     PROVE  LET m == stack'[k].name
                                r == stack'[k].rest
                            IN  /\ m \in seen'
                                /\ Len(r) <= Len(zone.txt[m])
                                /\ \A i \in 1 .. Len(r) :
                                      r[i] = zone.txt[m][Len(zone.txt[m]) - Len(r) + i]
                                /\ \A h \in DOMAIN stack' : stack'[h].name = m => h = k
        BY <1>1 DEF FramesOK
      <3>2. CASE k \in DOMAIN stack
        <4>1. stack'[k] = stack[k] /\ stack[k].name # c
          BY <1>8, <1>9, <2>2, <3>2
        <4>2. LET m == stack[k].name
                  r == stack[k].rest
              IN  /\ m \in seen
                  /\ Len(r) <= Len(zone.txt[m])
                  /\ \A i \in 1 .. Len(r) : r[i] = zone.txt[m][Len(zone.txt[m]) - Len(r) + i]
                  /\ \A h \in DOMAIN stack : stack[h].name = m => h = k
          BY <1>3, <3>2 DEF WorkOK, FramesOK
        <4>3. \A h \in DOMAIN stack' : stack'[h].name = stack[k].name => h = k
          BY <1>6, <1>9, <2>2, <4>1, <4>2
        <4>4. QED BY <1>4, <4>1, <4>2, <4>3
      <3>3. CASE k = Len(stack) + 1
        <4>1. stack'[k] = f
          BY <1>9, <2>2, <3>3
        <4>2. \A h \in DOMAIN stack' : stack'[h].name = c => h = k
          BY <1>8, <1>9, <2>2, <3>3
        <4>3. \A i \in 1 .. Len(zone.txt[c]) : Len(zone.txt[c]) - Len(zone.txt[c]) + i = i
          BY <1>6
        <4>4. QED BY <1>4, <1>6, <4>1, <4>2, <4>3
      <3>4. QED BY <1>9, <2>2, <3>2, <3>3
    <2>3. QED BY <2>1, <2>2
  <1>13. ASSUME NEW n \in seen', NEW i \in DOMAIN zone.txt[n], ~Ahead(n, i)'
         PROVE  TermDone(n, i)'
    <2>1. n \in seen /\ n \in Names /\ TermDone(n, i)
      BY <1>1, <1>3, <1>10, <1>13 DEF WorkOK, SpfTypeOK
    <2>2. \A h \in Names : h \in seen \cup {calling} => h \in seen' \cup {calling'}
      BY <1>4
    <2>3. QED BY <1>1, <2>1, <2>2, TermDoneKept
  <1>14. Reach(domain)' = Reach(domain)
    BY <1>1, SameMeaning
  <1>15. seen' \subseteq Reach(domain)' /\ (domain' # Self => domain' \in seen' \cup {calling'})
    BY <1>1, <1>3, <1>4, <1>14 DEF WorkOK
  <1>16. QED BY <1>1, <1>3, <1>11, <1>12, <1>13, <1>15 DEF WorkOK

LEMMA CostType == ASSUME SpfTypeOK PROVE Cost(domain) \in Nat
  <1>1. Reach(domain) \in SUBSET Names
    BY DEF Reach
  <1>2. QED BY <1>1, LookUpsAre, FS_CardinalityType DEF Cost

\* A walk that begins, or is over, has counted nothing.
LEMMA FreshWork ==
    ASSUME budget = MaxTerms, seen = {}, stack = << >>, calling = domain
    PROVE  WorkOK /\ budget # 0
  <1>1. DOMAIN stack = {}
    OBVIOUS
  <1>2. LookUps({}) = {}
    BY DEF LookUps
  <1>3. Looked = {} /\ Cardinality({}) = 0
    BY <1>2, FS_EmptySet DEF Looked
  <1>4. MaxTerms - budget = 0 /\ budget # 0
    BY SpfAssumption
  <1>5. QED BY <1>1, <1>3, <1>4 DEF WorkOK, FramesOK

LEMMA FreshWorkNext ==
    (budget = MaxTerms /\ seen = {} /\ stack = << >> /\ calling = domain
       => WorkOK /\ budget # 0)'
  <1>1. budget = MaxTerms /\ seen = {} /\ stack = << >> /\ calling = domain
          => WorkOK /\ budget # 0
    BY FreshWork
  <1>2. QED BY <1>1, PTL

LEMMA InitEInv == Init => EInv
  <1>1. SUFFICES ASSUME Init PROVE EInv
    OBVIOUS
  <1>2. domain = calling /\ budget = MaxTerms /\ seen = {} /\ stack = << >>
    BY <1>1 DEF Init, SpfInit
  <1>3. QED BY <1>2, FreshWork DEF EInv

\* Each step leaves what was counted right.
LEMMA NextEInv ==
    ASSUME WInv, WInv', EInv, [Next]_vars
    PROVE  EInv'
  <1>1. CASE UNCHANGED spfVars
    <2>1. UNCHANGED <<zone, domain, budget, seen, networks, stack, calling, lossy>>
      BY <1>1 DEF spfVars
    <2>2. SUFFICES ASSUME ~lossy, budget > 0 PROVE WorkOK'
      BY <2>1, SameCost DEF EInv
    <2>3. WorkOK
      BY <2>2 DEF EInv
    <2>4. Reach(domain)' = Reach(domain)
      BY <2>1, SameMeaning
    <2>5. \A n, i : Ahead(n, i)' <=> Ahead(n, i)
      BY <2>1 DEF Ahead
    <2>6. Looked' = Looked
      BY <2>1, <2>5, SameLooked DEF WInv
    <2>7. FramesOK'
      BY <2>1, <2>3 DEF WorkOK, FramesOK
    <2>8. ASSUME NEW n \in seen', NEW i \in DOMAIN zone'.txt[n], ~Ahead(n, i)'
          PROVE  TermDone(n, i)'
      <3>1. n \in Names /\ i \in DOMAIN zone.txt[n] /\ TermDone(n, i)
        BY <2>1, <2>3, <2>5, <2>8 DEF WorkOK, WInv, SpfTypeOK
      <3>2. SpfTypeOK
        BY DEF WInv
      <3>3. QED BY <2>1, <3>1, <3>2, TermDoneKept
    <2>9. QED BY <2>1, <2>3, <2>4, <2>6, <2>7, <2>8 DEF WorkOK
  <1>2. CASE (\E d \in Domains : Begin(d)) \/ Forget
    <2>1. /\ budget' = MaxTerms /\ seen' = {} /\ stack' = << >> /\ calling' = domain'
      BY <1>2 DEF Begin, Forget
    <2>2. QED BY <2>1, FreshWorkNext DEF EInv
  <1>3. CASE Walk
    BY <1>3, EnterEInv, IncludeEInv, AddressesEInv, LiteralEInv, ReturnEInv DEF Walk
  <1>4. (\E d \in Domains : Begin(d)) \/ Forget \/ Walk \/ UNCHANGED spfVars
    BY NextWalks
  <1>5. QED BY <1>1, <1>2, <1>3, <1>4

\* A walk that is over and lost nothing has looked at every term of the reachable
\* records, or has met the limit.
LEMMA WorkIsExact == WInv /\ EInv => WalkIsExact
  <1> DEFINE Complete ==
        \A n \in Reach(domain) : \A i \in DOMAIN zone.txt[n] :
            Meant(n, zone.txt[n][i]) \subseteq networks \cup GivenUp(n, zone.txt[n][i])
  <1>1. SUFFICES ASSUME WInv, EInv, Done, domain # Self, ~lossy
                 PROVE  /\ Used = IF Cost(domain) < MaxTerms THEN Cost(domain) ELSE MaxTerms
                        /\ Cost(domain) < MaxTerms => Complete
    BY DEF WalkIsExact
  <1>2. MaxTerms \in Nat \ {0} /\ budget \in 0 .. MaxTerms /\ SpfTypeOK
    BY <1>1, SpfAssumption DEF WInv, SpfTypeOK
  <1>3. CASE budget = 0
    <2>1. Used = MaxTerms
      BY <1>2, <1>3 DEF Used
    <2>2. Cost(domain) >= MaxTerms
      BY <1>1, <1>3 DEF EInv
    <2>3. Cost(domain) \in Nat
      BY <1>2, CostType
    <2>4. ~(Cost(domain) < MaxTerms)
      BY <1>2, <2>2, <2>3
    <2>5. QED BY <2>1, <2>4
  <1>4. CASE budget # 0
    <2>1. budget > 0 /\ WorkOK
      BY <1>1, <1>2, <1>4 DEF EInv
    <2>2. DOMAIN stack = {} /\ calling = Self
      BY <1>1, EmptySeq DEF Done
    <2>3. domain \in seen /\ seen \in SUBSET Names
      BY <1>1, <1>2, <2>1, <2>2 DEF WorkOK, SpfTypeOK
    <2>4. \A n \in seen : \A i \in DOMAIN zone.txt[n] : ~Ahead(n, i) /\ TermDone(n, i)
      BY <2>1, <2>2 DEF WorkOK, Ahead
    <2>5. Closed(seen)
      <3>1. SUFFICES ASSUME NEW n \in seen, NEW i \in DOMAIN zone.txt[n],
                            zone.txt[n][i].kind = "include"
                     PROVE  zone.txt[n][i].host \in seen
        BY DEF Closed
      <3>2. zone.txt[n][i] \in Terms
        BY <1>2, <2>3, RecordType
      <3>3. zone.txt[n][i].host \in Names
        BY <3>1, <3>2 DEF Terms
      <3>4. zone.txt[n][i].host \in seen \cup {Self}
        BY <2>2, <2>4, <3>1 DEF TermDone
      <3>5. QED BY <3>3, <3>4, SpfAssumption
    <2>6. Reach(domain) = seen
      <3>1. Reach(domain) \subseteq seen
        BY <2>3, <2>5 DEF Reach
      <3>2. QED BY <2>1, <3>1 DEF WorkOK
    <2>7. Looked = LookUps(seen)
      <3>1. \A p \in LookUps(seen) : ~Ahead(p[1], p[2])
        BY <2>2 DEF Ahead
      <3>2. QED BY <3>1 DEF Looked
    <2>8. Cost(domain) = MaxTerms - budget
      BY <2>1, <2>6, <2>7 DEF Cost, WorkOK
    <2>9. Complete
      <3>1. SUFFICES ASSUME NEW n \in seen, NEW i \in DOMAIN zone.txt[n]
                     PROVE  Meant(n, zone.txt[n][i]) \subseteq
                              networks \cup GivenUp(n, zone.txt[n][i])
        BY <2>6
      <3>2. zone.txt[n][i] \in Terms /\ n \in Names
        BY <1>2, <2>3, RecordType
      <3>3. Found(zone, Subject(n, zone.txt[n][i]), zone.txt[n][i]) \subseteq networks
        BY <2>4 DEF TermDone
      <3>4. QED BY <1>2, <3>2, <3>3, FoundIsMeant
    <2>10. Used = Cost(domain) /\ Cost(domain) < MaxTerms
      BY <1>2, <2>1, <2>8 DEF Used
    <2>11. QED BY <2>9, <2>10
  <1>5. QED BY <1>3, <1>4

\* An expansion that lost no answer reports each look-up of the reachable records
\* once, up to the limit, and below the limit it lists all their terms stand for,
\* except the later exchanges of an mx and terms with a prefix length: loops and
\* records that are included twice take nothing from it (spf.py,
\* expand_with_cost).
THEOREM ExpansionIsExact == Spec => []WalkIsExact
  <1>1. Init => WInv /\ EInv
    BY InitWInv, InitEInv
  <1>2. (WInv /\ EInv) /\ [Next]_vars => (WInv /\ EInv)'
    BY NextWInv, NextEInv
  <1>3. QED BY <1>1, <1>2, WorkIsExact, PTL DEF Spec
=============================================================================
