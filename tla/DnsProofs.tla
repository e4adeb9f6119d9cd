----------------------------- MODULE DnsProofs -----------------------------
(***************************************************************************)
(* What holds of the live check of DNS records for any records, addresses, *)
(* answers, threads and times.                                             *)
(***************************************************************************)
EXTENDS DnsCheck, SequenceTheorems, TLAPS

States == {"idle", "check", "store", "test", "index", "drop"}

\* Every thread has its locals.
Locals ==
    /\ pc \in [Threads -> States]
    /\ left \in [Threads -> Seq(Names)]
    /\ DOMAIN expect = Threads /\ DOMAIN asking = Threads /\ DOMAIN young = Threads
    /\ DOMAIN shown = Threads /\ DOMAIN since = Threads
    /\ DOMAIN cache = Names
    /\ \A t \in Threads :
          /\ pc[t] \in {"store", "index", "drop"} => left[t] # << >>
          /\ pc[t] = "idle" => shown[t] = NoValue

WorldOK ==
    /\ now \in 0 .. MaxTime
    /\ active \subseteq Addresses /\ retired \subseteq Addresses
    /\ active \cap retired = {} /\ Shared \notin active \cup retired
    /\ forced \in 0 .. now

\* An answer x of DNS for the record n is stored within one look-up, and those
\* from before the re-check at f are gone.
EntryOK(n, x, time, f) ==
    /\ x.value \in Answers[n]
    /\ x.asked \in Nat /\ x.at \in Nat
    /\ x.asked <= x.at /\ x.at <= time
    /\ x.at <= x.asked + MaxLookup
    /\ f <= x.asked + MaxLookup

Elems(s) == {s[i] : i \in DOMAIN s}

\* Whatever another thread stores meanwhile, what a re-check has passed is as
\* recent as a look-up that was under way.
Passed(t) == Names \ Elems(left[t])

CacheOK ==
    /\ \A n \in Names : cache[n] # NoValue => EntryOK(n, cache[n], now, forced)
    /\ \A t \in Threads : pc[t] = "drop" =>
          \A n \in Passed(t) : cache[n] # NoValue => now <= cache[n].asked + MaxLookup

AskingOK(t) ==
    pc[t] = "store" =>
        /\ asking[t].value \in Answers[Head(left[t])]
        /\ asking[t].asked \in Nat /\ asking[t].asked <= now
        /\ now <= asking[t].asked + MaxLookup

\* The addresses a check expects were not retired when it began.
ExpectOK(t) ==
    /\ expect[t].addresses \cap expect[t].retired = {}
    /\ NoValue \notin expect[t].addresses

ShownOK(t) ==
    /\ since[t] \in 0 .. forced
    /\ shown[t] # NoValue =>
          /\ shown[t].value \in Answers[shown[t].name]
          /\ shown[t].at - shown[t].asked < TTL + MaxLookup
          /\ shown[t].asked + MaxLookup >= since[t]
          /\ shown[t].status = Status(shown[t].name, shown[t].value, expect[t])

DInv ==
    /\ Locals /\ WorldOK /\ CacheOK
    /\ \A t \in Threads : AskingOK(t) /\ ExpectOK(t) /\ ShownOK(t)

-----------------------------------------------------------------------------
(* Lemmas.                                                                 *)

LEMMA RestOfSeq ==
    ASSUME NEW S, NEW s \in Seq(S), s # << >>
    PROVE  /\ Head(s) \in S /\ Tail(s) \in Seq(S)
           /\ Elems(s) = {Head(s)} \cup Elems(Tail(s))
           /\ Len(s) = 1 => Elems(Tail(s)) = {}
  <1>1. /\ Len(s) \in Nat \ {0} /\ DOMAIN s = 1 .. Len(s)
        /\ \A i \in 1 .. Len(s) : s[i] \in S
    BY LenProperties, EmptySeq, ElementOfSeq
  <1>2. /\ Head(s) = s[1] /\ Tail(s) \in Seq(S) /\ Len(Tail(s)) = Len(s) - 1
        /\ \A i \in 1 .. Len(Tail(s)) : Tail(s)[i] = s[i + 1]
    BY HeadTailProperties
  <1>3. DOMAIN Tail(s) = 1 .. Len(s) - 1
    BY <1>2, LenProperties
  <1>4. ASSUME NEW i \in DOMAIN s
        PROVE  s[i] = Head(s) \/ \E j \in DOMAIN Tail(s) : s[i] = Tail(s)[j]
    <2>1. CASE i = 1
      BY <2>1, <1>2
    <2>2. CASE i # 1
      <3>1. i - 1 \in DOMAIN Tail(s) /\ (i - 1) + 1 = i
        BY <1>1, <1>3, <2>2
      <3>2. QED BY <1>2, <1>3, <3>1
    <2>3. QED BY <2>1, <2>2
  <1>5. ASSUME NEW j \in DOMAIN Tail(s)
        PROVE  \E i \in DOMAIN s : s[i] = Tail(s)[j]
    <2>1. j + 1 \in DOMAIN s /\ s[j + 1] = Tail(s)[j]
      BY <1>1, <1>2, <1>3
    <2>2. QED BY <2>1
  <1>6. Head(s) = s[1] /\ 1 \in DOMAIN s
    BY <1>1, <1>2
  <1>7. Elems(s) \subseteq {Head(s)} \cup Elems(Tail(s))
    BY <1>4 DEF Elems
  <1>8. {Head(s)} \cup Elems(Tail(s)) \subseteq Elems(s)
    BY <1>5, <1>6 DEF Elems
  <1>9. Len(s) = 1 => Elems(Tail(s)) = {}
    BY <1>3 DEF Elems
  <1>10. QED BY <1>1, <1>2, <1>6, <1>7, <1>8, <1>9

LEMMA InitDInv == Init => DInv
  <1>1. SUFFICES ASSUME Init PROVE DInv
    OBVIOUS
  <1>2. Locals
    BY <1>1 DEF Init, Locals, States
  <1>3. WorldOK
    BY <1>1, DnsAssumption DEF Init, WorldOK
  <1>4. CacheOK
    BY <1>1 DEF Init, CacheOK
  <1>5. ASSUME NEW t \in Threads PROVE AskingOK(t) /\ ExpectOK(t) /\ ShownOK(t)
    BY <1>1 DEF Init, AskingOK, ExpectOK, ShownOK, NoExpect
  <1>6. QED BY <1>2, <1>3, <1>4, <1>5 DEF DInv

LEMMA TickDInv == ASSUME DInv, Tick PROVE DInv'
  <1>1. /\ UNCHANGED <<active, retired, cache, forced, pc, left, expect, asking, young,
                       shown, since>>
        /\ now' = now + 1 /\ now < MaxTime /\ now \in Nat /\ MaxTime \in Nat
        /\ MaxLookup \in Nat
        /\ \A t \in Threads :
              pc[t] # "drop" /\ (pc[t] = "store" => now < asking[t].asked + MaxLookup)
    BY DnsAssumption DEF Tick, thread, DInv, WorldOK
  <1>2. Locals'
    BY <1>1 DEF DInv, Locals
  <1>3. WorldOK'
    BY <1>1 DEF DInv, WorldOK
  <1>4. CacheOK'
    BY <1>1 DEF DInv, CacheOK, EntryOK
  <1>5. ASSUME NEW t \in Threads PROVE (AskingOK(t) /\ ExpectOK(t) /\ ShownOK(t))'
    <2>1. AskingOK(t)'
      BY <1>1 DEF DInv, AskingOK
    <2>2. ExpectOK(t)' /\ ShownOK(t)'
      BY <1>1 DEF DInv, ExpectOK, ShownOK
    <2>3. QED BY <2>1, <2>2
  <1>6. QED BY <1>2, <1>3, <1>4, <1>5 DEF DInv

LEMMA AddressDInv ==
    ASSUME DInv, NEW a \in Addresses, MintAddress(a) \/ DeactivateAddress(a)
    PROVE  DInv'
  <1>1. UNCHANGED <<now, cache, forced, pc, left, expect, asking, young, shown, since>>
    BY DEF MintAddress, DeactivateAddress, thread
  <1>2. WorldOK'
    <2>1. CASE MintAddress(a)
      <3>1. a \notin active \cup retired /\ a # Shared
        BY <2>1, DnsAssumption DEF MintAddress
      <3>2. QED BY <1>1, <2>1, <3>1 DEF MintAddress, DInv, WorldOK
    <2>2. CASE DeactivateAddress(a)
      BY <1>1, <2>2 DEF DeactivateAddress, DInv, WorldOK
    <2>3. QED BY <2>1, <2>2
  <1>3. QED BY <1>1, <1>2
           DEF DInv, Locals, CacheOK, EntryOK, Passed, AskingOK, ExpectOK, ShownOK

\* A step of one thread that leaves the clock, the addresses and the other
\* threads alone, and stores at most a recent answer.
Private(t) ==
    /\ UNCHANGED <<now, active, retired>>
    /\ \A r \in Threads : r # t =>
          /\ pc'[r] = pc[r] /\ left'[r] = left[r] /\ expect'[r] = expect[r]
          /\ asking'[r] = asking[r] /\ shown'[r] = shown[r] /\ since'[r] = since[r]
    /\ forced' \in {forced, now}
    /\ \A n \in Names :
          \/ cache'[n] = cache[n] \/ cache'[n] = NoValue
          \/ EntryOK(n, cache'[n], now, forced) /\ now <= cache'[n].asked + MaxLookup

LEMMA PrivateDInv ==
    ASSUME DInv, NEW t \in Threads, Private(t), Locals',
           forced' = forced \/ \A n \in Names :
               cache'[n] # NoValue => now <= cache'[n].asked + MaxLookup,
           pc'[t] = "drop" => \A n \in Passed(t)' :
               cache'[n] # NoValue => now <= cache'[n].asked + MaxLookup,
           AskingOK(t)', ExpectOK(t)', ShownOK(t)'
    PROVE  DInv'
  <1>1. now' = now /\ now \in Nat /\ forced \in 0 .. now /\ forced' \in 0 .. now
        /\ forced' >= forced
    BY DEF DInv, WorldOK, Private
  <1>2. WorldOK'
    BY <1>1 DEF DInv, WorldOK, Private
  <1>3. ASSUME NEW n \in Names, cache'[n] # NoValue PROVE EntryOK(n, cache'[n], now', forced')
    <2>1. EntryOK(n, cache'[n], now, forced)
      BY <1>3 DEF DInv, CacheOK, Private
    <2>2. CASE forced' = forced
      BY <1>1, <2>1, <2>2 DEF EntryOK
    <2>3. CASE forced' # forced
      <3>1. forced' = now /\ now <= cache'[n].asked + MaxLookup
        BY <1>3, <2>3 DEF Private
      <3>2. QED BY <1>1, <2>1, <3>1 DEF EntryOK
    <2>4. QED BY <2>2, <2>3
  <1>4. ASSUME NEW r \in Threads, pc'[r] = "drop", NEW n \in Passed(r)', cache'[n] # NoValue
        PROVE  now' <= cache'[n].asked + MaxLookup
    <2>1. CASE r = t
      BY <1>1, <1>4, <2>1
    <2>2. CASE r # t
      <3>1. pc[r] = "drop" /\ n \in Passed(r) /\ n \in Names
        BY <1>4, <2>2 DEF Private, Passed
      <3>2. QED BY <1>1, <1>4, <3>1 DEF Private, DInv, CacheOK
    <2>3. QED BY <2>1, <2>2
  <1>5. CacheOK'
    BY <1>3, <1>4 DEF CacheOK
  <1>6. ASSUME NEW r \in Threads PROVE (AskingOK(r) /\ ExpectOK(r) /\ ShownOK(r))'
    <2>1. CASE r = t
      BY <2>1
    <2>2. CASE r # t
      <3>1. AskingOK(r) /\ ExpectOK(r) /\ ShownOK(r)
        BY DEF DInv
      <3>2. AskingOK(r)' /\ ExpectOK(r)'
        BY <1>1, <2>2, <3>1 DEF Private, AskingOK, ExpectOK
      <3>3. ShownOK(r)'
        BY <1>1, <2>2, <3>1 DEF Private, ShownOK
      <3>4. QED BY <3>2, <3>3
    <2>3. QED BY <2>1, <2>2
  <1>7. QED BY <1>2, <1>5, <1>6 DEF DInv

\* A thread goes on to the state x with the names l still to do.
LEMMA OneThread ==
    ASSUME Locals, NEW t \in Threads, NEW x \in States, NEW l \in Seq(Names),
           pc' = [pc EXCEPT ![t] = x], left' = [left EXCEPT ![t] = l],
           DOMAIN expect' = Threads, DOMAIN asking' = Threads, DOMAIN young' = Threads,
           DOMAIN shown' = Threads, DOMAIN since' = Threads, DOMAIN cache' = Names,
           \A r \in Threads : r # t => shown'[r] = shown[r],
           x \in {"store", "index", "drop"} => l # << >>,
           x = "idle" => shown'[t] = NoValue
    PROVE  Locals'
  <1>1. pc' \in [Threads -> States] /\ left' \in [Threads -> Seq(Names)]
    BY DEF Locals
  <1>2. ASSUME NEW r \in Threads
        PROVE  /\ pc'[r] \in {"store", "index", "drop"} => left'[r] # << >>
               /\ pc'[r] = "idle" => shown'[r] = NoValue
    <2>1. CASE r = t
      <3>1. pc'[r] = x /\ left'[r] = l
        BY <2>1 DEF Locals
      <3>2. QED BY <2>1, <3>1
    <2>2. CASE r # t
      <3>1. pc'[r] = pc[r] /\ left'[r] = left[r] /\ shown'[r] = shown[r]
        BY <2>2 DEF Locals
      <3>2. QED BY <3>1 DEF Locals
    <2>3. QED BY <2>1, <2>2
  <1>3. QED BY <1>1, <1>2 DEF Locals

\* What a step leaves alone.
LEMMA StepLocals ==
    ASSUME DInv, NEW t \in Threads, Verify(t) \/ Recheck(t) \/ Step(t)
    PROVE  /\ Locals'
           /\ UNCHANGED <<now, active, retired>>
           /\ \A r \in Threads : r # t =>
                 /\ pc'[r] = pc[r] /\ left'[r] = left[r] /\ expect'[r] = expect[r]
                 /\ asking'[r] = asking[r] /\ shown'[r] = shown[r] /\ since'[r] = since[r]
  <1> USE DEF Goto, Finish, Skip, Show, world
  <1>1. /\ pc \in [Threads -> States] /\ left \in [Threads -> Seq(Names)]
        /\ DOMAIN expect = Threads /\ DOMAIN asking = Threads /\ DOMAIN young = Threads
        /\ DOMAIN shown = Threads /\ DOMAIN since = Threads /\ DOMAIN cache = Names
        /\ \A r \in Threads :
              /\ pc[r] \in {"store", "index", "drop"} => left[r] # << >>
              /\ pc[r] = "idle" => shown[r] = NoValue
    BY DEF DInv, Locals
  <1>2. Required \in Seq(Names) /\ Required # << >> /\ << >> \in Seq(Names)
    BY DnsAssumption, EmptySeq
  <1>3. left[t] # << >> => Tail(left[t]) \in Seq(Names)
    BY <1>1, RestOfSeq
  <1>4. UNCHANGED <<now, active, retired>>
    BY DEF Verify, Recheck, Step, Hit, Ask, Store, EndCheck, Test, Index, IndexError,
           EndAge, Drop
  <1>5. \A r \in Threads : r # t =>
           /\ pc'[r] = pc[r] /\ left'[r] = left[r] /\ expect'[r] = expect[r]
           /\ asking'[r] = asking[r] /\ shown'[r] = shown[r] /\ since'[r] = since[r]
    <2>1. CASE Verify(t) \/ Recheck(t)
      BY <1>1, <2>1 DEF Verify, Recheck
    <2>2. CASE Hit(t) \/ Ask(t) \/ Store(t) \/ EndCheck(t)
      BY <1>1, <2>2 DEF Hit, Ask, Store, EndCheck
    <2>3. CASE Test(t) \/ Index(t) \/ IndexError(t) \/ EndAge(t) \/ Drop(t)
      BY <1>1, <2>3 DEF Test, Index, IndexError, EndAge, Drop
    <2>4. QED BY <2>1, <2>2, <2>3 DEF Step
  <1>6. Locals'
    <2>1. CASE Verify(t)
      BY <1>1, <1>2, <2>1 DEF Verify, Locals, States
    <2>2. CASE Recheck(t)
      BY <1>1, <1>2, <2>2 DEF Recheck, Locals, States
    <2>3. CASE Hit(t)
      BY <1>1, <1>3, <2>3 DEF Hit, Locals, States
    <2>4. CASE Ask(t)
      BY <1>1, <2>4 DEF Ask, Locals, States
    <2>5. CASE Store(t)
      BY <1>1, <1>3, <2>5 DEF Store, Locals, States
    <2>6. CASE EndCheck(t) \/ IndexError(t)
      <3>1. Finish(t) /\ UNCHANGED <<cache, asking>>
        BY <2>6 DEF EndCheck, IndexError
      <3>2. QED BY <1>1, <1>2, <3>1 DEF Locals, States
    <2>7. CASE Test(t)
      BY <1>1, <1>3, <2>7 DEF Test, Locals, States
    <2>8. CASE Index(t)
      BY <1>1, <1>3, <2>8 DEF Index, Locals, States
    <2>9. CASE EndAge(t)
      <3>1. CASE TooSoon(t)
        <4>1. Finish(t) /\ UNCHANGED <<cache, asking>>
          BY <2>9, <3>1 DEF EndAge
        <4>2. QED BY <1>1, <1>2, <4>1 DEF Locals, States
      <3>2. CASE ~TooSoon(t)
        <4>1. /\ pc[t] = "test" /\ pc' = [pc EXCEPT ![t] = "drop"]
              /\ left' = [left EXCEPT ![t] = Required]
              /\ UNCHANGED <<expect, young, shown, since, cache, asking>>
          BY <2>9, <3>2 DEF EndAge
        <4>2. Locals /\ "drop" \in States
          BY DEF DInv, States
        <4>3. QED BY <1>1, <1>2, <4>1, <4>2, OneThread
      <3>3. QED BY <3>1, <3>2
    <2>10. CASE Drop(t)
      <3>1. Locals
        BY DEF DInv
      <3>2. pc[t] = "drop" /\ left[t] # << >> /\ left[t] \in Seq(Names) /\ DOMAIN cache' = Names
        BY <1>1, <2>10 DEF Drop
      <3>3. CASE Len(left[t]) = 1
        <4>1. /\ pc' = [pc EXCEPT ![t] = "idle"] /\ left' = [left EXCEPT ![t] = << >>]
              /\ expect' = [expect EXCEPT ![t] = NoExpect] /\ asking' = asking
              /\ young' = [young EXCEPT ![t] = {}]
              /\ shown' = [shown EXCEPT ![t] = NoValue] /\ since' = [since EXCEPT ![t] = 0]
          BY <2>10, <3>3 DEF Drop
        <4>2. /\ DOMAIN expect' = Threads /\ DOMAIN asking' = Threads /\ DOMAIN young' = Threads
              /\ DOMAIN shown' = Threads /\ DOMAIN since' = Threads
              /\ shown'[t] = NoValue /\ \A r \in Threads : r # t => shown'[r] = shown[r]
          BY <1>1, <4>1
        <4>3. "idle" \in States
          BY DEF States
        <4>4. QED BY <1>2, <3>1, <3>2, <4>1, <4>2, <4>3, OneThread
      <3>4. CASE Len(left[t]) # 1
        <4>1. Tail(left[t]) \in Seq(Names) /\ Tail(left[t]) # << >>
          <5>1. Len(left[t]) \in Nat \ {0, 1}
            BY <3>2, <3>4, LenProperties, EmptySeq
          <5>2. Len(Tail(left[t])) = Len(left[t]) - 1
            BY <3>2, HeadTailProperties
          <5>3. Tail(left[t]) \in Seq(Names) /\ Len(Tail(left[t])) # 0
            BY <1>3, <3>2, <5>1, <5>2
          <5>4. QED BY <5>3, EmptySeq
        <4>2. /\ left' = [left EXCEPT ![t] = Tail(left[t])]
              /\ UNCHANGED <<pc, expect, asking, young, shown, since>>
          BY <2>10, <3>4 DEF Drop
        <4>3. pc' = [pc EXCEPT ![t] = "drop"] /\ "drop" \in States
          BY <1>1, <3>2, <4>2 DEF States
        <4>4. QED BY <1>1, <3>1, <3>2, <4>1, <4>2, <4>3, OneThread
      <3>5. QED BY <3>3, <3>4
    <2>11. QED BY <2>1, <2>2, <2>3, <2>4, <2>5, <2>6, <2>7, <2>8, <2>9, <2>10 DEF Step
  <1>7. QED BY <1>4, <1>5, <1>6

\* An answer in hand is judged.
LEMMA ShowOK ==
    ASSUME DInv, NEW t \in Threads, NEW n \in Names, NEW x,
           Show(t, n, x), since'[t] = since[t], expect'[t] = expect[t], forced' = forced,
           x.value \in Answers[n], x.asked \in Nat,
           now - x.asked < TTL + MaxLookup, forced <= x.asked + MaxLookup
    PROVE  ShownOK(t)'
  <1>1. shown'[t] = [name |-> n, value |-> x.value, asked |-> x.asked, at |-> now,
                     status |-> Status(n, x.value, expect[t])]
    BY DEF DInv, Locals, Show
  <1>2. since[t] \in 0 .. forced /\ forced \in Nat /\ MaxLookup \in Nat
    BY DnsAssumption DEF DInv, ShownOK, WorldOK
  <1>3. x.asked + MaxLookup >= since[t]
    BY <1>2
  <1>4. QED BY <1>1, <1>2, <1>3 DEF ShownOK

LEMMA StepDInv ==
    ASSUME DInv, NEW t \in Threads, Verify(t) \/ Recheck(t) \/ Step(t)
    PROVE  DInv'
  <1>1. /\ Locals' /\ UNCHANGED <<now, active, retired>>
        /\ \A r \in Threads : r # t =>
              /\ pc'[r] = pc[r] /\ left'[r] = left[r] /\ expect'[r] = expect[r]
              /\ asking'[r] = asking[r] /\ shown'[r] = shown[r] /\ since'[r] = since[r]
    BY StepLocals
  <1>2. /\ pc \in [Threads -> States] /\ left \in [Threads -> Seq(Names)]
        /\ DOMAIN expect = Threads /\ DOMAIN asking = Threads
        /\ DOMAIN shown = Threads /\ DOMAIN since = Threads /\ DOMAIN cache = Names
        /\ \A r \in Threads : pc[r] \in {"store", "index", "drop"} => left[r] # << >>
    BY DEF DInv, Locals
  <1>3. /\ now \in Nat /\ forced \in 0 .. now /\ TTL \in Nat /\ TTL > 0 /\ MaxLookup \in Nat
    BY DnsAssumption DEF DInv, WorldOK
  <1>4. AskingOK(t) /\ ExpectOK(t) /\ ShownOK(t) /\ CacheOK
    BY DEF DInv
  <1>5. left[t] # << >> => Head(left[t]) \in Names
    BY <1>2, RestOfSeq
  \* A step that leaves the cache alone.
  <1>6. ASSUME UNCHANGED <<cache, forced>>, pc'[t] # "drop",
               AskingOK(t)', ExpectOK(t)', ShownOK(t)'
        PROVE  DInv'
    BY <1>1, <1>6, PrivateDInv DEF Private
  <1>7. CASE Verify(t)
    <2>1. /\ UNCHANGED <<cache, forced>> /\ pc'[t] = "check" /\ expect'[t] = Expected
          /\ since'[t] = forced /\ shown'[t] = NoValue
      BY <1>2, <1>7 DEF Verify, Goto, DInv, Locals
    <2>2. ExpectOK(t)'
      BY <2>1, DnsAssumption DEF ExpectOK, Expected, DInv, WorldOK
    <2>3. ShownOK(t)' /\ AskingOK(t)'
      BY <1>3, <2>1 DEF ShownOK, AskingOK
    <2>4. QED BY <1>6, <2>1, <2>2, <2>3
  <1>8. CASE Recheck(t) \/ Test(t) \/ Index(t)
    <2>1. /\ UNCHANGED <<cache, forced>> /\ pc'[t] \in {"test", "index"}
          /\ expect'[t] = expect[t] /\ since'[t] = since[t] /\ shown'[t] = shown[t]
      BY <1>2, <1>8 DEF Recheck, Test, Index, Goto
    <2>2. ExpectOK(t)' /\ ShownOK(t)' /\ AskingOK(t)'
      BY <1>4, <2>1 DEF ExpectOK, ShownOK, AskingOK
    <2>3. QED BY <1>6, <2>1, <2>2
  <1>9. CASE Hit(t)
    <2> DEFINE n == Head(left[t])
    <2>1. /\ UNCHANGED <<cache, forced>> /\ pc'[t] = "check" /\ pc[t] = "check"
          /\ expect'[t] = expect[t] /\ since'[t] = since[t] /\ n \in Names
          /\ Live(n) /\ Show(t, n, cache[n])
      BY <1>2, <1>5, <1>9 DEF Hit
    <2>2. EntryOK(n, cache[n], now, forced) /\ now - cache[n].at < TTL
      BY <1>4, <2>1 DEF CacheOK, Live
    <2>3. now - cache[n].asked < TTL + MaxLookup
      BY <1>3, <2>2 DEF EntryOK
    <2>4. ShownOK(t)'
      BY <2>1, <2>2, <2>3, ShowOK DEF EntryOK
    <2>5. ExpectOK(t)' /\ AskingOK(t)'
      BY <1>4, <2>1 DEF ExpectOK, AskingOK
    <2>6. QED BY <1>6, <2>1, <2>4, <2>5
  <1>10. CASE Ask(t)
    <2>1. /\ UNCHANGED <<cache, forced>> /\ pc'[t] = "store" /\ left'[t] = left[t]
          /\ expect'[t] = expect[t] /\ since'[t] = since[t] /\ shown'[t] = shown[t]
          /\ asking'[t].value \in Answers[Head(left[t])] /\ asking'[t].asked = now
      BY <1>2, <1>10 DEF Ask, Goto
    <2>2. AskingOK(t)'
      BY <1>1, <1>3, <2>1 DEF AskingOK
    <2>3. ExpectOK(t)' /\ ShownOK(t)'
      BY <1>4, <2>1 DEF ExpectOK, ShownOK
    <2>4. QED BY <1>6, <2>1, <2>2, <2>3
  <1>11. CASE Store(t)
    <2> DEFINE n == Head(left[t])
               x == asking[t]
               e == [value |-> x.value, asked |-> x.asked, at |-> now]
    <2>1. /\ pc[t] = "store" /\ pc'[t] = "check" /\ forced' = forced
          /\ cache' = [cache EXCEPT ![n] = e] /\ n \in Names
          /\ expect'[t] = expect[t] /\ since'[t] = since[t] /\ Show(t, n, x)
      BY <1>2, <1>5, <1>11 DEF Store, Goto
    <2>2. /\ x.value \in Answers[n] /\ x.asked \in Nat /\ x.asked <= now
          /\ now <= x.asked + MaxLookup
      BY <1>4, <2>1 DEF AskingOK
    <2>3. EntryOK(n, e, now, forced) /\ now <= e.asked + MaxLookup
      BY <1>3, <2>2 DEF EntryOK
    <2>4. ShownOK(t)'
      <3>1. now - x.asked < TTL + MaxLookup /\ forced <= x.asked + MaxLookup
        BY <1>3, <2>2
      <3>2. QED BY <2>1, <2>2, <3>1, ShowOK
    <2>5. ExpectOK(t)' /\ AskingOK(t)'
      BY <1>4, <2>1 DEF ExpectOK, AskingOK
    <2>6. \A m \in Names : cache'[m] = IF m = n THEN e ELSE cache[m]
      BY <1>2, <2>1
    <2>7. Private(t)
      <3> HIDE DEF e
      <3>1. QED BY <1>1, <2>1, <2>3, <2>6 DEF Private
    <2>8. QED BY <1>1, <2>1, <2>4, <2>5, <2>7, PrivateDInv
  <1>12. CASE EndCheck(t) \/ IndexError(t)
    <2>1. /\ UNCHANGED <<cache, forced>> /\ Finish(t)
      BY <1>12 DEF EndCheck, IndexError
    <2>2. /\ pc'[t] = "idle" /\ expect'[t] = NoExpect /\ shown'[t] = NoValue /\ since'[t] = 0
      BY <1>2, <2>1 DEF Finish, Goto
    <2>3. ExpectOK(t)' /\ ShownOK(t)' /\ AskingOK(t)'
      BY <1>3, <2>1, <2>2 DEF ExpectOK, NoExpect, ShownOK, AskingOK
    <2>4. QED BY <1>6, <2>1, <2>2, <2>3
  <1>13. CASE EndAge(t)
    <2>1. UNCHANGED <<cache, forced>>
      BY <1>13 DEF EndAge
    <2>2. CASE ~ TooSoon(t)
      <3>1. /\ pc'[t] = "drop" /\ left'[t] = Required /\ expect'[t] = expect[t]
            /\ shown'[t] = shown[t] /\ since'[t] = since[t]
        BY <1>2, <1>13, <2>2 DEF EndAge, Goto
      <3>2. Passed(t)' = {}
        BY <3>1 DEF Passed, Elems, Names
      <3>3. ExpectOK(t)' /\ ShownOK(t)' /\ AskingOK(t)'
        BY <1>4, <2>1, <3>1 DEF ExpectOK, ShownOK, AskingOK
      <3>4. Private(t)
        BY <1>1, <2>1 DEF Private
      <3>5. QED BY <1>1, <2>1, <3>2, <3>3, <3>4, PrivateDInv
    <2>3. CASE TooSoon(t)
      <3>1. /\ pc'[t] = "idle" /\ expect'[t] = NoExpect /\ shown'[t] = NoValue /\ since'[t] = 0
        BY <1>2, <1>13, <2>3 DEF EndAge, Finish, Goto
      <3>2. ExpectOK(t)' /\ ShownOK(t)' /\ AskingOK(t)'
        BY <1>3, <2>1, <3>1 DEF ExpectOK, NoExpect, ShownOK, AskingOK
      <3>3. QED BY <1>6, <2>1, <3>1, <3>2
    <2>4. QED BY <2>2, <2>3
  <1>14. CASE Drop(t)
    <2> DEFINE n == Head(left[t])
    <2>1. /\ pc[t] = "drop" /\ left[t] # << >> /\ n \in Names
          /\ cache' = [cache EXCEPT ![n] = NoValue]
      BY <1>2, <1>5, <1>14 DEF Drop
    <2>2. \A m \in Names : cache'[m] = IF m = n THEN NoValue ELSE cache[m]
      BY <1>2, <2>1
    <2>3. \A m \in Passed(t) \cup {n} : cache'[m] # NoValue => now <= cache'[m].asked + MaxLookup
      BY <1>4, <2>1, <2>2 DEF CacheOK, Passed
    <2>4. /\ Names \ Elems(Tail(left[t])) \subseteq Passed(t) \cup {n}
          /\ Len(left[t]) = 1 => Elems(Tail(left[t])) = {}
      <3>1. left[t] \in Seq(Names) /\ left[t] # << >>
        BY <1>2, <2>1
      <3>2. /\ Elems(left[t]) = {n} \cup Elems(Tail(left[t]))
            /\ Len(left[t]) = 1 => Elems(Tail(left[t])) = {}
        BY <3>1, RestOfSeq
      <3>3. QED BY <3>2 DEF Passed
    <2>5. CASE Len(left[t]) = 1
      <3>1. /\ pc'[t] = "idle" /\ expect'[t] = NoExpect /\ shown'[t] = NoValue /\ since'[t] = 0
            /\ forced' = now
        BY <1>2, <1>14, <2>5 DEF Drop, Finish, Goto
      <3>2. ExpectOK(t)' /\ ShownOK(t)' /\ AskingOK(t)'
        BY <1>3, <3>1 DEF ExpectOK, NoExpect, ShownOK, AskingOK
      <3>3. Private(t)
        BY <1>1, <2>2, <3>1 DEF Private
      <3>4. \A m \in Names : cache'[m] # NoValue => now <= cache'[m].asked + MaxLookup
        BY <2>3, <2>4, <2>5
      <3>5. QED BY <1>1, <3>1, <3>2, <3>3, <3>4, PrivateDInv
    <2>6. CASE Len(left[t]) # 1
      <3>1. /\ pc'[t] = "drop" /\ left'[t] = Tail(left[t]) /\ forced' = forced
            /\ expect'[t] = expect[t] /\ shown'[t] = shown[t] /\ since'[t] = since[t]
        BY <1>2, <1>14, <2>1, <2>6 DEF Drop, Skip
      <3>2. ExpectOK(t)' /\ ShownOK(t)' /\ AskingOK(t)'
        BY <1>4, <3>1 DEF ExpectOK, ShownOK, AskingOK
      <3>3. Private(t)
        BY <1>1, <2>2, <3>1 DEF Private
      <3>4. Passed(t)' \subseteq Passed(t) \cup {n}
        BY <2>4, <3>1 DEF Passed
      <3>5. QED BY <1>1, <2>3, <3>1, <3>2, <3>3, <3>4, PrivateDInv
    <2>7. QED BY <2>5, <2>6
  <1>15. QED BY <1>7, <1>8, <1>9, <1>10, <1>11, <1>12, <1>13, <1>14 DEF Step

LEMMA NextDInv == DInv /\ [Next]_vars => DInv'
  <1>1. ASSUME DInv, UNCHANGED vars PROVE DInv'
    BY <1>1 DEF vars, world, thread, DInv, Locals, WorldOK, CacheOK, EntryOK, Passed,
                AskingOK, ExpectOK, ShownOK
  <1>2. QED BY <1>1, TickDInv, AddressDInv, StepDInv DEF Next

LEMMA Invariance == Spec => []DInv
  BY InitDInv, NextDInv, PTL DEF Spec

-----------------------------------------------------------------------------
(* The properties.                                                         *)

\* An answer that a check uses was asked for less than the time to live and one
\* look-up ago (service.py, _resolve_txt_cached).
THEOREM AnswersAreRecent == Spec => []ShownIsRecent
  <1>1. DInv => ShownIsRecent
    BY DEF DInv, ShownOK, ShownIsRecent
  <1>2. QED BY <1>1, Invariance, PTL

\* A check that begins after a forced re-check uses no answer from before it but
\* those of look-ups that were under way (force_dns_recheck).
THEOREM RechecksAreFresh == Spec => []RecheckIsFresh
  <1>1. DInv => RecheckIsFresh
    BY DEF DInv, ShownOK, RecheckIsFresh
  <1>2. QED BY <1>1, Invariance, PTL

\* A record that names only retired addresses is never called published
\* (check_dns_records).
THEOREM RetiredIsNotPublished == Spec => []PublishedIsLive
  <1>1. ASSUME DInv, NEW t \in Threads,
               shown[t] # NoValue, shown[t].name \in Reporting,
               shown[t].status = "ok", expect[t].retired # {}
        PROVE  \E v \in shown[t].value : v.ours /\ v.names \ expect[t].retired # {}
    <2> DEFINE x == shown[t].value
               e == expect[t].addresses
    <2>1. Status(shown[t].name, x, expect[t]) = "ok"
      BY <1>1 DEF DInv, ShownOK
    <2>2. PICK v \in Ours(x) : NamesExpected(shown[t].name, v, e)
      BY <1>1, <2>1 DEF Status
    <2>3. PICK a \in e : a = v.first \/ a \in v.names
      BY <2>2 DEF NamesExpected
    <2>4. v.first \in v.names \cup {NoValue}
      <3>1. x \in Answers[shown[t].name] /\ x # Failed /\ shown[t].name \in Names
        BY <1>1, <2>1, DnsAssumption DEF DInv, ShownOK, Status
      <3>2. QED BY <2>2, <3>1, DnsAssumption DEF Ours
    <2>5. a \notin expect[t].retired /\ a # NoValue
      BY <1>1, <2>3 DEF DInv, ExpectOK
    <2>6. a \in v.names
      BY <2>3, <2>4, <2>5
    <2>7. QED BY <2>2, <2>5, <2>6 DEF Ours
  <1>2. DInv => PublishedIsLive
    BY <1>1 DEF PublishedIsLive
  <1>3. QED BY <1>2, Invariance, PTL

\* A thread has the end of the list of records before it.
Suffix(s) == \E i \in 1 .. Len(Required) + 1 : s = SubSeq(Required, i, Len(Required))

LEMMA RequiredSuffix == Suffix(Required) /\ Suffix(<< >>)
  <1>1. Required \in Seq(Names) /\ Len(Required) \in Nat
    BY DnsAssumption, LenProperties
  <1>2. SubSeq(Required, 1, Len(Required)) = Required
    BY <1>1
  <1>3. SubSeq(Required, Len(Required) + 1, Len(Required)) = << >>
    BY <1>1
  <1>4. 1 \in 1 .. Len(Required) + 1 /\ Len(Required) + 1 \in 1 .. Len(Required) + 1
    BY <1>1
  <1>5. QED BY <1>2, <1>3, <1>4 DEF Suffix

LEMMA TailSuffix ==
    ASSUME NEW s, Suffix(s), s # << >>
    PROVE  Suffix(Tail(s))
  <1>1. Required \in Seq(Names) /\ Len(Required) \in Nat
    BY DnsAssumption, LenProperties
  <1>2. PICK i \in 1 .. Len(Required) + 1 : s = SubSeq(Required, i, Len(Required))
    BY DEF Suffix
  <1>3. i <= Len(Required)
    BY <1>1, <1>2
  <1>4. Tail(s) = SubSeq(Required, i + 1, Len(Required))
    BY <1>1, <1>2, <1>3
  <1>5. i + 1 \in 1 .. Len(Required) + 1
    BY <1>1, <1>3
  <1>6. QED BY <1>4, <1>5 DEF Suffix

LEMMA NextSuffix ==
    ASSUME DInv, \A t \in Threads : Suffix(left[t]), [Next]_vars
    PROVE  (\A t \in Threads : Suffix(left[t]))'
  <1> DEFINE Moves(r) == \/ left'[r] \in {left[r], << >>, Required}
                         \/ left[r] # << >> /\ left'[r] = Tail(left[r])
  <1>1. \A r \in Threads : Moves(r)
    <2>1. CASE UNCHANGED left
      BY <2>1
    <2>2. ASSUME NEW t \in Threads, Verify(t) \/ Recheck(t) \/ Step(t)
          PROVE  \A r \in Threads : Moves(r)
      <3>1. DOMAIN left = Threads /\ (pc[t] \in {"store", "index", "drop"} => left[t] # << >>)
        BY DEF DInv, Locals
      <3>2. QED BY <2>2, <3>1
               DEF Verify, Recheck, Step, Hit, Ask, Store, EndCheck, Test, Index, IndexError,
                   EndAge, Drop, Finish, Skip
    <2>3. QED BY <2>1, <2>2
             DEF Next, vars, thread, Tick, MintAddress, DeactivateAddress
  <1>2. QED BY <1>1, RequiredSuffix, TailSuffix

\* Every variable has its type; what is shown is an answer to the question asked.
THEOREM DnsTypeCorrect == Spec => []TypeOK
  <1>1. Init => \A t \in Threads : Suffix(left[t])
    BY RequiredSuffix DEF Init
  <1>2. ASSUME DInv, \A t \in Threads : Suffix(left[t]) PROVE TypeOK
    <2>1. /\ now \in 0 .. MaxTime /\ forced \in 0 .. now
          /\ active \subseteq Addresses /\ retired \subseteq Addresses \ active
      BY <1>2 DEF DInv, WorldOK
    <2>2. \A n \in Names : cache[n] # NoValue =>
              cache[n].value \in Answers[n] /\ cache[n].asked <= cache[n].at
      BY <1>2 DEF DInv, CacheOK, EntryOK
    <2>3. DOMAIN cache = Names /\ pc \in [Threads -> States]
          /\ \A t \in Threads : pc[t] \in {"store", "index", "drop"} => left[t] # << >>
      BY <1>2 DEF DInv, Locals
    <2>4. ASSUME NEW t \in Threads
          PROVE  /\ shown[t] # NoValue => shown[t].value \in Answers[shown[t].name]
                 /\ since[t] \in 0 .. now
      <3>1. ShownOK(t) /\ now \in Nat
        BY <1>2, <2>1 DEF DInv
      <3>2. QED BY <2>1, <3>1 DEF ShownOK
    <2>5. QED BY <1>2, <2>1, <2>2, <2>3, <2>4 DEF TypeOK, States, Suffix
  <1>3. QED BY <1>1, <1>2, NextSuffix, Invariance, PTL DEF Spec
=============================================================================
