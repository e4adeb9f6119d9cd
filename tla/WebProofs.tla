----------------------------- MODULE WebProofs -----------------------------
(***************************************************************************)
(* What the web UI writes.  What holds of accounts for any number of them  *)
(* and however many requests overlap: what their counts and reads, which   *)
(* nothing locks, still guarantee.  At the end, what holds of the          *)
(* addresses that report pages resolve, however many pages do so at a      *)
(* time.                                                                   *)
(***************************************************************************)
EXTENDS Accounts, Enrich, FiniteSetTheorems, SequenceTheorems, TLAPS

\* The account a request is about.
WhoOK ==
    \A r \in Requests :
        /\ stage[r] \in {"find", "count", "create", "command", "target"} => who[r] \in Emails
        /\ stage[r] \in {"grant", "admins", "write"} => who[r] \in users

\* /setup and SSO make the account an administrator when there is none yet.
FirstOK ==
    \A r \in Requests : stage[r] = "create" /\ users = {} => want[r] = TRUE

\* A demotion that goes on has counted more than one administrator.
CountOK ==
    \A r \in Requests : stage[r] = "write" /\ ~want[r] => Cardinality(counted[r]) > 1

\* Every provider row has an owner of its own, the request that added it last;
\* one that is about to replace the provider has read the row it owns.
Owners(f, rowsNow, stageNow, seenNow) ==
    /\ \A p, q \in rowsNow : f[p] = f[q] => p = q
    /\ \A p \in rowsNow : stageNow[f[p]] = "swap" => p \in seenNow[f[p]]

OwnersOK == \E f \in [providers -> Requests] : Owners(f, providers, stage, seen)

AInv == TypeOK /\ WhoOK /\ FirstOK /\ CountOK /\ OwnersOK

LEMMA InitAInv == Init => AInv
  <1> SUFFICES ASSUME Init PROVE AInv
    OBVIOUS
  <1> USE AccountsAssumption DEF Init
  <1>1. TypeOK
    BY DEF TypeOK, Stages
  <1>2. OwnersOK
    <2>1. PICK r \in Requests : TRUE
      OBVIOUS
    <2>2. [p \in providers |-> r] \in [providers -> Requests]
      BY <2>1
    <2>3. Owners([p \in providers |-> r], providers, stage, seen)
      BY <2>1 DEF Owners
    <2>4. QED BY <2>2, <2>3 DEF OwnersOK
  <1>3. WhoOK /\ FirstOK /\ CountOK
    BY DEF WhoOK, FirstOK, CountOK
  <1>4. QED BY <1>1, <1>2, <1>3 DEF AInv

\* What a request holds between its statements.
RequestTypeOK ==
    /\ stage \in [Requests -> Stages]
    /\ actor \in [Requests -> Emails \cup {Nobody}]
    /\ who \in [Requests -> Emails \cup {Nobody}]
    /\ want \in [Requests -> BOOLEAN]
    /\ seen \in [Requests -> SUBSET (1 .. MaxProviders)]
    /\ counted \in [Requests -> SUBSET Emails]

LEMMA EndType ==
    ASSUME RequestTypeOK, NEW r \in Requests, End(r)
    PROVE  RequestTypeOK'
  BY DEF RequestTypeOK, End, Goto, Stages

LEMMA GotoType ==
    ASSUME RequestTypeOK, NEW r \in Requests, NEW s \in Stages, Goto(r, s),
           UNCHANGED <<actor, who>>, want' \in [Requests -> BOOLEAN],
           seen' \in [Requests -> SUBSET (1 .. MaxProviders)],
           counted' \in [Requests -> SUBSET Emails]
    PROVE  RequestTypeOK'
  BY DEF RequestTypeOK, Goto

LEMMA TypeStep ==
    ASSUME TypeOK, WhoOK, [Next]_vars
    PROVE  TypeOK'
  <1> USE AccountsAssumption DEF TypeOK, rows, sso, request, Stages
  <1>1. ASSUME NEW r \in Requests, NewRequest(r) PROVE TypeOK'
    <2>1. PICK s \in Stages, a \in Emails \cup {Nobody}, e \in Emails \cup {Nobody},
               x \in BOOLEAN : Open(r, s, a, e, x)
      <3>1. CASE \E e \in Emails : Setup(r, e) \/ SsoCallback(r, e)
        BY <3>1 DEF Setup, SsoCallback
      <3>2. CASE \E e \in Emails, x \in BOOLEAN : CliPassword(r, e, x)
        BY <3>2 DEF CliPassword
      <3>3. CASE \E a, e \in Emails, x \in BOOLEAN : ChangeRole(r, a, e, x)
        BY <3>3 DEF ChangeRole
      <3>4. CASE \E a \in Emails : SaveSso(r, a) \/ RemoveSso(r, a)
        BY <3>4 DEF SaveSso, RemoveSso
      <3>5. CASE CliDisableSso(r)
        BY <3>5 DEF CliDisableSso
      <3>6. QED
        BY <1>1, <3>1, <3>2, <3>3, <3>4, <3>5 DEF NewRequest
    <2>2. QED
      BY <2>1 DEF Open, Goto
  <1>2. ASSUME NEW r \in Requests, Step(r) PROVE TypeOK'
    <2>1. RequestTypeOK
      BY DEF RequestTypeOK
    <2>2. CASE SsoFind(r) \/ SsoCount(r)
      <3>1. RequestTypeOK'
        <4>1. CASE End(r)
          BY <2>1, <4>1, EndType
        <4>2. CASE ~End(r)
          <5>1. PICK s \in {"count", "create"} : Goto(r, s)
            BY <2>2, <4>2 DEF SsoFind, SsoCount
          <5>2. UNCHANGED <<actor, who, seen, counted>> /\ want' \in [Requests -> BOOLEAN]
            BY <2>2, <4>2 DEF SsoFind, SsoCount
          <5>3. QED
            BY <2>1, <5>1, <5>2, GotoType
        <4>3. QED BY <4>1, <4>2
      <3>2. UNCHANGED <<rows, sso>>
        BY <2>2 DEF SsoFind, SsoCount
      <3>3. QED BY <3>1, <3>2 DEF RequestTypeOK
    <2>3. CASE CreateUser(r) \/ CliGrant(r)
      <3>1. users' \subseteq Emails /\ admins' \subseteq users'
        BY <2>3 DEF CreateUser, CliGrant, WhoOK
      <3>2. RequestTypeOK' /\ UNCHANGED sso
        BY <2>1, <2>3, EndType DEF CreateUser, CliGrant
      <3>3. QED BY <3>1, <3>2 DEF RequestTypeOK
    <2>4. CASE RoleTarget(r) \/ CountAdmins(r) \/ WriteRole(r)
      <3>1. users' \subseteq Emails /\ admins' \subseteq users'
        BY <2>4 DEF RoleTarget, CountAdmins, WriteRole, WhoOK
      <3>2. RequestTypeOK'
        <4>1. CASE End(r)
          BY <2>1, <4>1, EndType
        <4>2. CASE ~End(r)
          <5>1. PICK s \in {"write", "admins"} : Goto(r, s)
            BY <2>4, <4>2 DEF RoleTarget, CountAdmins, WriteRole
          <5>2. UNCHANGED <<actor, who, want, seen>> /\ counted' \in [Requests -> SUBSET Emails]
            BY <2>4, <4>2 DEF RoleTarget, CountAdmins, WriteRole
          <5>3. QED
            BY <2>1, <5>1, <5>2, GotoType
        <4>3. QED BY <4>1, <4>2
      <3>3. UNCHANGED sso
        BY <2>4 DEF RoleTarget, CountAdmins, WriteRole
      <3>4. QED BY <3>1, <3>2, <3>3 DEF RequestTypeOK
    <2>5. CASE ReadProviders(r) \/ SwapProvider(r) \/ ClearProviders(r)
      <3>1. /\ lastProvider' \in 0 .. MaxProviders
            /\ providers' \subseteq 1 .. lastProvider'
        <4>1. CASE SwapProvider(r)
          <5>1. lastProvider' = lastProvider + 1 /\ lastProvider' \in 1 .. MaxProviders
            BY <4>1 DEF SwapProvider
          <5>2. providers \subseteq 1 .. lastProvider'
            BY <5>1
          <5>3. lastProvider' \in 1 .. lastProvider'
            BY <5>1
          <5>4. providers' \subseteq 1 .. lastProvider'
            BY <4>1, <5>2, <5>3 DEF SwapProvider
          <5>5. lastProvider' \in 0 .. MaxProviders
            BY <5>1
          <5>6. QED
            BY <5>4, <5>5
        <4>2. CASE ReadProviders(r) \/ ClearProviders(r)
          BY <4>2 DEF ReadProviders, ClearProviders
        <4>3. QED BY <2>5, <4>1, <4>2
      <3>2. RequestTypeOK'
        <4>1. CASE ReadProviders(r)
          <5>1. providers \subseteq 1 .. MaxProviders
            OBVIOUS
          <5>2. /\ seen' \in [Requests -> SUBSET (1 .. MaxProviders)]
                /\ UNCHANGED <<actor, who, want, counted>>
                /\ Goto(r, "swap") \/ Goto(r, "clear")
            BY <4>1, <5>1 DEF ReadProviders
          <5>3. QED BY <2>1, <5>2, GotoType
        <4>2. CASE SwapProvider(r) \/ ClearProviders(r)
          BY <2>1, <4>2, EndType DEF SwapProvider, ClearProviders
        <4>3. QED BY <2>5, <4>1, <4>2
      <3>3. UNCHANGED rows
        BY <2>5 DEF ReadProviders, SwapProvider, ClearProviders
      <3>4. QED BY <3>1, <3>2, <3>3 DEF RequestTypeOK
    <2>6. QED BY <1>2, <2>2, <2>3, <2>4, <2>5 DEF Step
  <1>3. CASE UNCHANGED vars
    BY <1>3 DEF vars
  <1>4. QED BY <1>1, <1>2, <1>3 DEF Next

\* Accounts are never deleted, and a step of one request leaves the others.
LEMMA Frame ==
    ASSUME TypeOK, WhoOK, NEW r \in Requests, NewRequest(r) \/ Step(r)
    PROVE  /\ users \subseteq users'
           /\ \A s \in Requests \ {r} : /\ stage'[s] = stage[s] /\ who'[s] = who[s]
                                        /\ want'[s] = want[s] /\ seen'[s] = seen[s]
                                        /\ counted'[s] = counted[s]
  <1> USE DEF TypeOK, rows, sso
  <1>1. CASE NewRequest(r)
    BY <1>1 DEF NewRequest, Setup, SsoCallback, CliPassword, ChangeRole, SaveSso,
                RemoveSso, CliDisableSso, Open, Goto
  <1>2. CASE Step(r)
    BY <1>2 DEF Step, SsoFind, SsoCount, CreateUser, CliGrant, RoleTarget, CountAdmins,
                WriteRole, ReadProviders, SwapProvider, ClearProviders, Goto, End
  <1>3. QED BY <1>1, <1>2

\* What a request is about after a step of its own.
LEMMA OwnStep ==
    ASSUME TypeOK, WhoOK, FirstOK, NEW r \in Requests, NewRequest(r) \/ Step(r)
    PROVE  /\ stage'[r] \in {"find", "count", "create", "command", "target"} => who'[r] \in Emails
           /\ stage'[r] \in {"grant", "admins", "write"} => who'[r] \in users'
           /\ stage'[r] = "create" /\ users' = {} => want'[r] = TRUE
  <1> USE DEF TypeOK, WhoOK, rows, sso
  <1>1. CASE NewRequest(r)
    BY <1>1 DEF NewRequest, Setup, SsoCallback, CliPassword, ChangeRole, SaveSso,
                RemoveSso, CliDisableSso, Open, Goto
  <1>2. CASE SsoFind(r) \/ SsoCount(r) \/ CreateUser(r) \/ CliGrant(r)
    BY <1>2 DEF SsoFind, SsoCount, CreateUser, CliGrant, Goto, End
  <1>3. CASE RoleTarget(r) \/ CountAdmins(r) \/ WriteRole(r)
    BY <1>3 DEF RoleTarget, CountAdmins, WriteRole, Goto, End
  <1>4. CASE ReadProviders(r) \/ SwapProvider(r) \/ ClearProviders(r)
    BY <1>4 DEF ReadProviders, SwapProvider, ClearProviders, Goto, End
  <1>5. QED BY <1>1, <1>2, <1>3, <1>4 DEF Step

LEMMA WhoStep ==
    ASSUME TypeOK, WhoOK, FirstOK, [Next]_vars
    PROVE  WhoOK' /\ FirstOK'
  <1>1. ASSUME NEW r \in Requests, NewRequest(r) \/ Step(r) PROVE WhoOK' /\ FirstOK'
    <2>1. WhoOK'
      BY <1>1, Frame, OwnStep DEF WhoOK
    <2>2. FirstOK'
      BY <1>1, Frame, OwnStep DEF FirstOK
    <2>3. QED BY <2>1, <2>2
  <1>2. CASE UNCHANGED vars
    BY <1>2 DEF vars, rows, request, WhoOK, FirstOK
  <1>3. QED BY <1>1, <1>2 DEF Next

\* A demotion counts two administrators at least before it goes on.
LEMMA CountStep ==
    ASSUME AInv, [Next]_vars
    PROVE  CountOK'
  <1> USE DEF AInv, TypeOK
  <1>1. ASSUME NEW r \in Requests, NewRequest(r) \/ Step(r)
        PROVE  CountOK'
    <2>1. \A s \in Requests \ {r} : /\ stage'[s] = stage[s] /\ want'[s] = want[s]
                                    /\ counted'[s] = counted[s]
      BY <1>1, Frame
    <2>2. stage'[r] = "write" /\ ~want'[r] => Cardinality(counted'[r]) > 1
      <3>1. CASE CountAdmins(r)
        <4>1. Cardinality(admins) \in Nat
          <5>1. admins \subseteq Emails
            OBVIOUS
          <5>2. IsFiniteSet(admins)
            BY <5>1, AccountsAssumption, FS_Subset
          <5>3. QED BY <5>2, FS_CardinalityType
        <4>2. QED
          BY <3>1, <4>1 DEF CountAdmins, Goto, End
      <3>2. CASE RoleTarget(r)
        BY <3>2 DEF RoleTarget, Goto, End
      <3>3. CASE ~CountAdmins(r) /\ ~RoleTarget(r)
        <4>1. stage'[r] # "write"
          BY <1>1, <3>3 DEF NewRequest, Setup, SsoCallback, CliPassword, ChangeRole,
                SaveSso, RemoveSso, CliDisableSso, Open, Step, SsoFind, SsoCount,
                CreateUser, CliGrant, WriteRole, ReadProviders, SwapProvider,
                ClearProviders, Goto, End
        <4>2. QED BY <4>1
      <3>4. QED BY <3>1, <3>2, <3>3
    <2>3. QED BY <2>1, <2>2 DEF CountOK
  <1>2. CASE UNCHANGED vars
    BY <1>2 DEF vars, request, CountOK
  <1>3. QED BY <1>1, <1>2 DEF Next

\* A request replaces the row that is its own: it was there to be read.
LEMMA OwnerStep ==
    ASSUME AInv, [Next]_vars
    PROVE  OwnersOK'
  <1> USE DEF AInv, TypeOK
  <1>1. PICK f \in [providers -> Requests] : Owners(f, providers, stage, seen)
    BY DEF OwnersOK
  <1>2. ASSUME NEW r \in Requests, NewRequest(r) \/ Step(r)
        PROVE  OwnersOK'
    <2>1. \A s \in Requests \ {r} : stage'[s] = stage[s] /\ seen'[s] = seen[s]
      BY <1>2, Frame
    <2>2. CASE SwapProvider(r)
      <3> DEFINE new == lastProvider'
                 g   == [p \in providers' |-> IF p = new THEN r ELSE f[p]]
      <3>1. providers' = (providers \ seen[r]) \cup {new} /\ new \notin providers
        BY <2>2, AccountsAssumption DEF SwapProvider
      <3>2. \A p \in providers \ seen[r] : f[p] # r
        BY <1>1, <2>2 DEF Owners, SwapProvider
      <3>3. g \in [providers' -> Requests]
        BY <1>1, <3>1
      <3>4. \A p, q \in providers' : g[p] = g[q] => p = q
        BY <1>1, <3>1, <3>2 DEF Owners
      <3>5. stage'[r] = "idle"
        BY <2>2 DEF SwapProvider, End, Goto
      <3>6. \A p \in providers' : stage'[g[p]] = "swap" => p \in seen'[g[p]]
        <4>1. SUFFICES ASSUME NEW p \in providers', stage'[g[p]] = "swap"
                       PROVE  p \in seen'[g[p]]
          OBVIOUS
        <4>2. g[p] # r /\ p # new
          BY <3>5, <4>1
        <4>3. p \in providers /\ g[p] = f[p]
          BY <3>1, <4>1, <4>2
        <4>4. stage[f[p]] = "swap" /\ seen'[f[p]] = seen[f[p]]
          BY <1>1, <2>1, <4>1, <4>2, <4>3
        <4>5. QED BY <1>1, <4>3, <4>4 DEF Owners
      <3>7. Owners(g, providers', stage', seen')
        BY <3>4, <3>6 DEF Owners
      <3>8. QED BY <3>3, <3>7 DEF OwnersOK
    <2>3. CASE ~SwapProvider(r)
      <3> DEFINE g == [p \in providers' |-> f[p]]
      <3>1. providers' \subseteq providers
        BY <1>2, <2>3 DEF NewRequest, Setup, SsoCallback, CliPassword, ChangeRole,
              SaveSso, RemoveSso, CliDisableSso, Open, Step, SsoFind, SsoCount,
              CreateUser, CliGrant, RoleTarget, CountAdmins, WriteRole, ReadProviders,
              ClearProviders, sso
      <3>2. stage'[r] = "swap" => seen'[r] = providers
        BY <1>2, <2>3 DEF NewRequest, Setup, SsoCallback, CliPassword, ChangeRole,
              SaveSso, RemoveSso, CliDisableSso, Open, Step, SsoFind, SsoCount,
              CreateUser, CliGrant, RoleTarget, CountAdmins, WriteRole, ReadProviders,
              ClearProviders, Goto, End
      <3>3. g \in [providers' -> Requests]
        BY <1>1, <3>1
      <3>4. \A p, q \in providers' : g[p] = g[q] => p = q
        BY <1>1, <3>1 DEF Owners
      <3>5. \A p \in providers' : stage'[g[p]] = "swap" => p \in seen'[g[p]]
        BY <1>1, <2>1, <3>1, <3>2 DEF Owners
      <3>6. Owners(g, providers', stage', seen')
        BY <3>4, <3>5 DEF Owners
      <3>7. QED BY <3>3, <3>6 DEF OwnersOK
    <2>4. QED BY <2>2, <2>3
  <1>3. CASE UNCHANGED vars
    BY <1>3 DEF vars, sso, request, OwnersOK
  <1>4. QED BY <1>2, <1>3 DEF Next

\* The inductive invariant holds in every reachable state.
THEOREM AccountsInvariance == Spec => []AInv
  <1>1. Init => AInv
    BY InitAInv
  <1>2. AInv /\ [Next]_vars => AInv'
    BY TypeStep, WhoStep, CountStep, OwnerStep DEF AInv
  <1>3. QED
    BY <1>1, <1>2, PTL DEF Spec

\* Every variable keeps its type; administrators are accounts.
THEOREM AccountsTypeCorrect == Spec => []TypeOK
  <1>1. AInv => TypeOK
    BY DEF AInv
  <1>2. QED BY <1>1, AccountsInvariance, PTL

\* The first account is an administrator, however many requests are open at
\* once and whatever commands are run, unless set-password created it.
THEOREM FirstAccountRules == Spec => FirstAccountIsAdmin
  <1> DEFINE Rules == (\E r \in Requests : stage[r] = "create" /\ stage'[r] = "idle")
                        /\ users = {} => admins' = users'
  <1>1. AInv /\ [Next]_vars => [Rules]_vars
    <2>1. ASSUME AInv, NEW q \in Requests, NewRequest(q) \/ Step(q), users = {},
                 NEW r \in Requests, stage[r] = "create", stage'[r] = "idle"
          PROVE  admins' = users'
      <3>1. r = q
        BY <2>1, Frame DEF AInv
      <3>2. CreateUser(r)
        BY <2>1, <3>1 DEF NewRequest, Setup, SsoCallback, CliPassword, ChangeRole,
              SaveSso, RemoveSso, CliDisableSso, Open, Step, SsoFind, SsoCount,
              CliGrant, RoleTarget, CountAdmins, WriteRole, ReadProviders,
              SwapProvider, ClearProviders
      <3>3. want[r] = TRUE /\ admins = {}
        BY <2>1 DEF AInv, FirstOK, TypeOK
      <3>4. QED
        BY <2>1, <3>2, <3>3 DEF CreateUser, rows
    <2>2. QED BY <2>1 DEF Next
  <1>2. QED
    BY <1>1, AccountsInvariance, PTL DEF Spec, FirstAccountIsAdmin

\* However many requests overlap, the last administrator is only lost to a
\* demotion one of whose counted administrators was demoted since its count.
THEOREM AdminsLostToStaleCounts == Spec => OnlyStaleCountsLoseAdmins
  <1> DEFINE Stale == admins # {} /\ admins' = {} =>
                        \E r \in Requests : /\ stage[r] = "write" /\ stage'[r] # "write"
                                            /\ ~(counted[r] \subseteq admins)
  <1>1. AInv /\ [Next]_vars => [Stale]_vars
    <2>1. ASSUME AInv, NEW r \in Requests, NewRequest(r) \/ Step(r),
                 admins # {}, admins' = {}
          PROVE  /\ stage[r] = "write" /\ stage'[r] # "write"
                 /\ ~(counted[r] \subseteq admins)
      <3>1. WriteRole(r) /\ ~want[r]
        BY <2>1 DEF AInv, TypeOK, NewRequest, Setup, SsoCallback, CliPassword, ChangeRole,
              SaveSso, RemoveSso, CliDisableSso, Open, Step, SsoFind, SsoCount,
              CreateUser, CliGrant, RoleTarget, CountAdmins, WriteRole, ReadProviders,
              SwapProvider, ClearProviders, rows
      <3>2. stage[r] = "write" /\ stage'[r] # "write" /\ admins \subseteq {who[r]}
        BY <2>1, <3>1 DEF WriteRole, End, Goto, AInv, TypeOK
      <3>3. ASSUME counted[r] \subseteq admins PROVE FALSE
        <4>1. IsFiniteSet({who[r]}) /\ Cardinality({who[r]}) = 1
          BY FS_Singleton
        <4>2. /\ IsFiniteSet(counted[r])
              /\ Cardinality(counted[r]) <= Cardinality({who[r]})
          BY <3>2, <3>3, <4>1, FS_Subset
        <4>3. Cardinality(counted[r]) \in Nat
          BY <4>2, FS_CardinalityType
        <4>4. Cardinality(counted[r]) > 1
          BY <2>1, <3>1, <3>2 DEF AInv, CountOK
        <4>5. QED BY <4>1, <4>2, <4>3, <4>4
      <3>4. QED BY <3>2, <3>3
    <2>2. QED BY <2>1 DEF Next
  <1>2. QED
    BY <1>1, AccountsInvariance, PTL DEF Spec, OnlyStaleCountsLoseAdmins

\* However many requests overlap, there are no more provider rows than requests.
THEOREM LeftoverProvidersBounded == Spec => []ProvidersBounded
  <1>1. AInv => ProvidersBounded
    <2>1. SUFFICES ASSUME AInv PROVE ProvidersBounded
      OBVIOUS
    <2>2. PICK f \in [providers -> Requests] : Owners(f, providers, stage, seen)
      BY <2>1 DEF AInv, OwnersOK
    <2>3. f \in Injection(providers, Requests)
      BY <2>2 DEF Owners, Injection, IsInjective
    <2>4. QED
      BY <2>3, FS_Injection, AccountsAssumption DEF ProvidersBounded
  <1>2. QED BY <1>1, AccountsInvariance, PTL

-----------------------------------------------------------------------------
(* Report pages and the command that names addresses.                      *)

\* The locals of a request, and what it holds: rows are written only at the
\* end, and say nothing that is not known.
LocalsOK ==
    /\ ips \in [Threads -> Seq(Ips)]
    /\ limit \in [Threads -> Nat]
    /\ todo \in [Threads -> Seq(Ips)]
    /\ left \in [Threads -> Seq(Ips)]
    /\ held \in [Threads -> SUBSET Ips]
    /\ \A p \in Threads :
          /\ pc[p] # "write" => held[p] = {}
          /\ pc[p] \in {"idle", "read"} => todo[p] = << >>
          /\ \A ip \in Ips : found[p][ip] \subseteq Known[ip]

EInv == EnrichTypeOK /\ LocalsOK

\* An enumeration of addresses is a sequence of them.
LEMMA OrderType ==
    ASSUME NEW S \in SUBSET Ips, NEW t \in SetToSeqs(S)
    PROVE  t \in Seq(Ips)
  <1>1. IsFiniteSet(S)
    BY FS_Subset, EnrichAssumption
  <1>2. Cardinality(S) \in Nat
    BY <1>1, FS_CardinalityType
  <1>3. PICK n \in Nat : t \in [1 .. n -> S]
    BY <1>2 DEF SetToSeqs
  <1>4. QED BY <1>3

\* So is what a page wants to look up.
LEMMA WantedType ==
    ASSUME NEW s \in Seq(Ips), NEW row, NEW t \in Wanted(s, row)
    PROVE  t \in Seq(Ips)
  <1> DEFINE New  == {ip \in Range(s) : row[ip] = {}}
             Half == {ip \in Range(s) : Incomplete(row[ip])}
  <1>1. Range(s) \subseteq Ips
    BY DEF Range
  <1>2. New \in SUBSET Ips /\ Half \in SUBSET Ips
    BY <1>1
  <1>3. PICK pair \in InOrderOf(s, New) \X SetToSeqs(Half) : t = pair[1] \o pair[2]
    BY DEF Wanted
  <1> HIDE DEF New, Half
  <1>4. pair[1] \in InOrderOf(s, New) /\ pair[2] \in SetToSeqs(Half)
    BY <1>3
  <1>5. pair[1] \in Seq(Ips)
    BY <1>2, <1>4, OrderType DEF InOrderOf
  <1>6. pair[2] \in Seq(Ips)
    BY <1>2, <1>4, OrderType
  <1>7. QED BY <1>3, <1>5, <1>6

\* What is looked up fits in the limit.
LEMMA FirstFits ==
    ASSUME NEW s \in Seq(Ips), NEW n \in Nat
    PROVE  First(s, n) \in Seq(Ips) /\ Len(First(s, n)) <= n
  <1> DEFINE m == IF Len(s) <= n THEN Len(s) ELSE n
  <1>1. m \in 0 .. Len(s) /\ m <= n
    OBVIOUS
  <1>2. SubSeq(s, 1, m) \in Seq(Ips) /\ Len(SubSeq(s, 1, m)) = m
    BY <1>1
  <1>3. QED BY <1>1, <1>2 DEF First

\* At first nobody holds a row or has been told anything.
LEMMA InitEInv ==
    ASSUME EnrichInit
    PROVE  EInv
  <1>1. EnrichTypeOK
    BY EnrichAssumption DEF EnrichTypeOK, EnrichInit, NoRows
  <1>2. LocalsOK
    BY DEF LocalsOK, EnrichInit, NoRows
  <1>3. QED BY <1>1, <1>2 DEF EInv

\* A request that ends, one way or another, leaves the others as they were, as
\* long as the rows they hold are let alone.
LEMMA EndKeeps ==
    ASSUME EInv, NEW p \in Threads, Close(p),
           failures' \in 0 .. MaxFailures,
           intel' \in [Ips -> SUBSET Parts],
           \A ip \in Ips : intel'[ip] \subseteq Known[ip],
           \A q \in Threads : q # p => \A ip \in held[q] : intel'[ip] = intel[ip]
    PROVE  EInv'
  <1> USE DEF EInv, Close, NoRows
  <1>1. LocalsOK'
    BY DEF LocalsOK, EnrichTypeOK
  <1>2. \A q \in Threads : held'[q] = IF q = p THEN {} ELSE held[q]
    BY DEF LocalsOK
  <1>3. \A q \in Threads : q # p => cached'[q] = cached[q]
    BY DEF EnrichTypeOK
  <1>4. \A q \in Threads :
           held'[q] \subseteq {ip \in Ips : cached'[q][ip] # {} \/ intel'[ip] = {}}
    <2>1. ASSUME NEW q \in Threads, q # p, NEW ip \in held[q]
          PROVE  ip \in Ips /\ (cached'[q][ip] # {} \/ intel'[ip] = {})
      <3>1. ip \in Ips /\ (cached[q][ip] # {} \/ intel[ip] = {})
        BY <2>1 DEF EnrichTypeOK
      <3>2. cached'[q][ip] = cached[q][ip] /\ intel'[ip] = intel[ip]
        BY <1>3, <2>1
      <3>3. QED BY <3>1, <3>2
    <2>2. QED BY <1>2, <2>1
  <1>5. \A q, o \in Threads : q # o => held'[q] \cap held'[o] = {}
    BY <1>2 DEF EnrichTypeOK
  <1>6. \A q \in Threads : Len(todo'[q]) <= limit'[q]
    BY DEF EnrichTypeOK, LocalsOK
  <1>7. /\ pc' \in [Threads -> {"idle", "read", "lookup", "write", "done"}]
        /\ cached' \in [Threads -> [Ips -> SUBSET Parts]]
        /\ found' \in [Threads -> [Ips -> SUBSET Parts]]
    BY DEF EnrichTypeOK
  <1>8. \A q \in Threads : ips'[q] \in Seq(Ips) /\ left'[q] \in Seq(Ips) /\ todo'[q] \in Seq(Ips)
    BY <1>1 DEF LocalsOK
  <1>9. EnrichTypeOK'
    BY <1>4, <1>5, <1>6, <1>7, <1>8 DEF EnrichTypeOK
  <1>10. QED BY <1>1, <1>9

\* A request that begins has addresses and a limit.
LEMMA BeginKeeps ==
    ASSUME EInv, NEW p \in Threads,
           (\E r \in DOMAIN Reports : View(p, r)) \/ Backfill(p)
    PROVE  EInv'
  <1>1. PICK s \in Seq(Ips), n \in Nat :
           ips' = [ips EXCEPT ![p] = s] /\ limit' = [limit EXCEPT ![p] = n]
    <2>1. CASE \E r \in DOMAIN Reports : View(p, r)
      BY <2>1, EnrichAssumption DEF View
    <2>2. CASE Backfill(p)
      <3> DEFINE open == {ip \in Seen : "registry" \notin intel[ip]}
      <3>1. PICK S \in SUBSET open : \E s \in SetToSeqs(S) :
               ips' = [ips EXCEPT ![p] = s] /\ limit' = [limit EXCEPT ![p] = Len(s)]
        BY <2>2 DEF Backfill
      <3>2. Seen \subseteq Ips
        BY EnrichAssumption DEF Seen, Range
      <3>3. PICK s \in SetToSeqs(S) :
               ips' = [ips EXCEPT ![p] = s] /\ limit' = [limit EXCEPT ![p] = Len(s)]
        BY <3>1
      <3>4. S \in SUBSET Ips
        BY <3>2
      <3>5. s \in Seq(Ips)
        BY <3>3, <3>4, OrderType
      <3>6. Len(s) \in Nat
        BY <3>5
      <3>7. QED BY <3>3, <3>5, <3>6
    <2>3. QED BY <2>1, <2>2
  <1>2. /\ pc[p] = "idle" /\ pc' = [pc EXCEPT ![p] = "read"]
        /\ UNCHANGED <<intel, failures, cached, todo, found, left, held>>
    BY DEF View, Backfill, Continue
  <1>3. LocalsOK'
    BY <1>1, <1>2 DEF EInv, LocalsOK, EnrichTypeOK
  <1>4. \A q \in Threads : Len(todo'[q]) <= limit'[q]
    <2>1. todo[p] = << >> /\ Len(<< >>) = 0
      BY <1>2 DEF EInv, LocalsOK
    <2>2. QED BY <1>1, <1>2, <2>1 DEF EInv, LocalsOK, EnrichTypeOK
  <1>5. pc' \in [Threads -> {"idle", "read", "lookup", "write", "done"}]
    BY <1>2 DEF EInv, EnrichTypeOK
  <1>6. \A q \in Threads : ips'[q] \in Seq(Ips) /\ left'[q] \in Seq(Ips) /\ todo'[q] \in Seq(Ips)
    BY <1>3 DEF LocalsOK
  <1>7. EnrichTypeOK'
    BY <1>2, <1>4, <1>5, <1>6 DEF EInv, EnrichTypeOK
  <1>8. QED BY <1>3, <1>7 DEF EInv

\* The rows that a page reads are not yet held by it.
LEMMA ReadKeeps ==
    ASSUME EInv, NEW p \in Threads, ReadRows(p)
    PROVE  EInv'
  <1> USE DEF EInv
  <1>1. PICK s : /\ s \in Wanted(ips[p], cached'[p])
                 /\ todo' = [todo EXCEPT ![p] = First(s, limit[p])]
    BY DEF ReadRows
  <1>2. s \in Seq(Ips)
    BY <1>1, WantedType DEF LocalsOK
  <1>3. First(s, limit[p]) \in Seq(Ips) /\ Len(First(s, limit[p])) <= limit[p]
    BY <1>2, FirstFits DEF LocalsOK
  <1>4. /\ pc[p] = "read"
        /\ \E l \in {"done", "lookup"} : pc' = [pc EXCEPT ![p] = l]
        /\ UNCHANGED <<intel, failures, ips, limit, found, left, held>>
    BY DEF ReadRows, Continue
  <1>5. held[p] = {}
    BY <1>4 DEF LocalsOK
  <1>6. cached' \in [Threads -> [Ips -> SUBSET Parts]]
        /\ \A q \in Threads : q # p => cached'[q] = cached[q]
    BY DEF ReadRows, EnrichTypeOK
  <1>7. LocalsOK'
    BY <1>1, <1>3, <1>4 DEF LocalsOK, EnrichTypeOK
  <1>8. \A q \in Threads : Len(todo'[q]) <= limit'[q]
    BY <1>1, <1>3, <1>4 DEF LocalsOK, EnrichTypeOK
  <1>9. pc' \in [Threads -> {"idle", "read", "lookup", "write", "done"}]
    BY <1>4 DEF EnrichTypeOK
  <1>10. \A q \in Threads :
            held'[q] \subseteq {ip \in Ips : cached'[q][ip] # {} \/ intel'[ip] = {}}
    <2>1. held' = held /\ intel' = intel
      BY <1>4
    <2>2. ASSUME NEW q \in Threads
          PROVE  held[q] \subseteq {ip \in Ips : cached'[q][ip] # {} \/ intel[ip] = {}}
      <3>1. CASE q = p
        BY <1>5, <3>1
      <3>2. CASE q # p
        BY <1>6, <3>2 DEF EnrichTypeOK
      <3>3. QED BY <3>1, <3>2
    <2>3. QED BY <2>1, <2>2
  <1>11. /\ intel' \in [Ips -> SUBSET Parts]
         /\ \A ip \in Ips : intel'[ip] \subseteq Known[ip]
         /\ failures' \in 0 .. MaxFailures
         /\ found' \in [Threads -> [Ips -> SUBSET Parts]]
         /\ \A q, o \in Threads : q # o => held'[q] \cap held'[o] = {}
    BY <1>4 DEF EnrichTypeOK
  <1>12. \A q \in Threads : ips'[q] \in Seq(Ips) /\ left'[q] \in Seq(Ips) /\ todo'[q] \in Seq(Ips)
    BY <1>7 DEF LocalsOK
  <1>13. EnrichTypeOK'
    BY <1>6, <1>8, <1>9, <1>10, <1>11, <1>12 DEF EnrichTypeOK
  <1>14. QED BY <1>7, <1>13

\* What a look-up tells is known, and what is to be written was looked up.
LEMMA ResolveKeeps ==
    ASSUME EInv, NEW p \in Threads, Resolve(p)
    PROVE  EInv'
  <1> USE DEF EInv
  <1>1. PICK told \in [Range(todo[p]) -> SUBSET Parts] :
          LET new == {ip \in DOMAIN told : told[ip] \ cached[p][ip] # {}}
          IN /\ \A ip \in DOMAIN told : told[ip] \subseteq Known[ip]
             /\ UNCHANGED failures \/ (failures < MaxFailures /\ failures' = failures + 1)
             /\ found' = [found EXCEPT ![p] =
                             [ip \in Ips |-> IF ip \in DOMAIN told THEN told[ip] ELSE {}]]
             /\ \E updates \in SetToSeqs({ip \in new : cached[p][ip] # {}}),
                   inserts \in InOrderOf(todo[p], {ip \in new : cached[p][ip] = {}}) :
                   left' = [left EXCEPT ![p] = updates \o inserts]
    BY DEF Resolve
  <1> DEFINE new     == {ip \in DOMAIN told : told[ip] \ cached[p][ip] # {}}
             changed == {ip \in new : cached[p][ip] # {}}
             first   == {ip \in new : cached[p][ip] = {}}
  <1>2. changed \in SUBSET Ips /\ first \in SUBSET Ips
    BY DEF Range, LocalsOK
  <1>3. PICK u \in SetToSeqs(changed), i \in InOrderOf(todo[p], first) :
           left' = [left EXCEPT ![p] = u \o i]
    BY <1>1
  <1>4. u \o i \in Seq(Ips)
    <2> HIDE DEF changed, first
    <2>1. u \in Seq(Ips)
      BY <1>2, <1>3, OrderType
    <2>2. i \in Seq(Ips)
      BY <1>2, <1>3, OrderType DEF InOrderOf
    <2>3. QED BY <2>1, <2>2
  <1> DEFINE heard == [ip \in Ips |-> IF ip \in DOMAIN told THEN told[ip] ELSE {}]
  <1>5. heard \in [Ips -> SUBSET Parts] /\ \A ip \in Ips : heard[ip] \subseteq Known[ip]
    BY <1>1
  <1>6. found' = [found EXCEPT ![p] = heard] /\ failures' \in 0 .. MaxFailures
    BY <1>1, EnrichAssumption DEF EnrichTypeOK
  <1>7. /\ pc[p] = "lookup" /\ pc' = [pc EXCEPT ![p] = "write"]
        /\ UNCHANGED <<intel, ips, limit, cached, todo, held>>
    BY DEF Resolve, Continue
  <1> HIDE DEF heard, new, changed, first
  <1>8. LocalsOK'
    BY <1>3, <1>4, <1>5, <1>6, <1>7 DEF LocalsOK, EnrichTypeOK
  <1>9. /\ found' \in [Threads -> [Ips -> SUBSET Parts]]
        /\ pc' \in [Threads -> {"idle", "read", "lookup", "write", "done"}]
    BY <1>5, <1>6, <1>7 DEF EnrichTypeOK
  <1>10. \A q \in Threads : ips'[q] \in Seq(Ips) /\ left'[q] \in Seq(Ips) /\ todo'[q] \in Seq(Ips)
    BY <1>8 DEF LocalsOK
  <1>11. EnrichTypeOK'
    BY <1>6, <1>7, <1>9, <1>10 DEF EnrichTypeOK
  <1>12. QED BY <1>8, <1>11

\* A row is written that no other transaction holds; if it is a new one, the
\* address has no row.
LEMMA WriteKeeps ==
    ASSUME EInv, NEW p \in Threads, WriteRow(p)
    PROVE  EInv'
  <1> USE DEF EInv
  <1> DEFINE ip == Head(left[p])
  <1>1. /\ pc[p] = "write" /\ left[p] # << >>
        /\ \A q \in Threads : ~Blocks(q, p)
        /\ cached[p][ip] = {} => intel[ip] = {}
        /\ held' = [held EXCEPT ![p] = @ \cup {ip}]
        /\ left' = [left EXCEPT ![p] = Tail(@)]
        /\ UNCHANGED <<intel, failures, pc, ips, limit, cached, todo, found>>
    BY DEF WriteRow, IsInsert
  <1>2. ip \in Ips /\ Tail(left[p]) \in Seq(Ips)
    BY <1>1, HeadTailProperties DEF LocalsOK
  <1>3. \A q \in Threads : q # p => ip \notin held[q]
    BY <1>1 DEF Blocks
  <1> HIDE DEF ip
  <1>4. \A q \in Threads : held'[q] = IF q = p THEN held[q] \cup {ip} ELSE held[q]
    BY <1>1 DEF LocalsOK
  <1>5. LocalsOK'
    BY <1>1, <1>2 DEF LocalsOK, EnrichTypeOK
  <1>6. \A q \in Threads :
           held'[q] \subseteq {i \in Ips : cached'[q][i] # {} \/ intel'[i] = {}}
    <2>1. cached' = cached /\ intel' = intel /\ (cached[p][ip] # {} \/ intel[ip] = {})
      BY <1>1
    <2>2. ASSUME NEW q \in Threads, NEW i \in held'[q]
          PROVE  i \in Ips /\ (cached[q][i] # {} \/ intel[i] = {})
      <3>1. CASE i \in held[q]
        BY <3>1 DEF EnrichTypeOK
      <3>2. CASE q = p /\ i = ip
        BY <1>2, <2>1, <3>2
      <3>3. QED BY <1>4, <2>2, <3>1, <3>2
    <2>3. QED BY <2>1, <2>2
  <1>7. ASSUME NEW q \in Threads, NEW o \in Threads, q # o
        PROVE  held'[q] \cap held'[o] = {}
    <2>1. held[q] \cap held[o] = {}
      BY <1>7 DEF EnrichTypeOK
    <2>2. CASE q = p
      BY <1>3, <1>4, <1>7, <2>1, <2>2
    <2>3. CASE o = p
      BY <1>3, <1>4, <1>7, <2>1, <2>3
    <2>4. CASE q # p /\ o # p
      BY <1>4, <2>1, <2>4
    <2>5. QED BY <2>2, <2>3, <2>4
  <1>8. \A q \in Threads : ips'[q] \in Seq(Ips) /\ left'[q] \in Seq(Ips) /\ todo'[q] \in Seq(Ips)
    BY <1>5 DEF LocalsOK
  <1>9. UNCHANGED <<intel, failures, pc, limit, cached, todo, found>>
    BY <1>1
  <1>10. EnrichTypeOK'
    BY <1>6, <1>7, <1>8, <1>9 DEF EnrichTypeOK
  <1>11. QED BY <1>5, <1>10

\* At the commit the rows of others are let alone, since none is held by two.
LEMMA CommitKeeps ==
    ASSUME EInv, NEW p \in Threads, Commit(p)
    PROVE  EInv'
  <1>1. /\ intel' = [ip \in Ips |-> IF ip \in held[p] THEN intel[ip] \cup found[p][ip]
                                                     ELSE intel[ip]]
        /\ Close(p) /\ UNCHANGED failures
    BY DEF Commit, Merged
  <1>2. intel' \in [Ips -> SUBSET Parts]
    BY <1>1 DEF EInv, EnrichTypeOK
  <1>3. \A ip \in Ips : intel'[ip] \subseteq Known[ip]
    BY <1>1 DEF EInv, LocalsOK, EnrichTypeOK
  <1>4. \A q \in Threads : q # p => \A ip \in held[q] : intel'[ip] = intel[ip]
    BY <1>1 DEF EInv, EnrichTypeOK
  <1>5. failures' \in 0 .. MaxFailures
    BY <1>1 DEF EInv, EnrichTypeOK
  <1>6. QED BY <1>1, <1>2, <1>3, <1>4, <1>5, EndKeeps

\* So nothing changes when a request ends otherwise.
LEMMA RollbackKeeps ==
    ASSUME EInv, NEW p \in Threads,
           NothingToDo(p) \/ Conflict(p) \/ Deadlock(p) \/ Fail(p)
    PROVE  EInv'
  <1>1. Close(p) /\ intel' = intel
    BY DEF NothingToDo, Conflict, Deadlock, Fail
  <1>2. failures' = failures \/ (failures < MaxFailures /\ failures' = failures + 1)
    BY DEF NothingToDo, Conflict, Deadlock, Fail
  <1>3. failures' \in 0 .. MaxFailures
    BY <1>2, EnrichAssumption DEF EInv, EnrichTypeOK
  <1>4. /\ intel \in [Ips -> SUBSET Parts]
        /\ \A ip \in Ips : intel[ip] \subseteq Known[ip]
    BY DEF EInv, EnrichTypeOK
  <1>5. QED BY <1>1, <1>3, <1>4, EndKeeps

\* Every step of a request keeps the invariant.
LEMMA NextEInv ==
    ASSUME EInv, [EnrichNext]_enrichVars
    PROVE  EInv'
  <1>1. CASE UNCHANGED enrichVars
    BY <1>1 DEF EInv, LocalsOK, EnrichTypeOK, enrichVars, locals
  <1>2. ASSUME NEW p \in Threads,
               \/ \E r \in DOMAIN Reports : View(p, r)
               \/ Backfill(p)
               \/ Proceed(p) \/ Fail(p)
        PROVE  EInv'
    BY <1>2, BeginKeeps, ReadKeeps, ResolveKeeps, WriteKeeps, CommitKeeps, RollbackKeeps
       DEF Proceed
  <1>3. QED BY <1>1, <1>2 DEF EnrichNext

\* enrich_ips: a page looks up no more addresses than its limit, however many
\* have no row or half of one; no row is written by two pages at once, and none
\* is inserted twice; what rows say is what the sources told.
THEOREM EnrichTypeCorrect == EnrichSpec => []EnrichTypeOK
  <1>1. EnrichInit => EInv
    BY InitEInv
  <1>2. EInv /\ [EnrichNext]_enrichVars => EInv'
    BY NextEInv
  <1>3. EInv => EnrichTypeOK
    BY DEF EInv
  <1>4. QED BY <1>1, <1>2, <1>3, PTL DEF EnrichSpec

\* "x or old", column by column: whatever a throttled look-up, a stale read or
\* a page that resolves the same address brings, nothing known is lost.
THEOREM NamesAreKept == EnrichSpec => NothingForgotten
  <1>1. ASSUME [EnrichNext]_enrichVars
        PROVE  [\A ip \in Ips : intel[ip] \subseteq intel'[ip]]_enrichVars
    <2>1. CASE intel' = intel \/ UNCHANGED enrichVars
      BY <2>1 DEF enrichVars
    <2>2. CASE \E p \in Threads : Commit(p)
      BY <2>2 DEF Commit, Merged
    <2>3. EnrichNext => intel' = intel \/ \E p \in Threads : Commit(p)
      BY DEF EnrichNext, Proceed, View, Backfill, ReadRows,
             Resolve, WriteRow, NothingToDo, Conflict,
             Deadlock, Fail
    <2>4. QED BY <1>1, <2>1, <2>2, <2>3
  <1>2. QED BY <1>1, PTL DEF EnrichSpec, NothingForgotten
=============================================================================
