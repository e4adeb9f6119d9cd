------------------------------ MODULE SpfWalk ------------------------------
(***************************************************************************)
(* Expanding a domain's SPF record (ingest/spf.py, expand_with_cost).      *)
(*                                                                         *)
(* The code recurses; here its call stack is a variable, and one term of a *)
(* record is a step.  What is published in the DNS is a zone: the SPF      *)
(* terms, the addresses and the mail exchanges of every name.  Any look-up *)
(* may fail, and a failed look-up is an empty answer to the code.          *)
(***************************************************************************)
EXTENDS Integers, Sequences, FiniteSets

CONSTANTS
    Names,         \* names that records mention
    Nets,          \* networks
    Self,          \* no host is given: "a", "mx"
    Zones,         \* what may be published
    MaxTerms,      \* MAX_DNS_TERMS, 10 in the code
    MaxExchanges   \* exchanges of one mx term that are resolved, 5 in the code

\* redirect= is walked as include: is; an ip term that does not parse, "all",
\* ptr, exists, and terms with a qualifier other than + are "other".  An a or mx
\* may end in a prefix length: "a:/" stands for a:host/24, "a/" for a bare a/24.
Terms ==
    [kind : {"ip"}, net : Nets] \cup [kind : {"include"}, host : Names]
    \cup [kind : {"a", "mx"}, host : Names \cup {Self}]
    \cup [kind : {"a:/", "mx:/"}, host : Names] \cup [kind : {"a/", "mx/", "other"}]

ASSUME SpfAssumption ==
    /\ IsFiniteSet(Names) /\ Self \notin Names
    /\ MaxTerms \in Nat \ {0} /\ MaxExchanges \in Nat
    /\ \A z \in Zones :
          /\ z.txt \in [Names -> Seq(Terms)]
          /\ z.addr \in [Names -> SUBSET Nets]
          /\ z.mx \in [Names -> Seq(Names)]

VARIABLES
    zone,
    domain,    \* whose record is expanded, Self if none
    budget, seen, networks,
    stack,     \* the calls of walk: a name and the terms still to look at
    calling,   \* the name that walk is being called with, Self if none
    lossy      \* a look-up of this walk has failed

spfVars == <<zone, domain, budget, seen, networks, stack, calling, lossy>>

Done == stack = << >> /\ calling = Self

SpfInit ==
    /\ zone \in Zones
    /\ domain = Self
    /\ budget = MaxTerms
    /\ seen = {} /\ networks = {}
    /\ stack = << >> /\ calling = Self
    /\ lossy = FALSE

\* expand_with_cost(d)
Begin(d) ==
    /\ Done
    /\ domain' = d
    /\ budget' = MaxTerms
    /\ seen' = {} /\ networks' = {}
    /\ stack' = << >> /\ calling' = d
    /\ lossy' = FALSE
    /\ UNCHANGED zone

\* The walk's variables are gone.
Forget ==
    /\ domain' = Self
    /\ budget' = MaxTerms
    /\ seen' = {} /\ networks' = {}
    /\ stack' = << >> /\ calling' = Self
    /\ lossy' = FALSE
    /\ UNCHANGED zone

\* The caller has the result.
Leave == Done /\ Forget

\* What a look-up brings: all answers, or only some of them when it fails.
Answered(all, got) ==
    \/ got = all /\ UNCHANGED lossy
    \/ got \in SUBSET all \ {all} /\ lossy' = TRUE

\* Mutant: the same record is walked each time it is included.
EnterAgain ==
    /\ calling # Self
    /\ calling' = Self
    /\ \/ budget <= 0 /\ UNCHANGED <<seen, stack, lossy>>
       \/ /\ budget > 0
          /\ seen' = seen \cup {calling}
          /\ UNCHANGED lossy
          /\ stack' = Append(stack, [name |-> calling, rest |-> zone.txt[calling]])
    /\ UNCHANGED <<zone, domain, budget, networks>>

\* walk(name) up to its loop; a record that is absent, or cannot be had, ends
\* the call.
Enter ==
    /\ calling # Self
    /\ calling' = Self
    /\ \/ /\ budget <= 0 \/ calling \in seen
          /\ UNCHANGED <<seen, stack, lossy>>
       \/ /\ budget > 0 /\ calling \notin seen
          /\ seen' = seen \cup {calling}
          /\ \E got \in SUBSET {calling} :
                /\ Answered({calling}, got)
                /\ stack' = IF got = {} THEN stack
                            ELSE Append(stack, [name |-> calling,
                                                rest |-> zone.txt[calling]])
    /\ UNCHANGED <<zone, domain, budget, networks>>

Top  == stack[Len(stack)]
Term == Head(Top.rest)

\* Mutant: the limit is looked at on entry only.
AtTermUnlimited(kinds) ==
    /\ calling = Self /\ stack # << >>
    /\ Top.rest # << >>
    /\ Term.kind \in kinds
    /\ stack' = [stack EXCEPT ![Len(stack)].rest = Tail(@)]
    /\ UNCHANGED <<zone, domain, seen>>

\* The loop goes on while there are terms and look-ups left.
AtTerm(kinds) ==
    /\ calling = Self /\ stack # << >>
    /\ budget > 0 /\ Top.rest # << >>
    /\ Term.kind \in kinds
    /\ stack' = [stack EXCEPT ![Len(stack)].rest = Tail(@)]
    /\ UNCHANGED <<zone, domain, seen>>

Include ==
    /\ AtTerm({"include"})
    /\ budget' = budget - 1
    /\ calling' = Term.host
    /\ UNCHANGED <<networks, lossy>>

\* Mutant: a bare a or mx means the domain that is expanded.
HostOfDomain(name, term) == IF term.host = Self THEN domain ELSE term.host

\* The host of an a or mx term in the record of a name.
Host(name, term) == IF term.host = Self THEN name ELSE term.host

\* What the look-ups of a term bring.  "host/24" is looked up as a name, which
\* nobody has.
Found(z, host, term) ==
    CASE term.kind = "ip" -> {term.net}
      [] term.kind = "a"  -> z.addr[host]
      [] term.kind = "mx" ->
            UNION {z.addr[z.mx[host][i]] :
                       i \in {j \in DOMAIN z.mx[host] : j <= MaxExchanges}}
      [] OTHER -> {}

Addresses ==
    /\ AtTerm({"a", "mx", "a:/", "mx:/"})
    /\ budget' = budget - 1
    /\ LET all == Found(zone, Host(Top.name, Term), Term) IN
       \E got \in SUBSET all : Answered(all, got) /\ networks' = networks \cup got
    /\ UNCHANGED calling

\* A bare a/24 is not recognised, as other terms are not.
Literal ==
    /\ AtTerm({"ip", "a/", "mx/", "other"})
    /\ networks' = networks \cup Found(zone, Self, Term)
    /\ UNCHANGED <<budget, calling, lossy>>

Return ==
    /\ calling = Self /\ stack # << >>
    /\ budget <= 0 \/ Top.rest = << >>
    /\ stack' = SubSeq(stack, 1, Len(stack) - 1)
    /\ UNCHANGED <<zone, domain, budget, seen, networks, calling, lossy>>

Walk == Enter \/ Include \/ Addresses \/ Literal \/ Return

\* The look-ups that expand_with_cost reports.
Used == MaxTerms - (IF budget > 0 THEN budget ELSE 0)

-----------------------------------------------------------------------------
(* What the record means, without reference to the walk.                   *)

\* Names whose records are part of d's: the least set with d that is closed
\* under include.
Closed(S) ==
    \A n \in S : \A i \in DOMAIN zone.txt[n] :
        zone.txt[n][i].kind = "include" => zone.txt[n][i].host \in S

Reach(d) == {n \in Names : \A S \in SUBSET Names : d \in S /\ Closed(S) => n \in S}

\* The name that a term in a record of n is about.
Subject(n, t) ==
    IF t.kind \in {"a", "mx", "a:/", "mx:/"} /\ t.host # Self THEN t.host ELSE n

\* The networks of a name's exchanges, without its first k.
ExchangesAfter(k, n) ==
    UNION {zone.addr[zone.mx[n][i]] : i \in {j \in DOMAIN zone.mx[n] : j > k}}

\* The networks that a term of a record of n stands for: with a prefix length,
\* those around the addresses, so the addresses at least.
Meant(n, t) ==
    CASE t.kind = "ip"                     -> {t.net}
      [] t.kind \in {"a", "a:/", "a/"}     -> zone.addr[Subject(n, t)]
      [] t.kind \in {"mx", "mx:/", "mx/"}  -> ExchangesAfter(0, Subject(n, t))
      [] OTHER                             -> {}

\* Those of them that are given up: the exchanges of an mx after the first few,
\* and all that a term with a prefix length stands for.
GivenUp(n, t) ==
    CASE t.kind = "mx" -> ExchangesAfter(MaxExchanges, Subject(n, t))
      [] t.kind \in {"a:/", "a/", "mx:/", "mx/"} -> Meant(n, t)
      [] OTHER -> {}

Authorised(d) ==
    UNION {UNION {Meant(n, zone.txt[n][i]) : i \in DOMAIN zone.txt[n]} : n \in Reach(d)}

\* The terms in the records of these names that cost a look-up, each as the name
\* and its place in the record; a bare a/24 or mx/24 is not counted.
LookUps(S) ==
    UNION {{<<n, i>> : i \in {j \in DOMAIN zone.txt[n] :
                zone.txt[n][j].kind \in {"include", "a", "mx", "a:/", "mx:/"}}} :
           n \in S}

\* The look-ups of the reachable records, each record once.
Cost(d) == Cardinality(LookUps(Reach(d)))

-----------------------------------------------------------------------------
(* Properties.                                                             *)

SpfTypeOK ==
    /\ zone \in Zones /\ domain \in Names \cup {Self}
    /\ budget \in 0 .. MaxTerms
    /\ seen \subseteq Names /\ networks \subseteq Nets
    /\ stack \in Seq([name : Names, rest : Seq(Terms)])
    /\ calling \in Names \cup {Self}
    /\ lossy \in BOOLEAN

\* "Every include:, a, mx and ip4/ip6 term resolves to concrete networks, and a
\* source IP either falls inside them or does not": whatever look-ups fail, the
\* walk lists no network that the domain's published records do not.
NothingInvented == networks # {} => networks \subseteq Authorised(domain)

\* "How many of the ten permitted lookups it consumed": a walk that lost no
\* answer reports the look-ups of the reachable records, each record once, up to
\* the limit.  Below the limit it lists every network that a term of a reachable
\* record stands for, loops and records included twice notwithstanding, except
\* what the code gives up: senders behind the later exchanges of an mx, or
\* behind a term with a prefix length, are shown as unknown.
WalkIsExact ==
    Done /\ domain # Self /\ ~lossy =>
        /\ Used = IF Cost(domain) < MaxTerms THEN Cost(domain) ELSE MaxTerms
        /\ Cost(domain) < MaxTerms =>
              \A n \in Reach(domain) : \A i \in DOMAIN zone.txt[n] :
                  Meant(n, zone.txt[n][i]) \subseteq networks \cup GivenUp(n, zone.txt[n][i])
=============================================================================
