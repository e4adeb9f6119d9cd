------------------------------ MODULE DnsCheck ------------------------------
(***************************************************************************)
(* The live check of one domain's DNS records (control_plane/service.py    *)
(* required_dns_records, check_dns_records, force_dns_recheck and the      *)
(* cache between them), run by page loads, the API and the metrics thread  *)
(* of one process, while the owner rotates report addresses.               *)
(*                                                                         *)
(* Threads share the cache and nothing locks it.  Every access of it is an *)
(* action; asking DNS takes time, so a look-up is an action that asks and  *)
(* one that stores the answer.  The clock counts ticks; only a look-up     *)
(* takes any.                                                              *)
(*                                                                         *)
(* An answer is a set of TXT values, each with whether it mentions the     *)
(* report host, whether it starts with the version tag, the addresses it   *)
(* names and the one of them that follows "rua=mailto:".  DNS may give any *)
(* of them at any time: the owner edits the zone, and when its own         *)
(* nameservers cannot be found a public resolver is asked, which may be    *)
(* behind.                                                                 *)
(***************************************************************************)
EXTENDS Integers, Sequences

CONSTANTS
    Required,     \* the record names, in the order of required_dns_records
    Reporting,    \* those that name report addresses; the others are the
                  \* operator's verification record
    Led,          \* the _dmarc record: its rua begins with an address, that
                  \* of the _smtp._tls record with a URL
    Addresses,    \* local parts, numbered in the order they are minted
    Active,       \* the domain's when the process starts, and
    Retired,      \* the ones deactivated by then
    Shared,       \* the address of a polled mailbox, or NoValue
    Answers,      \* what DNS may answer for each name
    Failed,       \* one of the answers: time-out, SERVFAIL
    Threads,
    TTL,          \* DNS_CACHE_TTL, in ticks
    Interval,     \* DNS_RECHECK_INTERVAL, in ticks
    MaxLookup,    \* bound on the ticks a look-up takes: the resolver's lifetimes
    MaxTime,      \* bound on the clock
    NoValue

Names == {Required[i] : i \in DOMAIN Required}
Text  == [ours : BOOLEAN, tagged : BOOLEAN, names : SUBSET (Addresses \cup {Shared}),
          first : Addresses \cup {Shared, NoValue}]

ASSUME DnsAssumption ==
    /\ Required \in Seq(Names) /\ Required # << >>
    /\ \A i, j \in DOMAIN Required : Required[i] = Required[j] => i = j
    /\ Led \subseteq Reporting /\ Reporting \subseteq Names
    /\ DOMAIN Answers = Names
    /\ \A n \in Names : \A x \in Answers[n] \ {Failed} :
          x \subseteq {v \in Text : v.first \in v.names \cup {NoValue}}
    /\ Addresses \subseteq Nat /\ NoValue \notin Addresses
    /\ Shared \in Addresses \cup {NoValue}
    /\ Active \subseteq Addresses \ {Shared}
    /\ Retired \subseteq Addresses \ (Active \cup {Shared})
    /\ TTL \in Nat \ {0} /\ Interval \in Nat /\ MaxLookup \in Nat
    /\ MaxTime \in Nat

VARIABLES
    now,
    active, retired,      \* report_addresses of the domain
    cache,                \* _dns_cache: [value, at, asked], or NoValue
    forced,               \* when a forced re-check last went through, 0 if never
    \* per thread
    pc, left, expect, asking, young,
    shown,                \* the answer just judged, or NoValue
    since                 \* forced, when the check began

world  == <<now, active, retired>>
thread == <<pc, left, expect, asking, young, shown, since>>
vars   == <<world, cache, forced, thread>>

NoAnswer == [value |-> {}, asked |-> 0]
NoExpect == [addresses |-> {}, retired |-> {}]

Init ==
    /\ now = 0
    /\ active = Active /\ retired = Retired
    /\ cache = [n \in Names |-> NoValue]
    /\ forced = 0
    /\ pc = [t \in Threads |-> "idle"]
    /\ left = [t \in Threads |-> << >>]
    /\ expect = [t \in Threads |-> NoExpect]
    /\ asking = [t \in Threads |-> NoAnswer]
    /\ young = [t \in Threads |-> {}]
    /\ shown = [t \in Threads |-> NoValue]
    /\ since = [t \in Threads |-> 0]

-----------------------------------------------------------------------------
(* The world outside: the clock and the addresses.                          *)

\* A look-up ends before MaxLookup ticks are over.
Tick ==
    /\ now < MaxTime
    /\ \A t \in Threads :
          /\ pc[t] \in {"idle", "store"}
          /\ pc[t] = "store" => now < asking[t].asked + MaxLookup
    /\ now' = now + 1
    /\ UNCHANGED <<active, retired, cache, forced, thread>>

MintAddress(a) ==
    /\ a # Shared /\ \A b \in active \cup retired : b < a
    /\ active' = active \cup {a}
    /\ UNCHANGED <<now, retired, cache, forced, thread>>

DeactivateAddress(a) ==
    /\ a \in active
    /\ active' = active \ {a}
    /\ retired' = retired \cup {a}
    /\ UNCHANGED <<now, cache, forced, thread>>

-----------------------------------------------------------------------------
(* The verdict of a record.                                                *)

Ours(x) == {v \in x : v.ours}

\* Mutant: an answer of ours is published, whatever it names.
StatusRetiredMissed(n, x, e) ==
    CASE x = Failed                     -> "unknown"
      [] x = {}                         -> "missing"
      [] x \notin {Failed, {}}          ->
            IF Ours(x) = {} THEN "mismatch"
            ELSE IF \E v \in Ours(x) : v.tagged THEN "ok" ELSE "malformed"

Oldest(S) == CHOOSE a \in S : \A b \in S : a <= b

\* _names_expected_address.  A record lists what it expects from the oldest on,
\* and only a "mailto:" in front is taken off: what comes as "rua=mailto:..." is
\* looked for as that.
NamesExpected(n, v, expected) ==
    \E a \in expected :
        IF n \in Led /\ a = Oldest(expected) THEN a = v.first ELSE a \in v.names

\* check_dns_records.  Only reporting records have retired addresses to look
\* for, and the names are compared only when there are any.
Status(n, x, e) ==
    LET marked == n \in Reporting /\ e.retired # {} IN
    CASE x = Failed                     -> "unknown"
      [] x = {}                         -> "missing"
      [] x \notin {Failed, {}}          ->
            IF Ours(x) = {} THEN "mismatch"
            ELSE IF \A v \in Ours(x) : ~v.tagged THEN "malformed"
            ELSE IF marked /\ \A v \in Ours(x) : ~NamesExpected(n, v, e.addresses) THEN "retired"
            ELSE "ok"

-----------------------------------------------------------------------------
(* Requests.                                                               *)

Goto(t, s) == pc' = [pc EXCEPT ![t] = s]

\* The rua mailto of every record names the shared mailbox, or else all
\* active addresses.
Expected ==
    [addresses |-> IF Shared # NoValue THEN {Shared} ELSE active,
     retired   |-> retired]

\* A check, for a page, the API or the metrics thread.
Verify(t) ==
    /\ pc[t] = "idle"
    /\ Goto(t, "check")
    /\ left' = [left EXCEPT ![t] = Required]
    /\ expect' = [expect EXCEPT ![t] = Expected]
    /\ since' = [since EXCEPT ![t] = forced]
    /\ UNCHANGED <<world, cache, forced, asking, young, shown>>

\* The re-check button.
Recheck(t) ==
    /\ pc[t] = "idle"
    /\ Goto(t, "test")
    /\ left' = [left EXCEPT ![t] = Required]
    /\ UNCHANGED <<world, cache, forced, expect, asking, young, shown, since>>

Finish(t) ==
    /\ Goto(t, "idle")
    /\ left' = [left EXCEPT ![t] = << >>]
    /\ expect' = [expect EXCEPT ![t] = NoExpect]
    /\ young' = [young EXCEPT ![t] = {}]
    /\ shown' = [shown EXCEPT ![t] = NoValue]
    /\ since' = [since EXCEPT ![t] = 0]

Skip(t) == left' = [left EXCEPT ![t] = Tail(@)]

\* The record n is judged by the answer x.
Show(t, n, x) ==
    shown' = [shown EXCEPT ![t] =
                 [name |-> n, value |-> x.value, asked |-> x.asked, at |-> now,
                  status |-> Status(n, x.value, expect[t])]]

\* Mutant: the last tick counts in.
LiveTooLong(n) == cache[n] # NoValue /\ now - cache[n].at <= TTL

Live(n) == cache[n] # NoValue /\ now - cache[n].at < TTL

\* _resolve_txt_cached, a hit.
Hit(t) ==
    /\ pc[t] = "check" /\ left[t] # << >>
    /\ LET n == Head(left[t]) IN Live(n) /\ Show(t, n, cache[n])
    /\ Skip(t)
    /\ UNCHANGED <<world, cache, forced, pc, expect, asking, young, since>>

\* A miss: DNS is asked.
Ask(t) ==
    /\ pc[t] = "check" /\ left[t] # << >>
    /\ ~Live(Head(left[t]))
    /\ \E x \in Answers[Head(left[t])] :
          asking' = [asking EXCEPT ![t] = [value |-> x, asked |-> now]]
    /\ Goto(t, "store")
    /\ UNCHANGED <<world, cache, forced, left, expect, young, shown, since>>

\* The answer is cached, a failure too, and shown.
Store(t) ==
    LET n == Head(left[t])
        x == asking[t]
    IN
    /\ pc[t] = "store"
    /\ cache' = [cache EXCEPT ![n] = [value |-> x.value, asked |-> x.asked, at |-> now]]
    /\ Show(t, n, x)
    /\ Skip(t)
    /\ asking' = [asking EXCEPT ![t] = NoAnswer]
    /\ Goto(t, "check")
    /\ UNCHANGED <<world, forced, expect, young, since>>

EndCheck(t) ==
    /\ pc[t] = "check" /\ left[t] = << >>
    /\ Finish(t)
    /\ UNCHANGED <<world, cache, forced, asking>>

-----------------------------------------------------------------------------
(* dns_checked_age: "if n in _dns_cache", then _dns_cache[n].              *)

Test(t) ==
    /\ pc[t] = "test" /\ left[t] # << >>
    /\ IF cache[Head(left[t])] # NoValue
         THEN Goto(t, "index") /\ UNCHANGED left
         ELSE Skip(t) /\ UNCHANGED pc
    /\ UNCHANGED <<world, cache, forced, expect, asking, young, shown, since>>

Index(t) ==
    LET n == Head(left[t]) IN
    /\ pc[t] = "index"
    /\ cache[n] # NoValue
    /\ young' = [young EXCEPT ![t] =
                    IF now - cache[n].at < Interval THEN @ \cup {n} ELSE @]
    /\ Skip(t)
    /\ Goto(t, "test")
    /\ UNCHANGED <<world, cache, forced, expect, asking, shown, since>>

\* Another thread dropped the entry in between: KeyError, an error page.
IndexError(t) ==
    /\ pc[t] = "index"
    /\ cache[Head(left[t])] = NoValue
    /\ Finish(t)
    /\ UNCHANGED <<world, cache, forced, asking>>

\* A re-check is refused when the oldest look-up is young, and every name has
\* one.
TooSoon(t) == young[t] = Names

EndAge(t) ==
    /\ pc[t] = "test" /\ left[t] = << >>
    /\ IF ~TooSoon(t)
         THEN /\ Goto(t, "drop")
              /\ left' = [left EXCEPT ![t] = Required]
              /\ UNCHANGED <<expect, young, shown, since>>
         ELSE Finish(t)
    /\ UNCHANGED <<world, cache, forced, asking>>

\* Mutant: only the first name is dropped.
DropFirstOnly(t) ==
    /\ pc[t] = "drop"
    /\ cache' = [cache EXCEPT ![Head(left[t])] = NoValue]
    /\ forced' = now /\ Finish(t)
    /\ UNCHANGED <<world, asking>>

\* Mutant: the end is tested for after the last name.
DropPastEnd(t) ==
    /\ pc[t] = "drop"
    /\ cache' = [cache EXCEPT ![Head(left[t])] = NoValue]
    /\ Skip(t)
    /\ UNCHANGED <<world, forced, pc, expect, asking, young, shown, since>>

\* force_dns_recheck drops one name after the other.
Drop(t) ==
    /\ pc[t] = "drop"
    /\ cache' = [cache EXCEPT ![Head(left[t])] = NoValue]
    /\ IF Len(left[t]) = 1
         THEN forced' = now /\ Finish(t)
         ELSE Skip(t) /\ UNCHANGED <<forced, pc, expect, young, shown, since>>
    /\ UNCHANGED <<world, asking>>

-----------------------------------------------------------------------------
Step(t) ==
    \/ Hit(t) \/ Ask(t) \/ Store(t) \/ EndCheck(t)
    \/ Test(t) \/ Index(t) \/ IndexError(t) \/ EndAge(t) \/ Drop(t)

Next ==
    \/ \E t \in Threads : Verify(t) \/ Recheck(t) \/ Step(t)
    \/ \E a \in Addresses : MintAddress(a) \/ DeactivateAddress(a)
    \/ Tick

Spec == Init /\ [][Next]_vars

-----------------------------------------------------------------------------
(* Properties.                                                             *)

TypeOK ==
    /\ now \in 0 .. MaxTime
    /\ active \subseteq Addresses /\ retired \subseteq Addresses \ active
    /\ DOMAIN cache = Names
    /\ \A n \in Names : cache[n] # NoValue =>
          cache[n].value \in Answers[n] /\ cache[n].asked <= cache[n].at
    /\ forced \in 0 .. now
    /\ pc \in [Threads -> {"idle", "check", "store", "test", "index", "drop"}]
    /\ \A t \in Threads :
          /\ \E i \in 1 .. Len(Required) + 1 :
                left[t] = SubSeq(Required, i, Len(Required))
          /\ pc[t] \in {"store", "index", "drop"} => left[t] # << >>
          /\ shown[t] # NoValue => shown[t].value \in Answers[shown[t].name]
          /\ since[t] \in 0 .. now

\* "Cached 15 minutes": the answer a check uses was asked for less than that
\* and one look-up ago, whichever thread asked for it and however long it
\* took to store it.
ShownIsRecent ==
    \A t \in Threads : shown[t] # NoValue =>
        shown[t].at - shown[t].asked < TTL + MaxLookup

\* After a forced re-check went through, no check that begins later uses an
\* answer older than the look-ups that were under way at that moment.
RecheckIsFresh ==
    \A t \in Threads : shown[t] # NoValue =>
        shown[t].asked + MaxLookup >= since[t]

\* "Rotating in the UI without updating DNS must not read as healthy": a check
\* that calls a record published found an address in it that was still active
\* when the check began, once any was retired, however old the answer is.
PublishedIsLive ==
    \A t \in Threads :
        (/\ shown[t] # NoValue /\ shown[t].name \in Reporting
         /\ shown[t].status = "ok" /\ expect[t].retired # {}) =>
            \E v \in shown[t].value : v.ours /\ v.names \ expect[t].retired # {}
=============================================================================
