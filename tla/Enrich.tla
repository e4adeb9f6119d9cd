------------------------------- MODULE Enrich -------------------------------
(***************************************************************************)
(* Naming the owners of sending addresses (ingest/enrich.py): report pages *)
(* and "dmarc-service enrich" resolve the addresses that have no row in    *)
(* ip_intel, or a row without registry data, and store what they learn.    *)
(*                                                                         *)
(* Each run is a transaction on PostgreSQL at READ COMMITTED: it reads the *)
(* rows, looks the addresses up, writes, and holds the rows it has written *)
(* until it commits; a report page expands the domain's SPF record before  *)
(* that.  A row is the set of its parts that are known; there is no row    *)
(* with none.  What a source says of an address does not change.           *)
(***************************************************************************)
EXTENDS Integers, Sequences, FiniteSets, SequencesExt

CONSTANTS
    Ips,
    Known,          \* per address, what the public sources know of it
    Reports,        \* per report, its source addresses in order, each once
    Threads,        \* those that serve pages and run the command
    Limit,          \* addresses that a page resolves, 25 in the code
    BackfillLimit,  \* addresses that the command resolves, 500 in the code
    MaxFailures     \* bound on throttled look-ups and on failed requests

Parts == {"ptr", "registry"}

ASSUME EnrichAssumption ==
    /\ IsFiniteSet(Ips)
    /\ Known \in [Ips -> SUBSET Parts]
    /\ \A r \in DOMAIN Reports : Reports[r] \in Seq(Ips)
    /\ Limit \in Nat /\ BackfillLimit \in Nat /\ MaxFailures \in Nat

VARIABLES
    intel,      \* the table ip_intel, as committed
    failures,
    pc,
    ips, limit, \* the arguments of enrich_ips
    cached,     \* the rows it has read
    todo,       \* the addresses to look up
    found,      \* what the look-ups told
    left,       \* the rows still to write
    held        \* the rows written and not committed

locals == <<ips, limit, cached, todo, found, left>>
enrichVars == <<intel, failures, pc, locals, held>>

NoRows == [ip \in Ips |-> {}]

EnrichInit ==
    /\ intel = NoRows
    /\ failures = 0
    /\ pc     = [p \in Threads |-> "idle"]
    /\ ips    = [p \in Threads |-> << >>]
    /\ limit  = [p \in Threads |-> 0]
    /\ cached = [p \in Threads |-> NoRows]
    /\ todo   = [p \in Threads |-> << >>]
    /\ found  = [p \in Threads |-> NoRows]
    /\ left   = [p \in Threads |-> << >>]
    /\ held   = [p \in Threads |-> {}]

Continue(p, l) == pc' = [pc EXCEPT ![p] = l]

\* A row without registry data came from a throttled look-up.
Incomplete(row) == row # {} /\ "registry" \notin row

\* A report page: all addresses of the report.
View(p, r) ==
    /\ pc[p] = "idle"
    /\ ips' = [ips EXCEPT ![p] = Reports[r]]
    /\ limit' = [limit EXCEPT ![p] = Limit]
    /\ Continue(p, "read")
    /\ UNCHANGED <<intel, failures, cached, todo, found, left, held>>

\* Addresses that some report mentions.
Seen == UNION {Range(Reports[r]) : r \in DOMAIN Reports}

\* backfill: addresses without a complete row, in no order, up to a limit.
Backfill(p) ==
    LET open == {ip \in Seen : "registry" \notin intel[ip]} IN
    /\ pc[p] = "idle"
    /\ open # {}
    /\ \E S \in SUBSET open : \E s \in SetToSeqs(S) :
          /\ S = open \/ Len(s) = BackfillLimit
          /\ Len(s) <= BackfillLimit
          /\ ips' = [ips EXCEPT ![p] = s]
          /\ limit' = [limit EXCEPT ![p] = Len(s)]
    /\ Continue(p, "read")
    /\ UNCHANGED <<intel, failures, cached, todo, found, left, held>>

\* The members of S in the order that they have in s.
InOrderOf(s, S) ==
    {t \in SetToSeqs(S) :
        \A i, j \in DOMAIN t : i < j =>
            \E g, h \in DOMAIN s : g < h /\ s[g] = t[i] /\ s[h] = t[j]}

\* Mutant: a row, once it is there, is never looked up again.
WantedOnce(s, table) == InOrderOf(s, {ip \in Range(s) : table[ip] = {}})

\* The addresses to resolve: new ones in the order given, then incomplete ones
\* in the order that the rows were read.
Wanted(s, table) ==
    {pair[1] \o pair[2] :
         pair \in InOrderOf(s, {ip \in Range(s) : table[ip] = {}})
                 \X SetToSeqs({ip \in Range(s) : Incomplete(table[ip])})}

\* Mutant: one more than the limit.
FirstAndOneMore(s, n) == SubSeq(s, 1, IF Len(s) <= n THEN Len(s) ELSE n + 1)

First(s, n) == SubSeq(s, 1, IF Len(s) <= n THEN Len(s) ELSE n)

\* enrich_ips reads the rows; with nothing to do the request is over.
ReadRows(p) ==
    /\ pc[p] = "read"
    /\ cached' = [cached EXCEPT ![p] =
                     [ip \in Ips |-> IF ip \in Range(ips[p]) THEN intel[ip] ELSE {}]]
    /\ \E s \in Wanted(ips[p], cached'[p]) :
          todo' = [todo EXCEPT ![p] = First(s, limit[p])]
    /\ Continue(p, IF todo'[p] = << >> THEN "done" ELSE "lookup")
    /\ UNCHANGED <<intel, failures, ips, limit, found, left, held>>

\* The look-ups; a registry may throttle, a resolver may not answer.  Only what
\* changes a row is written: the updates first, in the order of the rows' ids,
\* which is left open here, then the new rows in the order of the look-ups.
Resolve(p) ==
    /\ pc[p] = "lookup"
    /\ \E told \in [Range(todo[p]) -> SUBSET Parts] :
          LET all == \A ip \in DOMAIN told : told[ip] = Known[ip]
              new == {ip \in DOMAIN told : told[ip] \ cached[p][ip] # {}}
          IN /\ \A ip \in DOMAIN told : told[ip] \subseteq Known[ip]
             /\ \/ all /\ UNCHANGED failures
                \/ ~all /\ failures < MaxFailures /\ failures' = failures + 1
             /\ found' = [found EXCEPT ![p] =
                             [ip \in Ips |-> IF ip \in DOMAIN told THEN told[ip] ELSE {}]]
             /\ \E updates \in SetToSeqs({ip \in new : cached[p][ip] # {}}),
                   inserts \in InOrderOf(todo[p], {ip \in new : cached[p][ip] = {}}) :
                   left' = [left EXCEPT ![p] = updates \o inserts]
    /\ Continue(p, "write")
    /\ UNCHANGED <<intel, ips, limit, cached, todo, held>>

\* Another transaction has written the row and has not ended.
Blocks(q, p) ==
    pc[p] = "write" /\ left[p] # << >> /\ p # q /\ Head(left[p]) \in held[q]

IsInsert(p) == cached[p][Head(left[p])] = {}

WriteRow(p) ==
    /\ pc[p] = "write" /\ left[p] # << >>
    /\ \A q \in Threads : ~Blocks(q, p)
    /\ IsInsert(p) => intel[Head(left[p])] = {}
    /\ held' = [held EXCEPT ![p] = @ \cup {Head(left[p])}]
    /\ left' = [left EXCEPT ![p] = Tail(@)]
    /\ UNCHANGED <<intel, failures, pc, ips, limit, cached, todo, found>>

\* The end of a request and of its transaction.
Close(p) ==
    /\ pc'     = [pc EXCEPT ![p] = "idle"]
    /\ ips'    = [ips EXCEPT ![p] = << >>]
    /\ limit'  = [limit EXCEPT ![p] = 0]
    /\ cached' = [cached EXCEPT ![p] = NoRows]
    /\ todo'   = [todo EXCEPT ![p] = << >>]
    /\ found'  = [found EXCEPT ![p] = NoRows]
    /\ left'   = [left EXCEPT ![p] = << >>]
    /\ held'   = [held EXCEPT ![p] = {}]

\* Mutant: the answer replaces the row.
Replaced(row, told) == told

\* "x or old", column by column.
Merged(row, told) == row \cup told

\* The page is shown, with whatever took its time, and the session commits.
Commit(p) ==
    /\ pc[p] = "write" /\ left[p] = << >>
    /\ intel' = [ip \in Ips |-> IF ip \in held[p] THEN Merged(intel[ip], found[p][ip])
                                                  ELSE intel[ip]]
    /\ Close(p)
    /\ UNCHANGED failures

NothingToDo(p) ==
    /\ pc[p] = "done"
    /\ Close(p)
    /\ UNCHANGED <<intel, failures>>

\* The new row is there by now: the unique index fails the request.
Conflict(p) ==
    /\ pc[p] = "write" /\ left[p] # << >>
    /\ \A q \in Threads : ~Blocks(q, p)
    /\ IsInsert(p) /\ intel[Head(left[p])] # {}
    /\ Close(p)
    /\ UNCHANGED <<intel, failures>>

\* Transactions that wait for each other: the database ends one of them.
Deadlock(p) ==
    /\ \E S \in SUBSET Threads :
          p \in S /\ \A q \in S : \E o \in S : Blocks(o, q)
    /\ Close(p)
    /\ UNCHANGED <<intel, failures>>

\* Any other failure of the request, a crash included.
Fail(p) ==
    /\ pc[p] # "idle"
    /\ failures < MaxFailures
    /\ failures' = failures + 1
    /\ Close(p)
    /\ UNCHANGED intel

Proceed(p) ==
    \/ ReadRows(p) \/ Resolve(p) \/ WriteRow(p) \/ Commit(p) \/ NothingToDo(p)
    \/ Conflict(p) \/ Deadlock(p)

EnrichNext ==
    \E p \in Threads :
        \/ \E r \in DOMAIN Reports : View(p, r)
        \/ Backfill(p)
        \/ Proceed(p) \/ Fail(p)

EnrichSpec == EnrichInit /\ [][EnrichNext]_enrichVars

\* Requests go on, and every report is looked at again and again.
EnrichFairSpec ==
    /\ EnrichSpec
    /\ \A p \in Threads : WF_enrichVars(Proceed(p))
    /\ \A r \in DOMAIN Reports : SF_enrichVars(\E p \in Threads : View(p, r))

-----------------------------------------------------------------------------
(* Properties.                                                             *)

\* A row says no more than what is known of its address, a page looks up no more
\* addresses than its limit, two transactions never hold the same row, and an
\* address whose row was inserted by one that has not ended has no other row.
EnrichTypeOK ==
    /\ intel \in [Ips -> SUBSET Parts]
    /\ \A ip \in Ips : intel[ip] \subseteq Known[ip]
    /\ failures \in 0 .. MaxFailures
    /\ pc \in [Threads -> {"idle", "read", "lookup", "write", "done"}]
    /\ cached \in [Threads -> [Ips -> SUBSET Parts]]
    /\ found \in [Threads -> [Ips -> SUBSET Parts]]
    /\ \A p \in Threads :
          /\ ips[p] \in Seq(Ips) /\ left[p] \in Seq(Ips)
          /\ todo[p] \in Seq(Ips) /\ Len(todo[p]) <= limit[p]
          /\ held[p] \subseteq {ip \in Ips : cached[p][ip] # {} \/ intel[ip] = {}}
    /\ \A p, q \in Threads : p # q => held[p] \cap held[q] = {}

\* "row.ptr = result["ptr"] or row.ptr": what was known of an address is never
\* lost, whatever a throttled look-up, a stale read of the row or a page that
\* resolves the same address at the same time brings.
NothingForgotten == [][\A ip \in Ips : intel[ip] \subseteq intel'[ip]]_enrichVars

\* "The rest are picked up on a later view", "rather than showing a half answer
\* forever": every address of a report gets the registry data there is, although
\* look-ups are throttled, pages collide and one address never resolves.
EveryOwnerIsNamed ==
    \A ip \in Seen : "registry" \in Known[ip] => <>("registry" \in intel[ip])
=============================================================================
