---------------------------- MODULE BackupProofs ----------------------------
(***************************************************************************)
(* What holds of the backups for any number of installations, runs, dumps  *)
(* and days, and any retention.                                            *)
(***************************************************************************)
EXTENDS Backup, TLAPS

\* pg_dump, and prefixes that list their own site only.
Separate == Backend = "postgresql" /\ \A s \in Sites : Lists[s] = {s}

Copies == [site : Sites, key : 1 .. MaxDumps, at : 0 .. MaxTime]

Types ==
    /\ now \in 0 .. MaxTime /\ dumps \in 0 .. MaxDumps
    /\ bucket \subseteq Objects
    /\ uploaded \subseteq Copies
    /\ pc \in [Runs -> {"idle", "dump", "upload", "list", "delete"}]
    /\ site \in [Runs -> Sites \cup {NoSite}]
    /\ key \in [Runs -> 0 .. MaxDumps] /\ sent \in [Runs -> 0 .. MaxTime]
    /\ whole \in [Runs -> BOOLEAN]
    /\ expired \in [Runs -> SUBSET Objects]

\* A key is used once, by a run and then by its copy.
KeysOK ==
    /\ \A u \in uploaded : u.key <= dumps /\ u.at <= now
    /\ \A u, v \in uploaded : u.key = v.key => u = v
    /\ \A p \in Runs : pc[p] # "idle" => site[p] \in Sites /\ key[p] \in 1 .. dumps
    /\ \A p \in Runs : pc[p] \in {"dump", "upload"} => \A u \in uploaded : u.key # key[p]
    /\ \A p, q \in Runs : p # q /\ pc[p] # "idle" /\ pc[q] # "idle" => key[p] # key[q]

\* Of an object in the bucket.
ObjectOK(o) ==
    \E u \in uploaded : u.key = o.key /\ u.site = o.site /\ u.at = o.modified

\* A run prunes after its own upload, and before this is out of the window: the
\* objects that it goes on to delete are older than its own copy.
PruneOK(p) ==
    /\ pc[p] \in {"list", "delete"} =>
          \E v \in uploaded : v.key = key[p] /\ v.site = site[p] /\ v.at = sent[p]
    /\ pc[p] = "list" /\ Retention > 0 => now - sent[p] <= Retention
    /\ pc[p] # "delete" => expired[p] = {}
    /\ \A o \in expired[p] :
          /\ Retention > 0
          /\ o.modified < now - Retention
          /\ o.modified < sent[p]
          /\ o.key # key[p]

BInv ==
    /\ Types
    /\ KeysOK
    /\ \A o \in bucket : ObjectOK(o)
    /\ \A p \in Runs : PruneOK(p)

\* With pg_dump and separate prefixes: all copies are whole, and a run deletes
\* its own site's.
SiteInv ==
    /\ \A o \in bucket : o.whole
    /\ \A p \in Runs : whole[p]
    /\ \A p \in Runs : \A o \in expired[p] : o.site = site[p]

LEMMA InitBInv == Init => BInv /\ SiteInv /\ WindowIsKept
  BY BackupAssumption
     DEF Init, BInv, SiteInv, WindowIsKept, Types, KeysOK, ObjectOK, PruneOK, Objects, Copies

\* The steps of one run.
Step(p) ==
    \/ \E s \in Sites : Start(p, s)
    \/ Dumped(p) \/ Upload(p) \/ List(p) \/ Delete(p) \/ Pruned(p) \/ Fail(p)

LEMMA TypesKept == ASSUME BInv, [Next]_vars PROVE Types'
  <1> USE BackupAssumption DEF BInv, Types
  <1>1. CASE Tick
    BY <1>1 DEF Tick, run
  <1>2. ASSUME NEW p \in Runs, Step(p) PROVE Types'
    <2>1. CASE \E s \in Sites : Start(p, s)
      BY <2>1 DEF Start, Goto
    <2>2. CASE Dumped(p)
      BY <2>2 DEF Dumped, Goto
    <2>3. CASE Upload(p)
      <3>1. site[p] \in Sites /\ key[p] \in 1 .. MaxDumps
        BY <2>3 DEF Upload, KeysOK
      <3>2. bucket' \subseteq Objects
        BY <2>3, <3>1 DEF Upload, Objects
      <3>3. uploaded' \subseteq Copies
        BY <2>3, <3>1 DEF Upload, Copies
      <3>4. QED BY <2>3, <3>2, <3>3 DEF Upload, Goto
    <2>4. CASE List(p)
      BY <2>4 DEF List, Goto
    <2>5. CASE Delete(p)
      BY <2>5 DEF Delete
    <2>6. CASE Pruned(p)
      BY <2>6 DEF Pruned, End, Goto
    <2>7. CASE Fail(p)
      BY <2>7 DEF Fail, End, Goto
    <2>8. QED BY <1>2, <2>1, <2>2, <2>3, <2>4, <2>5, <2>6, <2>7 DEF Step
  <1>3. CASE UNCHANGED vars
    BY <1>3 DEF vars, run
  <1>4. QED BY <1>1, <1>2, <1>3 DEF Next, Step

LEMMA TickBInv == ASSUME BInv, Tick PROVE BInv'
  <1>1. Types'
    BY TypesKept DEF Next
  <1>2. /\ UNCHANGED <<dumps, bucket, uploaded, pc, site, key, whole, sent, expired>>
        /\ now' = now + 1 /\ now \in Nat
        /\ \A p \in Runs : pc[p] = "list" /\ Retention > 0 => now - sent[p] < Retention
    BY DEF Tick, run, BInv, Types
  <1>3. KeysOK'
    BY <1>2 DEF BInv, KeysOK, Types, Copies
  <1>4. ASSUME NEW p \in Runs PROVE PruneOK(p)'
    <2>1. Retention \in Nat /\ sent[p] \in Nat
      BY BackupAssumption DEF BInv, Types
    <2>2. \A o \in expired[p] : o.modified \in Nat
      BY DEF BInv, Types, Objects
    <2>3. QED BY <1>2, <2>1, <2>2 DEF BInv, PruneOK
  <1>5. \A o \in bucket' : ObjectOK(o)'
    BY <1>2 DEF BInv, ObjectOK
  <1>6. QED BY <1>1, <1>3, <1>4, <1>5 DEF BInv

LEMMA StepBInv == ASSUME BInv, NEW p \in Runs, Step(p) PROVE BInv'
  <1>1. Types'
    BY TypesKept DEF Next, Step
  <1>2. now' = now
    BY DEF Step, Start, Dumped, Upload, List, Delete, Pruned, Fail
  <1>3. /\ pc \in [Runs -> {"idle", "dump", "upload", "list", "delete"}]
        /\ site \in [Runs -> Sites \cup {NoSite}]
        /\ key \in [Runs -> 0 .. MaxDumps] /\ sent \in [Runs -> 0 .. MaxTime]
        /\ whole \in [Runs -> BOOLEAN] /\ expired \in [Runs -> SUBSET Objects]
        /\ now \in Nat /\ dumps \in Nat
    BY DEF BInv, Types
  \* The other runs.
  <1>4. \A q \in Runs : q # p =>
           /\ pc'[q] = pc[q] /\ site'[q] = site[q] /\ key'[q] = key[q]
           /\ sent'[q] = sent[q] /\ expired'[q] = expired[q]
    BY <1>3 DEF Step, Start, Dumped, Upload, List, Delete, Pruned, Fail, End, Goto
  <1>5. uploaded \subseteq uploaded'
    BY DEF Step, Start, Dumped, Upload, List, Delete, Pruned, Fail
  <1>6. ASSUME NEW q \in Runs, q # p PROVE PruneOK(q)'
    BY <1>2, <1>4, <1>5, <1>6 DEF BInv, PruneOK
  <1>7. CASE \E s \in Sites : Start(p, s)
    <2>1. PICK s \in Sites : Start(p, s)
      BY <1>7
    <2>2. /\ pc[p] = "idle" /\ pc'[p] = "dump" /\ site'[p] = s /\ key'[p] = dumps + 1
          /\ dumps' = dumps + 1 /\ UNCHANGED <<bucket, uploaded>>
          /\ sent'[p] = sent[p] /\ expired'[p] = expired[p]
      BY <2>1, <1>3 DEF Start, Goto
    <2>3. KeysOK'
      BY <1>2, <1>3, <1>4, <2>2 DEF BInv, KeysOK, Types, Copies
    <2>4. PruneOK(p)'
      BY <1>2, <2>2 DEF BInv, PruneOK
    <2>5. QED BY <1>1, <1>6, <2>2, <2>3, <2>4 DEF BInv, ObjectOK
  <1>8. CASE Upload(p)
    <2>1. /\ pc[p] = "upload" /\ pc'[p] = "list" /\ site'[p] = site[p] /\ key'[p] = key[p]
          /\ dumps' = dumps /\ sent'[p] = now /\ expired'[p] = expired[p]
          /\ bucket' = bucket \cup {[site |-> site[p], key |-> key[p],
                                     modified |-> now, whole |-> whole[p]]}
          /\ uploaded' = uploaded \cup {[site |-> site[p], key |-> key[p], at |-> now]}
      BY <1>8, <1>3 DEF Upload, Goto
    <2>2. /\ \A u \in uploaded : u.key # key[p] /\ u.key <= dumps /\ u.at <= now
          /\ key[p] \in 1 .. dumps
      BY <2>1 DEF BInv, KeysOK
    <2>3. KeysOK'
      <3>1. \A u \in uploaded' : u.key <= dumps' /\ u.at <= now'
        BY <1>2, <1>3, <2>1, <2>2
      <3>2. \A u, v \in uploaded' : u.key = v.key => u = v
        BY <2>1, <2>2 DEF BInv, KeysOK
      <3>3. \A q \in Runs : pc'[q] # "idle" => site'[q] \in Sites /\ key'[q] \in 1 .. dumps'
        BY <1>4, <2>1 DEF BInv, KeysOK
      <3>4. \A q \in Runs : pc'[q] \in {"dump", "upload"} => \A u \in uploaded' : u.key # key'[q]
        BY <1>4, <2>1 DEF BInv, KeysOK
      <3>5. \A q, r \in Runs : q # r /\ pc'[q] # "idle" /\ pc'[r] # "idle" => key'[q] # key'[r]
        BY <1>4, <2>1 DEF BInv, KeysOK
      <3>6. QED BY <3>1, <3>2, <3>3, <3>4, <3>5 DEF KeysOK
    <2> DEFINE copy == [site |-> site[p], key |-> key[p], at |-> now]
    <2>7. copy \in uploaded' /\ copy.site = site[p] /\ copy.key = key[p] /\ copy.at = now
      BY <2>1
    <2>4. PruneOK(p)'
      <3>1. expired'[p] = {}
        BY <2>1 DEF BInv, PruneOK
      <3>2. Retention > 0 => now' - sent'[p] <= Retention
        BY <1>2, <1>3, <2>1, BackupAssumption
      <3>3. \E v \in uploaded' : v.key = key'[p] /\ v.site = site'[p] /\ v.at = sent'[p]
        BY <2>1, <2>7
      <3>4. QED BY <2>1, <3>1, <3>2, <3>3 DEF PruneOK
    <2>5. ASSUME NEW o \in bucket' PROVE ObjectOK(o)'
      <3>1. CASE o \in bucket
        BY <1>5, <3>1 DEF BInv, ObjectOK
      <3>2. CASE o \notin bucket
        <4>1. o.site = site[p] /\ o.key = key[p] /\ o.modified = now
          BY <2>1, <3>2
        <4>2. QED BY <2>7, <4>1 DEF ObjectOK
      <3>3. QED BY <3>1, <3>2
    <2>6. QED BY <1>1, <1>6, <2>3, <2>4, <2>5 DEF BInv
  <1>9. CASE List(p)
    <2>1. /\ pc[p] = "list" /\ pc'[p] = "delete" /\ site'[p] = site[p] /\ key'[p] = key[p]
          /\ sent'[p] = sent[p] /\ UNCHANGED <<dumps, bucket, uploaded>>
          /\ expired'[p] \subseteq {o \in bucket : Retention > 0 /\ Older(o, now)}
      BY <1>9, <1>3, BackupAssumption DEF List, Goto
    <2>2. KeysOK'
      BY <1>2, <1>3, <1>4, <2>1 DEF BInv, KeysOK
    <2>3. ASSUME NEW o \in expired'[p]
          PROVE  /\ Retention > 0 /\ o.modified < now - Retention
                 /\ o.modified < sent[p] /\ o.key # key[p]
      <3>1. o \in bucket /\ Retention > 0 /\ o.modified < now - Retention
        BY <2>1, <2>3 DEF Older
      <3>2. /\ now - sent[p] <= Retention
            /\ \E v \in uploaded : v.key = key[p] /\ v.site = site[p] /\ v.at = sent[p]
        BY <2>1, <3>1 DEF BInv, PruneOK
      <3>3. o.modified \in Nat /\ Retention \in Nat /\ sent[p] \in Nat
        BY <1>3, <3>1, BackupAssumption DEF BInv, Types, Objects
      <3>4. o.modified < sent[p]
        BY <1>3, <3>1, <3>2, <3>3
      <3>5. PICK u \in uploaded : u.key = o.key /\ u.at = o.modified
        BY <3>1 DEF BInv, ObjectOK
      <3>6. o.key # key[p]
        BY <3>2, <3>3, <3>4, <3>5 DEF BInv, KeysOK
      <3>7. QED BY <3>1, <3>4, <3>6
    <2>4. PruneOK(p)'
      BY <1>2, <2>1, <2>3 DEF BInv, PruneOK
    <2>5. QED BY <1>1, <1>6, <2>1, <2>2, <2>4 DEF BInv, ObjectOK
  <1>10. CASE Dumped(p) \/ Delete(p)
    <2>1. /\ pc[p] # "idle" /\ pc[p] # "list" /\ pc'[p] # "list"
          /\ \/ pc[p] = "dump" /\ pc'[p] = "upload"
             \/ pc[p] = "delete" /\ pc'[p] = "delete"
          /\ site'[p] = site[p] /\ key'[p] = key[p] /\ sent'[p] = sent[p]
          /\ expired'[p] \subseteq expired[p] /\ UNCHANGED <<dumps, uploaded>>
          /\ bucket' \subseteq bucket
      BY <1>10, <1>3 DEF Dumped, Delete, Goto
    <2>2. KeysOK'
      BY <1>2, <1>3, <1>4, <2>1 DEF BInv, KeysOK
    <2>3. PruneOK(p)'
      BY <1>2, <2>1 DEF BInv, PruneOK
    <2>4. QED BY <1>1, <1>6, <2>1, <2>2, <2>3 DEF BInv, ObjectOK
  <1>11. CASE Pruned(p) \/ Fail(p)
    <2>1. /\ pc'[p] = "idle" /\ expired'[p] = {} /\ UNCHANGED <<dumps, bucket, uploaded>>
      BY <1>11, <1>3 DEF Pruned, Fail, End, Goto
    <2>2. KeysOK'
      BY <1>2, <1>3, <1>4, <2>1 DEF BInv, KeysOK
    <2>3. PruneOK(p)'
      BY <2>1 DEF PruneOK
    <2>4. QED BY <1>1, <1>6, <2>1, <2>2, <2>3 DEF BInv, ObjectOK
  <1>12. QED BY <1>7, <1>8, <1>9, <1>10, <1>11 DEF Step

LEMMA NextBInv == BInv /\ [Next]_vars => BInv'
  <1>1. ASSUME BInv, UNCHANGED vars PROVE BInv'
    BY <1>1 DEF vars, run, BInv, Types, KeysOK, ObjectOK, PruneOK
  <1>2. QED BY <1>1, TickBInv, StepBInv DEF Next, Step

\* Every variable has its type, and what a run is about to delete is past its
\* retention and is not its own copy (backup.py, run and prune).
THEOREM BackupTypeCorrect == Spec => []TypeOK
  <1>1. BInv => TypeOK
    BY DEF BInv, Types, PruneOK, TypeOK, Copies
  <1>2. QED BY <1>1, InitBInv, NextBInv, PTL DEF Spec

LEMMA NextSiteInv ==
    ASSUME Separate, BInv, SiteInv, [Next]_vars
    PROVE  SiteInv'
  <1>1. CASE Tick \/ UNCHANGED vars
    BY <1>1 DEF Tick, vars, run, SiteInv
  <1>2. ASSUME NEW p \in Runs, Step(p) PROVE SiteInv'
    <2>1. /\ site \in [Runs -> Sites \cup {NoSite}]
          /\ whole \in [Runs -> BOOLEAN] /\ expired \in [Runs -> SUBSET Objects]
      BY DEF BInv, Types
    <2>2. CASE \E s \in Sites : Start(p, s)
      <3>1. /\ UNCHANGED <<bucket, whole, expired>> /\ expired[p] = {}
            /\ \A q \in Runs : q # p => site'[q] = site[q]
        BY <2>1, <2>2 DEF Start, BInv, PruneOK
      <3>2. QED BY <3>1 DEF SiteInv
    <2>3. CASE Dumped(p)
      BY <2>1, <2>3 DEF Dumped, SiteInv, Separate
    <2>4. CASE Upload(p)
      BY <2>4 DEF Upload, SiteInv
    <2>5. CASE List(p)
      <3>1. site[p] \in Sites
        BY <2>5 DEF List, BInv, KeysOK
      <3>2. /\ UNCHANGED <<bucket, whole, site>>
            /\ \A q \in Runs : q # p => expired'[q] = expired[q]
            /\ \A o \in expired'[p] : o.site = site[p]
        BY <2>1, <2>5, <3>1 DEF List, Separate
      <3>3. QED BY <3>2 DEF SiteInv
    <2>6. CASE Delete(p)
      BY <2>1, <2>6 DEF Delete, SiteInv
    <2>7. CASE Pruned(p) \/ Fail(p)
      BY <2>1, <2>7 DEF Pruned, Fail, End, SiteInv
    <2>8. QED BY <1>2, <2>2, <2>3, <2>4, <2>5, <2>6, <2>7 DEF Step
  <1>3. QED BY <1>1, <1>2 DEF Next, Step

LEMMA NextWindow ==
    ASSUME BInv, SiteInv, WindowIsKept, [Next]_vars
    PROVE  WindowIsKept'
  <1> USE DEF WindowIsKept
  <1>1. CASE Tick
    <2>1. UNCHANGED <<bucket, uploaded>> /\ now' = now + 1
      BY <1>1 DEF Tick
    <2>2. now \in Nat /\ Retention \in Nat /\ \A u \in uploaded : u.at \in Nat
      BY BackupAssumption DEF BInv, Types, Copies
    <2>3. QED BY <2>1, <2>2
  <1>2. ASSUME NEW p \in Runs, Upload(p) PROVE WindowIsKept'
    <2> DEFINE object == [site |-> site[p], key |-> key[p], modified |-> now, whole |-> whole[p]]
    <2>1. /\ now' = now /\ bucket' = bucket \cup {object}
          /\ uploaded' = uploaded \cup {[site |-> site[p], key |-> key[p], at |-> now]}
      BY <1>2 DEF Upload
    <2>2. object \in bucket' /\ object.key = key[p] /\ object.whole
      BY <2>1 DEF SiteInv
    <2> HIDE DEF object
    <2>3. QED BY <2>1, <2>2
  <1>3. ASSUME NEW p \in Runs, Delete(p) PROVE WindowIsKept'
    <2>1. PICK o \in expired[p] : bucket' = bucket \ {o}
      BY <1>3 DEF Delete
    <2>2. UNCHANGED <<now, uploaded>> /\ pc[p] = "delete"
      BY <1>3 DEF Delete
    <2>3. SUFFICES ASSUME NEW u \in uploaded, o \in bucket, o.key = u.key
                   PROVE  /\ Retention > 0 /\ u.at < now - Retention
                          /\ \E v \in uploaded : v.site = u.site /\ v.at > u.at
      BY <2>1, <2>2
    <2>4. u.site = o.site /\ u.at = o.modified
      BY <2>3 DEF BInv, ObjectOK, KeysOK
    <2>5. PICK v \in uploaded : v.site = site[p] /\ v.at = sent[p]
      BY <2>2 DEF BInv, PruneOK
    <2>6. /\ Retention > 0 /\ o.modified < now - Retention
          /\ o.modified < sent[p] /\ o.site = site[p]
      BY DEF BInv, PruneOK, SiteInv
    <2>7. v.at \in Nat /\ o.modified \in Nat
      BY <2>3 DEF BInv, Types, Copies, Objects
    <2>8. QED BY <2>4, <2>5, <2>6, <2>7
  <1>4. ASSUME UNCHANGED <<now, bucket, uploaded>> PROVE WindowIsKept'
    BY <1>4
  <1>5. QED BY <1>1, <1>2, <1>3, <1>4
           DEF Next, vars, Start, Dumped, List, Pruned, Fail

\* With pg_dump and a prefix per installation, no run ever deletes a copy of the
\* last days, or the last copy of a site, whichever runs fail and however they
\* overlap (backup.py, prune).
THEOREM WindowIsAlwaysKept ==
    ASSUME Separate
    PROVE  Spec => []WindowIsKept
  <1>1. BInv /\ SiteInv /\ WindowIsKept /\ [Next]_vars => (BInv /\ SiteInv /\ WindowIsKept)'
    BY NextBInv, NextSiteInv, NextWindow
  <1>2. QED BY <1>1, InitBInv, PTL DEF Spec
=============================================================================
