------------------------------- MODULE Backup -------------------------------
(***************************************************************************)
(* "dmarc-service backup" (backup.py run): dump the database, upload the   *)
(* dump, prune old copies.  Several installations may keep their copies in *)
(* one bucket, each under its prefix, and a run that takes long may meet   *)
(* the next one of its own timer.  Any step may fail, and ends the run.    *)
(*                                                                         *)
(* Of a dump the model keeps its key and whether it is whole: a state that *)
(* the database was in.  Time passes in days; a key names the second that  *)
(* the dump began, and no two begin in the same second.                    *)
(***************************************************************************)
EXTENDS Integers, FiniteSets

CONSTANTS
    Backend,      \* "postgresql", or "sqlite": the file is copied as it is
    Sites,        \* installations
    Lists,        \* per site, those whose copies its prefix lists, itself too
    Runs,         \* runs that may go on at a time
    Retention,    \* BACKUP_RETENTION_DAYS; 0 keeps everything
    NoSite,
    MaxTime,      \* bound on time
    MaxDumps      \* bound on the dumps

ASSUME BackupAssumption ==
    /\ Backend \in {"postgresql", "sqlite"}
    /\ Lists \in [Sites -> SUBSET Sites] /\ \A s \in Sites : s \in Lists[s]
    /\ Retention \in Nat /\ MaxTime \in Nat /\ MaxDumps \in Nat
    /\ NoSite \notin Sites

VARIABLES
    now,
    dumps,    \* how many were begun: the last key
    bucket,   \* objects; modified is LastModified
    uploaded, \* every copy whose upload was completed
    pc, site, \* per run
    key,      \* of its copy
    whole,    \* its dump is a state of the database
    sent,     \* when its upload was completed
    expired   \* the objects it has still to delete

run  == <<pc, site, key, whole, sent, expired>>
vars == <<now, dumps, bucket, uploaded, run>>

Init ==
    /\ now = 0 /\ dumps = 0
    /\ bucket = {} /\ uploaded = {}
    /\ pc = [p \in Runs |-> "idle"]
    /\ site = [p \in Runs |-> NoSite]
    /\ key = [p \in Runs |-> 0]
    /\ whole = [p \in Runs |-> TRUE]
    /\ sent = [p \in Runs |-> 0]
    /\ expired = [p \in Runs |-> {}]

Goto(p, l) == pc' = [pc EXCEPT ![p] = l]

End(p) ==
    /\ Goto(p, "idle")
    /\ site' = [site EXCEPT ![p] = NoSite]
    /\ key' = [key EXCEPT ![p] = 0]
    /\ whole' = [whole EXCEPT ![p] = TRUE]
    /\ sent' = [sent EXCEPT ![p] = 0]
    /\ expired' = [expired EXCEPT ![p] = {}]

\* Bound: a run does not stand still for the retention time between its upload
\* and its listing.
Tick ==
    /\ now < MaxTime
    /\ \A p \in Runs : pc[p] = "list" /\ Retention > 0 => now - sent[p] < Retention
    /\ now' = now + 1
    /\ UNCHANGED <<dumps, bucket, uploaded, run>>

\* create_dump begins.
Start(p, s) ==
    /\ pc[p] = "idle"
    /\ site' = [site EXCEPT ![p] = s]
    /\ dumps < MaxDumps
    /\ dumps' = dumps + 1
    /\ key' = [key EXCEPT ![p] = dumps']
    /\ Goto(p, "dump")
    /\ UNCHANGED <<now, bucket, uploaded, whole, sent, expired>>

\* Mutant: the exit status of pg_dump is not looked at.
DumpedAnyhow(p) ==
    /\ pc[p] = "dump"
    /\ \E ok \in BOOLEAN : whole' = [whole EXCEPT ![p] = ok]
    /\ Goto(p, "upload")
    /\ UNCHANGED <<now, dumps, bucket, uploaded, site, key, sent, expired>>

\* pg_dump reads one snapshot, and a dump that fails ends the run; a database
\* file is copied as it is, and may be torn if the service commits meanwhile.
Dumped(p) ==
    /\ pc[p] = "dump"
    /\ \E ok \in IF Backend = "sqlite" THEN BOOLEAN ELSE {TRUE} :
          whole' = [whole EXCEPT ![p] = ok]
    /\ Goto(p, "upload")
    /\ UNCHANGED <<now, dumps, bucket, uploaded, site, key, sent, expired>>

Upload(p) ==
    /\ pc[p] = "upload"
    /\ bucket' = bucket \cup {[site |-> site[p], key |-> key[p],
                               modified |-> now, whole |-> whole[p]]}
    /\ uploaded' = uploaded \cup {[site |-> site[p], key |-> key[p], at |-> now]}
    /\ sent' = [sent EXCEPT ![p] = now]
    /\ Goto(p, "list")
    /\ UNCHANGED <<now, dumps, site, key, whole, expired>>

\* Mutant: the last day of the window counts as over.
OlderOrEqual(o, t) == o.modified <= t - Retention

Older(o, t) == o.modified < t - Retention

\* prune: the objects under the prefix that are older than the retention time.
List(p) ==
    /\ pc[p] = "list"
    /\ expired' = [expired EXCEPT ![p] =
           IF Retention <= 0 THEN {}
           ELSE {o \in bucket : o.site \in Lists[site[p]] /\ Older(o, now)}]
    /\ Goto(p, "delete")
    /\ UNCHANGED <<now, dumps, bucket, uploaded, site, key, whole, sent>>

\* One object at a time; one that is gone already is no error.
Delete(p) ==
    /\ pc[p] = "delete"
    /\ \E o \in expired[p] :
          /\ bucket' = bucket \ {o}
          /\ expired' = [expired EXCEPT ![p] = @ \ {o}]
    /\ UNCHANGED <<now, dumps, uploaded, pc, site, key, whole, sent>>

Pruned(p) ==
    /\ pc[p] = "delete" /\ expired[p] = {}
    /\ End(p)
    /\ UNCHANGED <<now, dumps, bucket, uploaded>>

\* pg_dump, the upload or a deletion fails, or the run is killed.
Fail(p) ==
    /\ pc[p] # "idle"
    /\ End(p)
    /\ UNCHANGED <<now, dumps, bucket, uploaded>>

Next ==
    \/ Tick
    \/ \E p \in Runs :
          \/ \E s \in Sites : Start(p, s)
          \/ Dumped(p) \/ Upload(p) \/ List(p) \/ Delete(p) \/ Pruned(p) \/ Fail(p)

Spec == Init /\ [][Next]_vars

-----------------------------------------------------------------------------
(* Properties.                                                             *)

Objects == [site : Sites, key : 1 .. MaxDumps, modified : 0 .. MaxTime, whole : BOOLEAN]

\* What a run deletes is past its retention, and never the copy it has made.
TypeOK ==
    /\ now \in 0 .. MaxTime /\ dumps \in 0 .. MaxDumps
    /\ bucket \subseteq Objects
    /\ uploaded \subseteq [site : Sites, key : 1 .. MaxDumps, at : 0 .. MaxTime]
    /\ pc \in [Runs -> {"idle", "dump", "upload", "list", "delete"}]
    /\ site \in [Runs -> Sites \cup {NoSite}]
    /\ key \in [Runs -> 0 .. MaxDumps] /\ sent \in [Runs -> 0 .. MaxTime]
    /\ whole \in [Runs -> BOOLEAN]
    /\ \A p \in Runs : expired[p] \subseteq Objects
    /\ \A p \in Runs : \A o \in expired[p] :
          o.modified < now - Retention /\ o.key # key[p]

\* "A lost database is lost history": every copy that was uploaded in the last
\* days, and the last one of a site whatever its age, is in the bucket and is
\* whole, whichever runs failed half-way and whoever pruned meanwhile.
WindowIsKept ==
    \A u \in uploaded :
        \/ /\ Retention > 0 /\ u.at < now - Retention
           /\ \E v \in uploaded : v.site = u.site /\ v.at > u.at
        \/ \E o \in bucket : o.key = u.key /\ o.whole
=============================================================================
