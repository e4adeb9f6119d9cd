----------------------------- MODULE ImapPoller -----------------------------
(***************************************************************************)
(* Polling a mailbox over IMAP (ingest/imap.py fetch_once, called by       *)
(* fetch_all from run every IMAP_POLL_INTERVAL seconds, and by             *)
(* "dmarc-service imap --once").                                           *)
(*                                                                         *)
(* Each command of the session is an action.  The code names messages by   *)
(* sequence number, a position in the session's view of the mailbox.  The  *)
(* server is external and behaves as RFC 3501 allows: a session is told of *)
(* messages that others expunged while it runs COPY, never during FETCH,   *)
(* STORE or SEARCH, and what it is told renumbers the rest.                *)
(***************************************************************************)
EXTENDS Integers, Sequences, FiniteSets

CONSTANTS
    Mail,
    Reports,      \* mail that process_message files as routed, retired or
                  \* duplicate; other mail is stored too
    Pollers,
    Filing,       \* TRUE: a processed folder is configured
    CopyMayFail,  \* TRUE: the server may refuse COPY (no such folder, quota)
    NoMail,
    MaxFailures   \* bound on outages and lost connections

ASSUME ImapAssumption ==
    /\ Reports \subseteq Mail
    /\ NoMail \notin Mail
    /\ Filing \in BOOLEAN /\ CopyMayFail \in BOOLEAN
    /\ MaxFailures \in Nat

VARIABLES
    box, seen, deleted, filed,   \* the mailbox, its flags, the other folder
    arrived,                     \* mail that was ever in the mailbox, and mail
    refused,                     \* whose COPY was refused: histories
    stored,                      \* mail in raw_messages
    failures,
    pc, view, todo, number, msg  \* per session

server  == <<box, seen, deleted, filed, arrived, refused>>
session == <<pc, view, todo, number, msg>>
vars    == <<server, stored, failures, session>>

InBox == {box[i] : i \in DOMAIN box}

\* The messages of s that are in S, in the order of s.
Only(s, S) ==
    LET kept == {i \in DOMAIN s : s[i] \in S} IN
    [k \in 1 .. Cardinality(kept) |->
        s[CHOOSE i \in kept : Cardinality({j \in kept : j <= i}) = k]]

Init ==
    /\ box = << >> /\ seen = {} /\ deleted = {} /\ filed = {}
    /\ arrived = {} /\ refused = {}
    /\ stored = {}
    /\ failures = 0
    /\ pc = [p \in Pollers |-> "idle"]
    /\ view = [p \in Pollers |-> << >>]
    /\ todo = [p \in Pollers |-> {}]
    /\ number = [p \in Pollers |-> 1]
    /\ msg = [p \in Pollers |-> NoMail]

Deliver(m) ==
    /\ m \notin arrived
    /\ box' = Append(box, m)
    /\ arrived' = arrived \cup {m}
    /\ UNCHANGED <<seen, deleted, filed, refused, stored, failures, session>>

\* The message that a sequence number names now, if it is still there.
Named(p) ==
    IF number[p] \in DOMAIN view[p] THEN {view[p][number[p]]} \cap InBox ELSE {}

Goto(p, l) == pc' = [pc EXCEPT ![p] = l]

\* login, SELECT and SEARCH UNSEEN.
Open(p) ==
    /\ pc[p] = "idle"
    /\ view' = [view EXCEPT ![p] = box]
    /\ todo' = [todo EXCEPT ![p] = {i \in DOMAIN box : box[i] \notin seen}]
    /\ Goto(p, "loop")
    /\ UNCHANGED <<server, stored, failures, number, msg>>

\* FETCH BODY.PEEK[]; a message that is gone is passed over.
Fetch(p) ==
    LET n == CHOOSE i \in todo[p] : \A j \in todo[p] : i <= j IN
    /\ pc[p] = "loop"
    /\ todo[p] # {}
    /\ todo' = [todo EXCEPT ![p] = @ \ {n}]
    /\ IF n \in DOMAIN view[p] /\ view[p][n] \in InBox
         THEN /\ number' = [number EXCEPT ![p] = n]
              /\ msg' = [msg EXCEPT ![p] = view[p][n]]
              /\ Goto(p, "process")
         ELSE UNCHANGED <<number, msg, pc>>
    /\ UNCHANGED <<server, stored, failures, view>>

\* process_message and its commit.
Process(p) ==
    /\ pc[p] = "process"
    /\ stored' = stored \cup {msg[p]}
    /\ Goto(p, "seen")
    /\ UNCHANGED <<server, failures, view, todo, number, msg>>

\* Mutant: a message that could not be processed is acknowledged as well.
ProcessFailsSeen(p) ==
    /\ pc[p] = "process" /\ failures < MaxFailures
    /\ failures' = failures + 1
    /\ Goto(p, "seen")
    /\ UNCHANGED <<server, stored, view, todo, number, msg>>

\* An exception: the message is left unread for the next poll.
ProcessFails(p) ==
    /\ pc[p] = "process"
    /\ failures < MaxFailures
    /\ failures' = failures + 1
    /\ Goto(p, "loop")
    /\ UNCHANGED <<server, stored, view, todo, number, msg>>

\* Mutant: mail is copied and deleted without being marked read.
MarkSeenSkipped(p) ==
    /\ pc[p] = "seen"
    /\ Goto(p, IF msg[p] \in Reports /\ Filing THEN "copy" ELSE "loop")
    /\ UNCHANGED <<server, stored, failures, view, todo, number, msg>>

\* Mutant: mail that is no report is deleted as well.
MarkSeenDeletes(p) ==
    /\ pc[p] = "seen"
    /\ seen' = seen \cup Named(p)
    /\ Goto(p, IF msg[p] \in Reports /\ Filing THEN "copy" ELSE "delete")
    /\ UNCHANGED <<box, deleted, filed, arrived, refused, stored, failures,
                   view, todo, number, msg>>

MarkSeen(p) ==
    /\ pc[p] = "seen"
    /\ seen' = seen \cup Named(p)
    /\ Goto(p, IF msg[p] \in Reports /\ Filing THEN "copy" ELSE "loop")
    /\ UNCHANGED <<box, deleted, filed, arrived, refused, stored, failures,
                   view, todo, number, msg>>

\* COPY; its answer is not looked at.
Copy(p) ==
    /\ pc[p] = "copy"
    /\ \/ filed' = filed \cup Named(p) /\ UNCHANGED refused
       \/ CopyMayFail /\ refused' = refused \cup Named(p) /\ UNCHANGED filed
    /\ \E told \in {view[p], Only(view[p], InBox)} :
          view' = [view EXCEPT ![p] = told]
    /\ Goto(p, "delete")
    /\ UNCHANGED <<box, seen, deleted, arrived, stored, failures, todo, number, msg>>

MarkDeleted(p) ==
    /\ pc[p] = "delete"
    /\ deleted' = deleted \cup Named(p)
    /\ Goto(p, "loop")
    /\ UNCHANGED <<box, seen, filed, arrived, refused, stored, failures,
                   view, todo, number, msg>>

Close(p) ==
    /\ view' = [view EXCEPT ![p] = << >>]
    /\ todo' = [todo EXCEPT ![p] = {}]
    /\ number' = [number EXCEPT ![p] = 1]
    /\ msg' = [msg EXCEPT ![p] = NoMail]
    /\ Goto(p, "idle")

\* EXPUNGE when mail is filed; CLOSE expunges as well.
Finish(p) ==
    /\ pc[p] = "loop"
    /\ todo[p] = {}
    /\ box' = Only(box, InBox \ deleted)
    /\ deleted' = {}
    /\ Close(p)
    /\ UNCHANGED <<seen, filed, arrived, refused, stored, failures>>

\* A crash or a lost connection: what is flagged stays flagged.
Drop(p) ==
    /\ pc[p] # "idle"
    /\ failures < MaxFailures
    /\ failures' = failures + 1
    /\ Close(p)
    /\ UNCHANGED <<server, stored>>

Poll(p) ==
    \/ Open(p) \/ Fetch(p) \/ Process(p) \/ MarkSeen(p) \/ Copy(p)
    \/ MarkDeleted(p) \/ Finish(p)

Next ==
    \/ \E m \in Mail : Deliver(m)
    \/ \E p \in Pollers : Poll(p) \/ ProcessFails(p) \/ Drop(p)

Spec == Init /\ [][Next]_vars

\* run polls for ever, and a poll that is not cut off comes to its end.
FairSpec == Spec /\ \A p \in Pollers : WF_vars(Poll(p))

-----------------------------------------------------------------------------
(* Properties.                                                             *)

TypeOK ==
    /\ box \in Seq(Mail)
    /\ seen \subseteq arrived /\ deleted \subseteq seen
    /\ filed \subseteq arrived /\ refused \subseteq arrived /\ InBox \subseteq arrived
    /\ arrived \subseteq Mail /\ stored \subseteq arrived
    /\ failures \in 0 .. MaxFailures
    /\ pc \in [Pollers -> {"idle", "loop", "process", "seen", "copy", "delete"}]
    /\ view \in [Pollers -> Seq(Mail)]
    /\ \A p \in Pollers : todo[p] \subseteq DOMAIN view[p]
    /\ number \in [Pollers -> Nat \ {0}]
    /\ msg \in [Pollers -> Mail \cup {NoMail}]

\* "Messages are acknowledged only after they have been stored, so a crash
\* means the message is retried rather than lost": what is marked read, marked
\* for deletion or gone from the mailbox is in the database.
AckedIsStored ==
    \A m \in arrived :
        m \in seen \cup deleted \/ m \notin InBox => m \in stored

\* "Where to move processed mail": wherever a session is cut off and whatever
\* is renumbered in it, what the poller removes from the mailbox is in the folder
\* it was to be moved to, unless the server refused to copy that very message:
\* the answer to COPY is ignored, and the message is deleted all the same.
RemovedIsFiled ==
    \A m \in arrived : m \notin InBox => m \in filed \cup refused

\* Every message is stored in the end, although polls are cut off and the
\* database is away for a while.
EveryMailIsStored ==
    \A m \in Mail : m \in arrived ~> m \in stored
=============================================================================
