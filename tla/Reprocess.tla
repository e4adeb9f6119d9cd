----------------------------- MODULE Reprocess ------------------------------
(***************************************************************************)
(* What becomes of messages whose reports could not be stored at once:     *)
(* uploads (ingest/pipeline.py process_upload) and the replay of stored    *)
(* messages (reprocess, run by "dmarc-service reprocess" and on every      *)
(* deploy by "dmarc-service migrate"), while mail keeps arriving, parsers  *)
(* improve from release to release and addresses are minted and retired.   *)
(*                                                                         *)
(* process_message is one step here: Intake shows that it is serialisable. *)
(* A replay is one transaction; it reads its batch, looks at one message   *)
(* after the other, and writes when it commits, so other transactions      *)
(* commit between its steps.  An address goes with its domain; each has a  *)
(* domain of its own here.                                                 *)
(*                                                                         *)
(* A document is its report's key, the first release that classifies it as *)
(* a report and the first one whose parser reads it.                       *)
(***************************************************************************)
EXTENDS Integers, Sequences, FiniteSets

CONSTANTS
    Mail,
    Rcpt,         \* [Mail -> local part of the recipient, or NoRow]
    Form,         \* [Mail -> "message" (SMTP, IMAP, /api/ingest),
                  \*          "file" or "eml" (uploaded)]
    Docs,         \* [Mail -> the documents in it]
    LocalParts, Keys, NoRow,
    Runners,      \* replays that may run at once
    Limit,        \* messages per replay; 1000 in the code
    MaxRelease    \* bound on releases

Document == [key : Keys, known : Nat, readable : Nat]
Statuses == {"routed", "retired", "unrouted", "duplicate", "failed"}

ASSUME ReprocessAssumption ==
    /\ Rcpt \in [Mail -> LocalParts \cup {NoRow}]
    /\ Form \in [Mail -> {"message", "file", "eml"}]
    /\ Docs \in [Mail -> Seq(Document)]
    /\ Limit \in Nat /\ MaxRelease \in Nat
    /\ NoRow \notin LocalParts

VARIABLES
    release,      \* the deployed release
    address,      \* [LocalParts -> "none", "active", "retired" or "gone"]
    raws,         \* raw_messages, in the order of their ids
    reports,      \* aggregate_reports and tls_reports
    batch         \* the transaction of each replay, or NoRow

world == <<release, address>>
store == <<raws, reports>>
vars  == <<world, store, batch>>

KeysOf(rows) == {r.key : r \in rows}

Init ==
    /\ release = 0
    /\ address = [l \in LocalParts |-> "none"]
    /\ raws = << >>
    /\ reports = {}
    /\ batch = [r \in Runners |-> NoRow]

-----------------------------------------------------------------------------
(* What the code sees in a message under the deployed release.             *)

Kind(doc) ==
    CASE release < doc.known                              -> "unknown"
      [] release >= doc.known /\ release < doc.readable   -> "broken"
      [] release >= doc.known /\ release >= doc.readable  -> "report"

OfKind(docs, kind) == {i \in 1 .. Len(docs) : Kind(docs[i]) = kind}

\* Mail and uploaded files give up their documents; reprocess unpacks every
\* upload as a file, and an .eml unpacked that way is one unknown document.
ReplayDocs(m) == IF Form[m] = "eml" THEN << >> ELSE Docs[m]

\* _store_reports stops at the first document its parser refuses, uploads
\* go on with the next one.
KeysRead(docs, stopping) ==
    {docs[i].key : i \in {j \in OfKind(docs, "report") :
        stopping => \A b \in OfKind(docs, "broken") : j < b}}

Recipient(m) ==
    IF Form[m] = "message" /\ Rcpt[m] \in LocalParts THEN address[Rcpt[m]] ELSE "none"

RoutingStatus(m) ==
    CASE Recipient(m) = "active"  -> "routed"
      [] Recipient(m) = "retired" -> "retired"
      [] OTHER                    -> "unrouted"

Fresh(m) == \A i \in DOMAIN raws : raws[i].mail # m

Insert(m, status, keys) ==
    /\ raws' = Append(raws, [mail |-> m, status |-> status])
    /\ reports' = reports \cup {[key |-> k, mail |-> m] : k \in keys}
    /\ UNCHANGED <<world, batch>>

\* process_message: only "routed" gives way to what the message brought.
FilingStatus(m, read, new) ==
    CASE OfKind(Docs[m], "broken") # {} -> "failed"
      [] OfKind(Docs[m], "broken") = {} /\ RoutingStatus(m) = "routed" ->
           IF read = {} THEN "failed" ELSE IF new = {} THEN "duplicate" ELSE "routed"
      [] OTHER -> RoutingStatus(m)

Receive(m) ==
    LET read == KeysRead(Docs[m], TRUE)
        new  == read \ KeysOf(reports)
    IN
    /\ Fresh(m) /\ Form[m] = "message"
    /\ Insert(m, FilingStatus(m, read, new), new)

\* process_upload: every document gets its chance; a file without a usable
\* report is refused, but its row stays.
Upload(m) ==
    LET read == KeysRead(Docs[m], FALSE) IN
    /\ Fresh(m) /\ Form[m] # "message"
    /\ Insert(m, IF read = {} THEN "failed" ELSE "routed", read \ KeysOf(reports))

-----------------------------------------------------------------------------
(* reprocess.                                                              *)

\* Mutant: unrouted messages are left out.
UnfinishedNotUnrouted == {i \in DOMAIN raws : raws[i].status \in {"failed", "duplicate"}}

Unfinished == {i \in DOMAIN raws : raws[i].status \in {"failed", "unrouted", "duplicate"}}

Selected == {i \in Unfinished : Cardinality({j \in Unfinished : j < i}) < Limit}

\* The SELECT of the batch, in the order of ids.
Begin(r) ==
    /\ batch[r] = NoRow
    /\ batch' = [batch EXCEPT ![r] =
         [todo |-> Selected, loaded |-> [i \in Selected |-> raws[i].status],
          labels |-> [i \in {} |-> ""], written |-> {}]]
    /\ UNCHANGED <<world, store>>

NextId(r) == CHOOSE i \in batch[r].todo : \A j \in batch[r].todo : i <= j

\* Mutant: the look-up for duplicates sees committed rows only.
HeldCommitted(r) == KeysOf(reports)

\* Keys that the look-up for duplicates finds.
HeldFor(r) == KeysOf(reports) \cup KeysOf(batch[r].written)

\* Mutant: nothing new means a duplicate, also when nothing was understood.
LabelUnread(m, old, new) ==
    IF new # {} THEN IF Recipient(m) = "active" THEN "routed" ELSE "retired"
    ELSE "duplicate"

\* The label given to a message; an exception of a parser leaves "failed", and
\* a message nothing is understood of keeps the label it has.
Label(m, old, new) ==
    LET docs    == ReplayDocs(m)
        stopped == Form[m] = "message" /\ OfKind(docs, "broken") # {}
    IN
    CASE stopped -> "failed"
      [] ~stopped /\ new # {} ->
           IF Recipient(m) = "active" THEN "routed" ELSE "retired"
      [] ~stopped /\ new = {} /\ OfKind(docs, "unknown") # 1 .. Len(docs) -> "duplicate"
      [] OTHER -> old

Examine(r) ==
    LET i   == NextId(r)
        m   == raws[i].mail
        new == KeysRead(ReplayDocs(m), Form[m] = "message") \ HeldFor(r)
    IN
    /\ batch[r] # NoRow
    /\ batch[r].todo # {}
    /\ batch' = [batch EXCEPT
         ![r].todo = @ \ {i},
         ![r].labels = [j \in DOMAIN @ \cup {i} |->
              IF j = i THEN Label(m, batch[r].loaded[i], new) ELSE @[j]],
         ![r].written = @ \cup {[key |-> k, mail |-> m] : k \in new}]
    /\ UNCHANGED <<world, store>>

Done(r) == batch[r] # NoRow /\ batch[r].todo = {}

\* Mutant: no unique constraint.
ConflictUnchecked(r) == FALSE

Conflict(r) == KeysOf(batch[r].written) \cap KeysOf(reports) # {}

\* Only labels that differ from what was read are written.
Relabelled(r) ==
    [i \in DOMAIN raws |->
       IF i \in DOMAIN batch[r].labels /\ batch[r].labels[i] # batch[r].loaded[i]
       THEN [raws[i] EXCEPT !.status = batch[r].labels[i]]
       ELSE raws[i]]

Commit(r) ==
    /\ Done(r)
    /\ ~Conflict(r)
    /\ raws' = Relabelled(r)
    /\ reports' = reports \cup batch[r].written
    /\ batch' = [batch EXCEPT ![r] = NoRow]
    /\ UNCHANGED world

\* The unique constraint refuses a row: the whole batch is rolled back, the
\* error is only caught around one message.
Abort(r) ==
    /\ Done(r)
    /\ Conflict(r)
    /\ batch' = [batch EXCEPT ![r] = NoRow]
    /\ UNCHANGED <<world, store>>

-----------------------------------------------------------------------------
(* Releases and routing.                                                   *)

\* A deploy ends the processes of the old release.
Deploy ==
    /\ release < MaxRelease
    /\ \A r \in Runners : batch[r] = NoRow
    /\ release' = release + 1
    /\ UNCHANGED <<address, store, batch>>

Mint(l) ==
    /\ address[l] = "none"
    /\ address' = [address EXCEPT ![l] = "active"]
    /\ UNCHANGED <<release, store, batch>>

Retire(l) ==
    /\ address[l] = "active"
    /\ address' = [address EXCEPT ![l] = "retired"]
    /\ UNCHANGED <<release, store, batch>>

\* Messages whose reports a batch has filed under the domain of an address.
FiledUnder(l, r) == {s.mail : s \in {t \in batch[r].written :
                        Form[t.mail] = "message" /\ Rcpt[t.mail] = l}}

\* delete_domain takes the addresses with it.  It waits while a replay has rows
\* that name the domain.
Delete(l) ==
    /\ address[l] \in {"active", "retired"}
    /\ \A r \in Runners : batch[r] # NoRow => FiledUnder(l, r) = {}
    /\ address' = [address EXCEPT ![l] = "gone"]
    /\ UNCHANGED <<release, store, batch>>

\* The message looked at last: its rows wait for the next query.
LastId(r) == {i \in DOMAIN batch[r].labels : \A j \in DOMAIN batch[r].labels : j <= i}

\* The domain is deleted between two statements of one replay that needs it:
\* after the address was found and before its domain is read (known.domain is
\* None, outside the try), or before rows that name it are written (the foreign
\* key refuses them).  Either ends the replay and rolls the batch back.
Vanish(l, r) ==
    /\ batch[r] # NoRow
    /\ address[l] \in {"active", "retired"}
    /\ FiledUnder(l, r) \subseteq {raws[i].mail : i \in LastId(r)}
    /\ \/ FiledUnder(l, r) # {}
       \/ /\ batch[r].todo # {}
          /\ Form[raws[NextId(r)].mail] = "message" /\ Rcpt[raws[NextId(r)].mail] = l
    /\ \A q \in Runners \ {r} : batch[q] # NoRow => FiledUnder(l, q) = {}
    /\ address' = [address EXCEPT ![l] = "gone"]
    /\ batch' = [batch EXCEPT ![r] = NoRow]
    /\ UNCHANGED <<release, store>>

Next ==
    \/ \E m \in Mail : Receive(m) \/ Upload(m)
    \/ \E r \in Runners : Begin(r) \/ Examine(r) \/ Commit(r) \/ Abort(r)
    \/ Deploy
    \/ \E l \in LocalParts : Mint(l) \/ Retire(l) \/ Delete(l)
    \/ \E l \in LocalParts, r \in Runners : Vanish(l, r)

Spec == Init /\ [][Next]_vars

\* A replay that was started runs to its end, and replays are started again and
\* again, at every deploy and by the operator.
FairSpec ==
    /\ Spec
    /\ \A r \in Runners : WF_vars(Begin(r) \/ Examine(r) \/ Commit(r) \/ Abort(r))

-----------------------------------------------------------------------------
(* Properties.                                                             *)

\* "Running it repeatedly must not duplicate ... anything": no report is held
\* twice, whatever replays, uploads and mail run at once.
TypeOK ==
    /\ release \in 0 .. MaxRelease
    /\ address \in [LocalParts -> {"none", "active", "retired", "gone"}]
    /\ raws \in Seq([mail : Mail, status : Statuses])
    /\ reports \subseteq [key : Keys, mail : Mail]
    /\ \A r \in Runners : batch[r] # NoRow =>
          /\ batch[r].todo \subseteq DOMAIN raws
          /\ batch[r].labels \in [DOMAIN batch[r].loaded \ batch[r].todo -> Statuses]
          /\ batch[r].written \subseteq [key : Keys, mail : Mail]
    /\ \A s, t \in reports : s.key = t.key => s = t

\* Documents of a message that a release classifies as reports.
Understood(m, past) == {i \in DOMAIN Docs[m] : Docs[m][i].known <= past}

\* Labels tell the truth of mail.  "Every document was one we already hold": of
\* a duplicate, all the documents that the release understood which gave it the
\* label are held, and there were some; who brought them, a failed attempt of
\* the message itself maybe, is not said.  "routed" is said of mail that brought
\* a report under its own name, also when it is a replay that says so.
LabelsAreTrue ==
    \A i \in DOMAIN raws :
        LET m == raws[i].mail IN
        Form[m] = "message" =>
            /\ raws[i].status = "duplicate" =>
                  \E past \in 0 .. release :
                      /\ Understood(m, past) # {}
                      /\ \A d \in Understood(m, past) : Docs[m][d].key \in KeysOf(reports)
            /\ raws[i].status = "routed" => \E s \in reports : s.mail = m

\* What the deployed release makes of each message.
Readings ==
    [m \in Mail |->
        [arrival    |-> KeysRead(Docs[m], Form[m] = "message"),
         replay     |-> KeysRead(ReplayDocs(m), Form[m] = "message"),
         refused    |-> Form[m] = "message" /\ OfKind(Docs[m], "broken") # {},
         understood |-> OfKind(ReplayDocs(m), "unknown") # 1 .. Len(ReplayDocs(m))]]

\* A replay looks at one message after the other while mail and uploads are
\* committed, and still files its batch as if it had run at once at its commit:
\* the oldest unfinished messages, each report under the oldest message that has
\* it, with labels that are right at that moment.
Ledger == INSTANCE ReplayLedger WITH
    Uploads <- {m \in Mail : Form[m] # "message"},
    reading <- Readings

ReplayIsAtomic == Ledger!Spec

\* Messages whose labels still leave their reports to be had, oldest first.
Waiting == {i \in DOMAIN raws : raws[i].status \notin {"routed", "retired"}}

\* Messages that replays of the last release have room for and can unpack.
Replayable(m) ==
    /\ release = MaxRelease
    /\ Form[m] # "eml"
    /\ \E i \in Waiting :
          raws[i].mail = m /\ Cardinality({j \in Waiting : j < i}) < Limit

\* What the deployed release can read of a message that waits is held in the
\* end, whatever labels it has had.  Not so of mail that is not among the oldest
\* that wait, since what stays unreadable keeps its place; of an uploaded .eml;
\* and of what is labelled routed or retired although it has reports to give.
Replayed ==
    \A m \in Mail :
        Replayable(m) ~> KeysRead(Docs[m], Form[m] = "message") \subseteq KeysOf(reports)
=============================================================================
