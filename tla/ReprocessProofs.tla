-------------------------- MODULE ReprocessProofs ---------------------------
(***************************************************************************)
(* What holds of uploads and replays for any mail, any documents, any      *)
(* batch limit and any number of releases; with any number of replays at   *)
(* once, except where one is assumed.                                      *)
(***************************************************************************)
EXTENDS Reprocess, SequenceTheorems, FiniteSetTheorems, WellFoundedInduction, TLAPS

Row == [mail : Mail, status : Statuses]
Report == [key : Keys, mail : Mail]

-----------------------------------------------------------------------------
(* The inductive invariant.                                                *)

\* No key twice.
OneEach(rows) == \A s, t \in rows : s.key = t.key => s = t

\* All the documents that a release understood are held, and there were some.
AllHeld(m, rows, past) ==
    /\ Understood(m, past) # {}
    /\ \A d \in Understood(m, past) : Docs[m][d].key \in KeysOf(rows)

\* What a label says of a message, with respect to a set of reports: those of a
\* duplicate were all in it for a release up to this one, and routed mail has one
\* of its own.
Earned(m, status, rows, now) ==
    Form[m] = "message" =>
        /\ status = "duplicate" => \E past \in 0 .. now : AllHeld(m, rows, past)
        /\ status = "routed" => \E s \in rows : s.mail = m

WorldOK ==
    /\ release \in 0 .. MaxRelease
    /\ address \in [LocalParts -> {"none", "active", "retired", "gone"}]

StoreOK ==
    /\ raws \in Seq(Row)
    /\ reports \subseteq Report /\ OneEach(reports)
    /\ \A i \in DOMAIN raws : Earned(raws[i].mail, raws[i].status, reports, release)

\* A transaction has read labels that give a message to a replay, and labels
\* only what the reports of the database and its own justify.
BatchOK(r) ==
    /\ DOMAIN batch[r] = {"todo", "loaded", "labels", "written"}
    /\ batch[r].todo \subseteq DOMAIN batch[r].loaded
    /\ DOMAIN batch[r].loaded \subseteq DOMAIN raws
    /\ batch[r].labels \in [DOMAIN batch[r].loaded \ batch[r].todo -> Statuses]
    /\ batch[r].written \subseteq Report /\ OneEach(batch[r].written)
    /\ \A i \in DOMAIN batch[r].loaded :
          /\ batch[r].loaded[i] \in {"failed", "unrouted", "duplicate"}
          /\ Earned(raws[i].mail, batch[r].loaded[i], reports, release)
    /\ \A i \in DOMAIN batch[r].labels :
          Earned(raws[i].mail, batch[r].labels[i], reports \cup batch[r].written, release)

RInv ==
    /\ WorldOK /\ StoreOK
    /\ DOMAIN batch = Runners
    /\ \A r \in Runners : batch[r] # NoRow => BatchOK(r)

\* One replay at a time.
Single == \A q, r \in Runners : q = r

\* The labels it has read are those of the database.
Current ==
    \A r \in Runners : batch[r] # NoRow =>
        \A i \in DOMAIN batch[r].loaded : raws[i].status = batch[r].loaded[i]

-----------------------------------------------------------------------------
(* What the code sees in a message.                                        *)

LEMMA RowAt ==
    ASSUME StoreOK
    PROVE  /\ Len(raws) \in Nat /\ DOMAIN raws = 1 .. Len(raws)
           /\ \A i \in DOMAIN raws : raws[i] \in Row
  BY LenProperties, ElementOfSeq DEF StoreOK

LEMMA DocType ==
    ASSUME NEW m \in Mail
    PROVE  /\ Docs[m] \in Seq(Document)
           /\ Len(Docs[m]) \in Nat /\ DOMAIN Docs[m] = 1 .. Len(Docs[m])
           /\ \A i \in DOMAIN Docs[m] : Docs[m][i] \in Document
  <1>1. Docs[m] \in Seq(Document)
    BY ReprocessAssumption
  <1>2. QED BY <1>1, LenProperties, ElementOfSeq

LEMMA KindType ==
    ASSUME WorldOK, NEW d \in Document
    PROVE  Kind(d) \in {"unknown", "broken", "report"}
  BY ReprocessAssumption DEF WorldOK, Document, Kind

LEMMA ReplayDocsType ==
    ASSUME NEW m \in Mail
    PROVE  /\ ReplayDocs(m) \in Seq(Document)
           /\ Form[m] = "message" => ReplayDocs(m) = Docs[m]
  BY DocType, EmptySeq DEF ReplayDocs

LEMMA KeysReadType ==
    ASSUME NEW docs \in Seq(Document), NEW stopping \in BOOLEAN
    PROVE  /\ KeysRead(docs, stopping) \subseteq Keys
           /\ \A k \in KeysRead(docs, stopping) : \E i \in DOMAIN docs : docs[i].key = k
  <1>1. DOMAIN docs = 1 .. Len(docs) /\ \A i \in DOMAIN docs : docs[i] \in Document
    BY LenProperties, ElementOfSeq
  <1>2. \A i \in DOMAIN docs : docs[i].key \in Keys
    BY <1>1 DEF Document
  <1>3. QED BY <1>1, <1>2 DEF KeysRead, OfKind

LEMMA RecipientType ==
    ASSUME WorldOK, NEW m \in Mail
    PROVE  /\ Recipient(m) \in {"none", "active", "retired", "gone"}
           /\ RoutingStatus(m) \in {"routed", "retired", "unrouted"}
  <1>1. Recipient(m) \in {"none", "active", "retired", "gone"}
    BY DEF WorldOK, Recipient
  <1>2. QED BY <1>1 DEF RoutingStatus

\* What is known of a message stays known when reports are added and with later
\* releases.
LEMMA EarnedMore ==
    ASSUME NEW m, NEW status, NEW S, NEW T, S \subseteq T, NEW now, Earned(m, status, S, now)
    PROVE  Earned(m, status, T, now)
  <1>1. \A past : AllHeld(m, S, past) => AllHeld(m, T, past)
    BY DEF AllHeld, KeysOf
  <1>2. QED BY <1>1 DEF Earned

LEMMA EarnedLater ==
    ASSUME NEW m, NEW status, NEW S, NEW now \in Nat, Earned(m, status, S, now)
    PROVE  Earned(m, status, S, now + 1)
  <1>1. 0 .. now \subseteq 0 .. now + 1
    OBVIOUS
  <1>2. QED BY <1>1 DEF Earned

\* When no document is broken, those understood are read.
LEMMA UnderstoodIsRead ==
    ASSUME WorldOK, NEW m \in Mail, OfKind(Docs[m], "broken") = {}
    PROVE  /\ release \in 0 .. release
           /\ \A d \in Understood(m, release) : Docs[m][d].key \in KeysRead(Docs[m], TRUE)
           /\ \/ KeysRead(Docs[m], TRUE) # {}
              \/ OfKind(Docs[m], "unknown") # 1 .. Len(Docs[m])
              => Understood(m, release) # {}
  <1>1. release \in 0 .. release
    BY ReprocessAssumption DEF WorldOK
  <1>2. /\ DOMAIN Docs[m] = 1 .. Len(Docs[m])
        /\ \A d \in DOMAIN Docs[m] : /\ Docs[m][d] \in Document
                                     /\ Kind(Docs[m][d]) \in {"unknown", "broken", "report"}
    BY DocType, KindType
  <1>3. \A d \in DOMAIN Docs[m] : d \in Understood(m, release) <=> Kind(Docs[m][d]) = "report"
    <2>1. SUFFICES ASSUME NEW d \in DOMAIN Docs[m]
                   PROVE  Docs[m][d].known <= release <=> Kind(Docs[m][d]) = "report"
      BY DEF Understood
    <2>2. Kind(Docs[m][d]) # "broken"
      BY <1>2 DEF OfKind
    <2>3. Docs[m][d].known \in Nat /\ Docs[m][d].readable \in Nat /\ release \in Nat
      BY <1>1, <1>2, ReprocessAssumption DEF WorldOK, Document
    <2>4. Kind(Docs[m][d]) = "unknown" <=> ~(Docs[m][d].known <= release)
      BY <2>3 DEF Kind
    <2>5. QED BY <1>2, <2>2, <2>4
  <1>4. \A d \in Understood(m, release) : d \in OfKind(Docs[m], "report")
    BY <1>2, <1>3 DEF Understood, OfKind
  <1>5. \A d \in Understood(m, release) : Docs[m][d].key \in KeysRead(Docs[m], TRUE)
    BY <1>4 DEF KeysRead
  <1>6. ASSUME KeysRead(Docs[m], TRUE) # {} PROVE Understood(m, release) # {}
    <2>1. PICK d \in OfKind(Docs[m], "report") : TRUE
      BY <1>6 DEF KeysRead
    <2>2. QED BY <1>2, <1>3, <2>1 DEF OfKind
  <1>7. ASSUME OfKind(Docs[m], "unknown") # 1 .. Len(Docs[m]) PROVE Understood(m, release) # {}
    <2>1. PICK d \in 1 .. Len(Docs[m]) : Kind(Docs[m][d]) # "unknown"
      BY <1>7 DEF OfKind
    <2>2. Kind(Docs[m][d]) # "broken"
      BY <2>1 DEF OfKind
    <2>3. QED BY <1>2, <1>3, <2>1, <2>2
  <1>8. QED BY <1>1, <1>5, <1>6, <1>7

\* Nothing new of a message that was understood is a duplicate.
LEMMA NothingNew ==
    ASSUME WorldOK, NEW m \in Mail, OfKind(Docs[m], "broken") = {}, Understood(m, release) # {},
           NEW rows, KeysRead(Docs[m], TRUE) \subseteq KeysOf(rows)
    PROVE  \E past \in 0 .. release : AllHeld(m, rows, past)
  BY UnderstoodIsRead DEF AllHeld

\* A set of reports with new keys, all of one message.
LEMMA AddedReports ==
    ASSUME NEW S \in SUBSET Report, OneEach(S), NEW m \in Mail, NEW new \in SUBSET Keys,
           new \cap KeysOf(S) = {}
    PROVE  LET T == S \cup {[key |-> k, mail |-> m] : k \in new} IN
           T \subseteq Report /\ OneEach(T)
  <1> DEFINE A == {[key |-> k, mail |-> m] : k \in new}
  <1>1. A \subseteq Report /\ OneEach(A)
    BY DEF Report, OneEach
  <1>2. \A s \in S, t \in A : s.key # t.key
    BY DEF KeysOf
  <1>3. QED BY <1>1, <1>2 DEF OneEach

LEMMA MineHas ==
    ASSUME NEW m, NEW new, new # {}
    PROVE  \E s \in {[key |-> k, mail |-> m] : k \in new} : s.mail = m
  <1>1. PICK k : k \in new
    OBVIOUS
  <1>2. [key |-> k, mail |-> m] \in {[key |-> h, mail |-> m] : h \in new}
    BY <1>1
  <1>3. QED BY <1>2

-----------------------------------------------------------------------------
(* Labels.                                                                 *)

\* process_message gives a message a label that its reports justify.
LEMMA FilingEarned ==
    ASSUME RInv, NEW m \in Mail, Form[m] = "message"
    PROVE  LET read == KeysRead(Docs[m], TRUE)
               new  == read \ KeysOf(reports)
               mine == {[key |-> k, mail |-> m] : k \in new}
           IN  /\ FilingStatus(m, read, new) \in Statuses
               /\ Earned(m, FilingStatus(m, read, new), reports \cup mine, release)
  <1> DEFINE read == KeysRead(Docs[m], TRUE)
             new  == read \ KeysOf(reports)
             mine == {[key |-> k, mail |-> m] : k \in new}
             status == FilingStatus(m, read, new)
  <1>1. RoutingStatus(m) \in {"routed", "retired", "unrouted"}
    BY RecipientType DEF RInv
  <1>2. WorldOK
    BY DEF RInv
  <1>3. CASE status \in {"failed", "retired", "unrouted"}
    BY <1>3 DEF Earned, Statuses
  <1>4. CASE ~(status \in {"failed", "retired", "unrouted"})
    <2>1. OfKind(Docs[m], "broken") = {} /\ RoutingStatus(m) = "routed" /\ read # {}
          /\ status = (IF new = {} THEN "duplicate" ELSE "routed")
      BY <1>1, <1>4 DEF FilingStatus
    <2>2. CASE new = {}
      <3>1. read \subseteq KeysOf(reports \cup mine)
        BY <2>2 DEF KeysOf
      <3>2. Understood(m, release) # {}
        BY <1>2, <2>1, UnderstoodIsRead
      <3>3. \E past \in 0 .. release : AllHeld(m, reports \cup mine, past)
        BY <1>2, <2>1, <3>1, <3>2, NothingNew
      <3>4. QED BY <2>1, <2>2, <3>3 DEF Earned, Statuses
    <2>3. CASE new # {}
      <3>1. \E s \in mine : s.mail = m
        BY <2>3, MineHas
      <3>2. QED BY <2>1, <2>3, <3>1 DEF Earned, Statuses
    <2>4. QED BY <2>2, <2>3
  <1>5. QED BY <1>3, <1>4

\* So does a replay: a message is called a duplicate when one of its documents
\* was read and brought nothing new.
LEMMA LabelEarned ==
    ASSUME RInv, NEW m \in Mail, NEW old \in {"failed", "unrouted", "duplicate"},
           NEW held \in SUBSET Report, Earned(m, old, held, release)
    PROVE  LET new  == KeysRead(ReplayDocs(m), Form[m] = "message") \ KeysOf(held)
               mine == {[key |-> k, mail |-> m] : k \in new}
           IN  /\ Label(m, old, new) \in Statuses
               /\ Earned(m, Label(m, old, new), held \cup mine, release)
  <1> DEFINE docs == ReplayDocs(m)
             stopped == Form[m] = "message" /\ OfKind(docs, "broken") # {}
             read == KeysRead(docs, Form[m] = "message")
             new  == read \ KeysOf(held)
             mine == {[key |-> k, mail |-> m] : k \in new}
             label == Label(m, old, new)
  <1>1. label \in Statuses
    BY DEF Label, Statuses
  <1>2. CASE label \in {"failed", "retired", "unrouted"}
    BY <1>1, <1>2 DEF Earned
  <1>3. CASE ~stopped /\ new # {}
    <2>1. label \in {"routed", "retired"}
      BY <1>3 DEF Label
    <2>2. \E s \in mine : s.mail = m
      BY <1>3, MineHas
    <2>3. QED BY <1>1, <2>1, <2>2 DEF Earned
  <1>4. CASE ~stopped /\ new = {} /\ OfKind(docs, "unknown") # 1 .. Len(docs)
    <2>1. label = "duplicate"
      BY <1>4 DEF Label
    <2>2. SUFFICES ASSUME Form[m] = "message"
                   PROVE  \E past \in 0 .. release : AllHeld(m, held \cup mine, past)
      BY <1>1, <2>1 DEF Earned
    <2>3. docs = Docs[m] /\ OfKind(docs, "broken") = {} /\ WorldOK
      BY <1>4, <2>2, ReplayDocsType DEF RInv
    <2>4. Understood(m, release) # {}
      BY <1>4, <2>3, UnderstoodIsRead
    <2>5. KeysRead(Docs[m], TRUE) \subseteq KeysOf(held \cup mine)
      BY <1>4, <2>2, <2>3 DEF KeysOf
    <2>6. QED BY <2>3, <2>4, <2>5, NothingNew
  <1>5. CASE label = old
    BY <1>1, <1>5, EarnedMore
  <1>6. QED BY <1>2, <1>3, <1>4, <1>5 DEF Label

-----------------------------------------------------------------------------
(* Steps.                                                                  *)

\* A batch that is not touched stays right when messages and reports are added
\* or relabelled.
LEMMA OtherBatch ==
    ASSUME NEW r \in Runners, BatchOK(r), batch'[r] = batch[r], reports \subseteq reports',
           release' = release, DOMAIN raws \subseteq DOMAIN raws', \A i \in DOMAIN raws : raws'[i].mail = raws[i].mail
    PROVE  BatchOK(r)'
  <1>1. /\ DOMAIN batch'[r] = {"todo", "loaded", "labels", "written"}
        /\ batch'[r].todo \subseteq DOMAIN batch'[r].loaded
        /\ DOMAIN batch'[r].loaded \subseteq DOMAIN raws'
        /\ batch'[r].labels \in [DOMAIN batch'[r].loaded \ batch'[r].todo -> Statuses]
        /\ batch'[r].written \subseteq Report /\ OneEach(batch'[r].written)
    BY DEF BatchOK
  <1>2. ASSUME NEW i \in DOMAIN batch'[r].loaded
        PROVE  /\ batch'[r].loaded[i] \in {"failed", "unrouted", "duplicate"}
               /\ Earned(raws'[i].mail, batch'[r].loaded[i], reports', release')
    <2>1. i \in DOMAIN raws /\ batch[r].loaded[i] \in {"failed", "unrouted", "duplicate"}
          /\ Earned(raws[i].mail, batch[r].loaded[i], reports, release)
      BY DEF BatchOK
    <2>2. QED BY <2>1, EarnedMore
  <1>3. ASSUME NEW i \in DOMAIN batch'[r].labels
        PROVE  Earned(raws'[i].mail, batch'[r].labels[i], reports' \cup batch'[r].written, release')
    <2>1. i \in DOMAIN raws /\ Earned(raws[i].mail, batch[r].labels[i], reports \cup batch[r].written, release)
      BY DEF BatchOK
    <2>2. reports \cup batch[r].written \subseteq reports' \cup batch[r].written
      OBVIOUS
    <2>3. Earned(raws[i].mail, batch[r].labels[i], reports' \cup batch[r].written, release')
      BY <2>1, <2>2, EarnedMore
    <2>4. QED BY <2>1, <2>3
  <1>4. QED BY <1>1, <1>2, <1>3 DEF BatchOK

LEMMA InitRInv == Init => RInv /\ Current
  <1> SUFFICES ASSUME Init PROVE RInv /\ Current
    OBVIOUS
  <1>1. WorldOK
    BY ReprocessAssumption DEF Init, WorldOK
  <1>2. StoreOK
    <2>1. raws \in Seq(Row) /\ DOMAIN raws = {}
      BY EmptySeq DEF Init
    <2>2. QED BY <2>1 DEF Init, StoreOK, OneEach
  <1>3. DOMAIN batch = Runners /\ \A r \in Runners : batch[r] = NoRow
    BY DEF Init
  <1>4. QED BY <1>1, <1>2, <1>3 DEF RInv, Current

LEMMA InsertRInv ==
    ASSUME RInv, NEW m \in Mail, NEW status \in Statuses, NEW new \in SUBSET Keys,
           new \cap KeysOf(reports) = {}, Insert(m, status, new),
           Earned(m, status, reports \cup {[key |-> k, mail |-> m] : k \in new}, release)
    PROVE  RInv' /\ (Current => Current')
  <1> DEFINE mine == {[key |-> k, mail |-> m] : k \in new}
             row  == [mail |-> m, status |-> status]
  <1>1. /\ raws' = Append(raws, row) /\ reports' = reports \cup mine
        /\ UNCHANGED <<release, address, batch>>
    BY DEF Insert, world
  <1>2. row \in Row
    BY DEF Row
  <1> HIDE DEF row
  <1>3. /\ raws' \in Seq(Row) /\ Len(raws') = Len(raws) + 1 /\ raws'[Len(raws) + 1] = row
        /\ \A i \in 1 .. Len(raws) : raws'[i] = raws[i]
    BY <1>1, <1>2, AppendProperties DEF RInv, StoreOK
  <1>4. /\ DOMAIN raws = 1 .. Len(raws) /\ Len(raws) \in Nat /\ DOMAIN raws' = 1 .. Len(raws')
        /\ \A i \in DOMAIN raws' : i \in DOMAIN raws \/ i = Len(raws) + 1
    <2>1. DOMAIN raws = 1 .. Len(raws) /\ Len(raws) \in Nat
      BY RowAt DEF RInv
    <2>2. DOMAIN raws' = 1 .. Len(raws')
      BY <1>3, LenProperties
    <2>3. QED BY <1>3, <2>1, <2>2
  <1>5. WorldOK'
    BY <1>1 DEF RInv, WorldOK
  <1>6. StoreOK'
    <2>1. reports' \subseteq Report /\ OneEach(reports')
      <3>1. reports \in SUBSET Report /\ OneEach(reports)
        BY DEF RInv, StoreOK
      <3>2. reports \cup mine \subseteq Report /\ OneEach(reports \cup mine)
        BY <3>1, AddedReports
      <3>3. QED BY <1>1, <3>2
    <2>2. ASSUME NEW i \in DOMAIN raws' PROVE Earned(raws'[i].mail, raws'[i].status, reports', release')
      <3>1. CASE i \in DOMAIN raws
        <4>1. raws'[i] = raws[i] /\ Earned(raws[i].mail, raws[i].status, reports, release)
          BY <1>3, <1>4, <3>1 DEF RInv, StoreOK
        <4>2. reports \subseteq reports' /\ release' = release
          BY <1>1
        <4>3. QED BY <4>1, <4>2, EarnedMore
      <3>2. CASE i = Len(raws) + 1
        <4>1. raws'[i].mail = m /\ raws'[i].status = status
          BY <1>3, <3>2 DEF row
        <4>2. QED BY <1>1, <4>1
      <3>3. QED BY <1>4, <3>1, <3>2
    <2>3. \A i \in DOMAIN raws' : Earned(raws'[i].mail, raws'[i].status, reports', release')
      BY <2>2
    <2>4. QED BY <1>3, <2>1, <2>3 DEF StoreOK, Earned, KeysOf, OneEach
  <1>7. ASSUME NEW r \in Runners, batch'[r] # NoRow PROVE BatchOK(r)'
    <2>1. BatchOK(r) /\ batch'[r] = batch[r]
      BY <1>1, <1>7 DEF RInv
    <2>2. DOMAIN raws \subseteq DOMAIN raws' /\ \A i \in DOMAIN raws : raws'[i].mail = raws[i].mail
      BY <1>3, <1>4
    <2>3. QED BY <1>1, <2>1, <2>2, OtherBatch
  <1>8. RInv'
    BY <1>1, <1>5, <1>6, <1>7 DEF RInv
  <1>9. Current => Current'
    <2>1. \A r \in Runners : batch[r] # NoRow => DOMAIN batch[r].loaded \subseteq DOMAIN raws
      BY DEF RInv, BatchOK
    <2>2. QED BY <1>1, <1>3, <1>4, <2>1 DEF Current
  <1>10. QED BY <1>8, <1>9

LEMMA ReceiveRInv ==
    ASSUME RInv, NEW m \in Mail, Receive(m)
    PROVE  RInv' /\ (Current => Current')
  <1> DEFINE read == KeysRead(Docs[m], TRUE)
             new  == read \ KeysOf(reports)
             status == FilingStatus(m, read, new)
  <1>1. Form[m] = "message" /\ Insert(m, status, new)
    BY DEF Receive
  <1>2. new \in SUBSET Keys /\ new \cap KeysOf(reports) = {}
    BY DocType, KeysReadType
  <1>3. status \in Statuses /\ Earned(m, status, reports \cup {[key |-> k, mail |-> m] : k \in new}, release)
    BY <1>1, FilingEarned
  <1> HIDE DEF status, new
  <1>4. QED BY <1>1, <1>2, <1>3, InsertRInv

LEMMA UploadRInv ==
    ASSUME RInv, NEW m \in Mail, Upload(m)
    PROVE  RInv' /\ (Current => Current')
  <1> DEFINE read == KeysRead(Docs[m], FALSE)
             new  == read \ KeysOf(reports)
             status == IF read = {} THEN "failed" ELSE "routed"
  <1>1. Form[m] # "message" /\ Insert(m, status, new)
    BY DEF Upload
  <1>2. new \in SUBSET Keys /\ new \cap KeysOf(reports) = {}
    BY DocType, KeysReadType
  <1>3. status \in Statuses /\ Earned(m, status, reports \cup {[key |-> k, mail |-> m] : k \in new}, release)
    BY <1>1 DEF Statuses, Earned
  <1> HIDE DEF status, new
  <1>4. QED BY <1>1, <1>2, <1>3, InsertRInv

\* A step of one replay that writes nothing.
LEMMA BatchStep ==
    ASSUME RInv, NEW r \in Runners, UNCHANGED <<world, store>>, DOMAIN batch' = Runners,
           \A q \in Runners : q # r => batch'[q] = batch[q],
           batch'[r] # NoRow => BatchOK(r)'
    PROVE  RInv'
  <1>1. WorldOK' /\ StoreOK' /\ UNCHANGED <<release, raws, reports>>
    BY DEF RInv, WorldOK, StoreOK, world, store
  <1>2. ASSUME NEW q \in Runners, q # r, batch'[q] # NoRow PROVE BatchOK(q)'
    BY <1>1, <1>2, OtherBatch DEF RInv
  <1>3. QED BY <1>1, <1>2 DEF RInv

LEMMA BeginRInv ==
    ASSUME RInv, NEW r \in Runners, Begin(r)
    PROVE  RInv' /\ (Current => Current')
  <1> DEFINE b == [todo |-> Selected, loaded |-> [i \in Selected |-> raws[i].status],
                   labels |-> [i \in {} |-> ""], written |-> {}]
  <1>1. batch' = [batch EXCEPT ![r] = b] /\ UNCHANGED <<world, store>>
    BY DEF Begin
  <1>2. /\ Selected \subseteq DOMAIN raws
        /\ \A i \in Selected : raws[i].status \in {"failed", "unrouted", "duplicate"}
    BY DEF Selected, Unfinished
  <1>3. UNCHANGED <<release, raws, reports>>
    BY <1>1 DEF world, store
  <1>4. /\ DOMAIN b = {"todo", "loaded", "labels", "written"}
        /\ b.todo = Selected /\ DOMAIN b.loaded = Selected
        /\ \A i \in Selected : b.loaded[i] = raws[i].status
        /\ DOMAIN b.labels = {} /\ b.written = {}
        /\ b.labels \in [Selected \ Selected -> Statuses]
    OBVIOUS
  <1> HIDE DEF b
  <1>5. batch'[r] = b /\ DOMAIN batch' = Runners /\ \A q \in Runners : q # r => batch'[q] = batch[q]
    BY <1>1 DEF RInv
  <1>6. BatchOK(r)'
    <2>1. \A i \in Selected : Earned(raws'[i].mail, b.loaded[i], reports', release')
      BY <1>2, <1>3, <1>4 DEF RInv, StoreOK
    <2>2. OneEach({})
      BY DEF OneEach
    <2>3. QED BY <1>2, <1>3, <1>4, <1>5, <2>1, <2>2 DEF BatchOK
  <1>7. RInv'
    BY <1>1, <1>5, <1>6, BatchStep
  <1>8. Current => Current'
    BY <1>3, <1>4, <1>5 DEF Current
  <1>9. QED BY <1>7, <1>8

\* The next message of a batch is one of it.
LEMMA NextIdType ==
    ASSUME RInv, NEW r \in Runners, batch[r] # NoRow, batch[r].todo # {}
    PROVE  NextId(r) \in batch[r].todo /\ \A j \in batch[r].todo : NextId(r) <= j
  <1>1. batch[r].todo \subseteq Nat
    <2>1. batch[r].todo \subseteq DOMAIN raws
      BY DEF RInv, BatchOK
    <2>2. DOMAIN raws \subseteq Nat
      BY RowAt DEF RInv
    <2>3. QED BY <2>1, <2>2
  <1>2. PICK i \in batch[r].todo : \A j \in batch[r].todo : <<j, i>> \notin OpToRel(<, Nat)
    BY <1>1, NatLessThanWellFounded, WFMin
  <1>3. \A j \in batch[r].todo : ~(j < i)
    BY <1>1, <1>2 DEF OpToRel
  <1>4. \A j \in batch[r].todo : i <= j
    BY <1>1, <1>3
  <1>5. QED BY <1>4 DEF NextId

LEMMA ExamineRInv ==
    ASSUME RInv, NEW r \in Runners, Examine(r)
    PROVE  RInv' /\ (Current => Current')
  <1> DEFINE i == NextId(r)
             m == raws[i].mail
             held == reports \cup batch[r].written
             new == KeysRead(ReplayDocs(m), Form[m] = "message") \ KeysOf(held)
             mine == {[key |-> k, mail |-> m] : k \in new}
             label == Label(m, batch[r].loaded[i], new)
  <1>1. batch[r] # NoRow /\ batch[r].todo # {} /\ UNCHANGED <<world, store>>
    BY DEF Examine
  <1>2. BatchOK(r) /\ UNCHANGED <<release, raws, reports>>
    BY <1>1 DEF RInv, world, store
  <1>3. i \in batch[r].todo /\ i \in DOMAIN batch[r].loaded /\ i \in DOMAIN raws /\ m \in Mail
    <2>1. i \in batch[r].todo
      BY <1>1, NextIdType
    <2>2. i \in DOMAIN batch[r].loaded /\ i \in DOMAIN raws
      BY <1>2, <2>1 DEF BatchOK
    <2>3. QED BY <2>1, <2>2, RowAt DEF RInv, Row
  <1>4. HeldFor(r) = KeysOf(held)
    BY DEF HeldFor, KeysOf
  <1>5. batch' = [batch EXCEPT
         ![r].todo = @ \ {i},
         ![r].labels = [j \in DOMAIN @ \cup {i} |-> IF j = i THEN label ELSE @[j]],
         ![r].written = @ \cup mine]
    BY <1>4 DEF Examine
  <1>6. new \in SUBSET Keys /\ new \cap KeysOf(batch[r].written) = {}
    <2>1. KeysRead(ReplayDocs(m), Form[m] = "message") \subseteq Keys
      BY <1>3, ReplayDocsType, KeysReadType
    <2>2. QED BY <2>1 DEF KeysOf
  <1>7. label \in Statuses /\ Earned(m, label, held \cup mine, release)
    <2>1. /\ batch[r].loaded[i] \in {"failed", "unrouted", "duplicate"}
          /\ Earned(m, batch[r].loaded[i], reports, release)
      BY <1>2, <1>3 DEF BatchOK
    <2>2. held \in SUBSET Report /\ reports \subseteq held
      BY <1>2 DEF RInv, StoreOK, BatchOK
    <2>3. Earned(m, batch[r].loaded[i], held, release)
      BY <2>1, <2>2, EarnedMore
    <2>4. QED BY <1>3, <2>1, <2>2, <2>3, LabelEarned
  <1>8. batch[r].written \cup mine \subseteq Report /\ OneEach(batch[r].written \cup mine)
    <2>1. batch[r].written \in SUBSET Report /\ OneEach(batch[r].written)
      BY <1>2 DEF BatchOK
    <2> HIDE DEF new
    <2>2. QED BY <1>3, <1>6, <2>1, AddedReports
  <1> HIDE DEF i, mine, label
  <1>9. /\ DOMAIN batch' = Runners /\ \A q \in Runners : q # r => batch'[q] = batch[q]
        /\ DOMAIN batch'[r] = {"todo", "loaded", "labels", "written"}
        /\ batch'[r].todo = batch[r].todo \ {i}
        /\ batch'[r].loaded = batch[r].loaded
        /\ batch'[r].labels = [j \in DOMAIN batch[r].labels \cup {i} |->
                                 IF j = i THEN label ELSE batch[r].labels[j]]
        /\ batch'[r].written = batch[r].written \cup mine
    BY <1>2, <1>5 DEF RInv, BatchOK
  <1>10. batch'[r].labels \in [DOMAIN batch'[r].loaded \ batch'[r].todo -> Statuses]
    <2>1. DOMAIN batch[r].labels = DOMAIN batch[r].loaded \ batch[r].todo
          /\ \A j \in DOMAIN batch[r].labels : batch[r].labels[j] \in Statuses
      BY <1>2 DEF BatchOK
    <2>2. DOMAIN batch[r].labels \cup {i} = DOMAIN batch'[r].loaded \ batch'[r].todo
      BY <1>3, <1>9, <2>1
    <2>3. QED BY <1>7, <1>9, <2>1, <2>2
  <1>11. ASSUME NEW j \in DOMAIN batch'[r].labels
         PROVE  Earned(raws'[j].mail, batch'[r].labels[j], reports' \cup batch'[r].written, release')
    <2>1. reports' \cup batch'[r].written = held \cup mine
      BY <1>2, <1>9
    <2>2. CASE j = i
      <3>1. batch'[r].labels[j] = label /\ raws'[j].mail = m
        BY <1>2, <1>9, <1>11, <2>2
      <3>2. QED BY <1>2, <1>7, <2>1, <3>1
    <2>3. CASE j # i
      <3>1. j \in DOMAIN batch[r].labels /\ batch'[r].labels[j] = batch[r].labels[j]
        BY <1>9, <1>11, <2>3
      <3>2. Earned(raws[j].mail, batch[r].labels[j], held, release)
        BY <1>2, <3>1 DEF BatchOK
      <3>3. Earned(raws[j].mail, batch[r].labels[j], held \cup mine, release)
        BY <3>2, EarnedMore
      <3>4. QED BY <1>2, <2>1, <3>1, <3>3
    <2>4. QED BY <2>2, <2>3
  <1>12. BatchOK(r)'
    <2>1. batch'[r].todo \subseteq DOMAIN batch'[r].loaded /\ DOMAIN batch'[r].loaded \subseteq DOMAIN raws'
      BY <1>2, <1>9 DEF BatchOK
    <2>2. \A j \in DOMAIN batch'[r].loaded :
             /\ batch'[r].loaded[j] \in {"failed", "unrouted", "duplicate"}
             /\ Earned(raws'[j].mail, batch'[r].loaded[j], reports', release')
      BY <1>2, <1>9 DEF BatchOK
    <2>3. batch'[r].written \subseteq Report /\ OneEach(batch'[r].written)
      BY <1>8, <1>9
    <2>4. QED BY <1>9, <1>10, <1>11, <2>1, <2>2, <2>3 DEF BatchOK
  <1>13. RInv'
    BY <1>1, <1>9, <1>12, BatchStep
  <1>14. Current => Current'
    BY <1>1, <1>2, <1>9 DEF Current
  <1>15. QED BY <1>13, <1>14

LEMMA AbortRInv ==
    ASSUME RInv, NEW r \in Runners, Abort(r)
    PROVE  RInv' /\ (Current => Current')
  <1>1. batch' = [batch EXCEPT ![r] = NoRow] /\ UNCHANGED <<world, store>>
    BY DEF Abort
  <1>2. DOMAIN batch' = Runners /\ batch'[r] = NoRow
        /\ \A q \in Runners : q # r => batch'[q] = batch[q]
    BY <1>1 DEF RInv
  <1>3. RInv'
    BY <1>1, <1>2, BatchStep
  <1>4. QED BY <1>1, <1>2, <1>3 DEF Current, store

\* What a commit does to the rows.
LEMMA RelabelledRows ==
    ASSUME RInv, NEW r \in Runners, batch[r] # NoRow
    PROVE  /\ Relabelled(r) \in Seq(Row) /\ DOMAIN Relabelled(r) = DOMAIN raws
           /\ \A i \in DOMAIN raws :
                 /\ Relabelled(r)[i].mail = raws[i].mail
                 /\ \/ Relabelled(r)[i].status = raws[i].status
                    \/ /\ i \in DOMAIN batch[r].labels
                       /\ Relabelled(r)[i].status = batch[r].labels[i]
  <1>1. Len(raws) \in Nat /\ DOMAIN raws = 1 .. Len(raws) /\ \A i \in DOMAIN raws : raws[i] \in Row
    BY RowAt DEF RInv
  <1>2. \A i \in DOMAIN batch[r].labels : batch[r].labels[i] \in Statuses
    BY DEF RInv, BatchOK
  <1> DEFINE row(i) == IF i \in DOMAIN batch[r].labels /\ batch[r].labels[i] # batch[r].loaded[i]
                       THEN [raws[i] EXCEPT !.status = batch[r].labels[i]]
                       ELSE raws[i]
  <1>3. ASSUME NEW i \in DOMAIN raws
        PROVE  /\ row(i) \in Row /\ row(i).mail = raws[i].mail
               /\ \/ row(i).status = raws[i].status
                  \/ i \in DOMAIN batch[r].labels /\ row(i).status = batch[r].labels[i]
    <2>1. raws[i] \in Row
      BY <1>1
    <2>2. QED BY <1>2, <2>1 DEF Row
  <1>4. Relabelled(r) = [i \in 1 .. Len(raws) |-> row(i)]
    BY <1>1 DEF Relabelled
  <1> HIDE DEF row
  <1>5. [i \in 1 .. Len(raws) |-> row(i)] \in Seq(Row)
    <2>1. \A i \in 1 .. Len(raws) : row(i) \in Row
      BY <1>1, <1>3
    <2>2. QED BY <1>1, <2>1, IsASeq
  <1>6. QED BY <1>1, <1>3, <1>4, <1>5

LEMMA CommitRInv ==
    ASSUME RInv, NEW r \in Runners, Commit(r)
    PROVE  RInv' /\ (Single => Current')
  <1>1. /\ batch[r] # NoRow /\ ~Conflict(r) /\ raws' = Relabelled(r)
        /\ reports' = reports \cup batch[r].written
        /\ batch' = [batch EXCEPT ![r] = NoRow] /\ UNCHANGED <<release, address>>
    BY DEF Commit, Done, world
  <1>2. /\ raws' \in Seq(Row) /\ DOMAIN raws' = DOMAIN raws
        /\ \A i \in DOMAIN raws :
              /\ raws'[i].mail = raws[i].mail
              /\ \/ raws'[i].status = raws[i].status
                 \/ i \in DOMAIN batch[r].labels /\ raws'[i].status = batch[r].labels[i]
    BY <1>1, RelabelledRows
  <1>3. DOMAIN batch' = Runners /\ batch'[r] = NoRow
        /\ \A q \in Runners : q # r => batch'[q] = batch[q]
    BY <1>1 DEF RInv
  <1>4. BatchOK(r)
    BY <1>1 DEF RInv
  <1>5. WorldOK'
    BY <1>1 DEF RInv, WorldOK
  <1>6. StoreOK'
    <2>1. reports' \subseteq Report /\ OneEach(reports')
      <3>1. reports \subseteq Report /\ OneEach(reports)
            /\ batch[r].written \subseteq Report /\ OneEach(batch[r].written)
        BY <1>4 DEF RInv, StoreOK, BatchOK
      <3>2. \A s \in reports, t \in batch[r].written : s.key # t.key
        BY <1>1 DEF Conflict, KeysOf
      <3>3. QED BY <1>1, <3>1, <3>2 DEF OneEach
    <2>2. ASSUME NEW i \in DOMAIN raws' PROVE Earned(raws'[i].mail, raws'[i].status, reports', release')
      <3>1. CASE raws'[i].status = raws[i].status
        <4>1. Earned(raws[i].mail, raws[i].status, reports, release) /\ reports \subseteq reports'
              /\ release' = release
          BY <1>1, <1>2 DEF RInv, StoreOK
        <4>2. Earned(raws[i].mail, raws[i].status, reports', release')
          BY <4>1, EarnedMore
        <4>3. QED BY <1>2, <3>1, <4>2
      <3>2. CASE i \in DOMAIN batch[r].labels /\ raws'[i].status = batch[r].labels[i]
        <4>1. Earned(raws[i].mail, batch[r].labels[i], reports', release')
          BY <1>1, <1>4, <3>2 DEF BatchOK
        <4>2. QED BY <1>2, <3>2, <4>1
      <3>3. QED BY <1>2, <3>1, <3>2
    <2>3. QED BY <1>2, <2>1, <2>2 DEF StoreOK
  <1>7. ASSUME NEW q \in Runners, batch'[q] # NoRow PROVE BatchOK(q)'
    <2>1. q # r /\ BatchOK(q) /\ batch'[q] = batch[q]
      BY <1>3, <1>7 DEF RInv
    <2>2. QED BY <1>1, <1>2, <2>1, OtherBatch
  <1>8. RInv'
    BY <1>3, <1>5, <1>6, <1>7 DEF RInv
  <1>9. Single => Current'
    BY <1>3 DEF Single, Current
  <1>10. QED BY <1>8, <1>9

\* A release finds no batch, and what earlier ones justified it justifies.
LEMMA DeployRInv ==
    ASSUME RInv, Deploy
    PROVE  RInv' /\ Current'
  <1>1. /\ UNCHANGED <<address, raws, reports, batch>> /\ release' = release + 1
        /\ release < MaxRelease /\ \A r \in Runners : batch[r] = NoRow
    BY DEF Deploy, store
  <1>2. WorldOK' /\ release \in Nat
    BY <1>1, ReprocessAssumption DEF RInv, WorldOK
  <1>3. \A i \in DOMAIN raws : Earned(raws[i].mail, raws[i].status, reports, release')
    BY <1>1, <1>2, EarnedLater DEF RInv, StoreOK
  <1>4. StoreOK'
    BY <1>1, <1>3 DEF RInv, StoreOK
  <1>5. QED BY <1>1, <1>2, <1>4 DEF RInv, Current

\* Routing touches neither rows nor batches.
LEMMA RoutingRInv ==
    ASSUME RInv, (\E l \in LocalParts : Mint(l) \/ Retire(l) \/ Delete(l)) \/ UNCHANGED vars
    PROVE  RInv' /\ (Current => Current')
  <1>1. UNCHANGED <<release, raws, reports, batch>>
    BY DEF Mint, Retire, Delete, store, vars, world
  <1>2. WorldOK'
    BY DEF RInv, WorldOK, Mint, Retire, Delete, vars, world
  <1>3. StoreOK'
    BY <1>1 DEF RInv, StoreOK
  <1>4. \A r \in Runners : batch'[r] # NoRow => BatchOK(r)'
    BY <1>1, OtherBatch DEF RInv
  <1>5. QED BY <1>1, <1>2, <1>3, <1>4 DEF RInv, Current

\* A domain that is deleted under a replay ends it.
LEMMA VanishRInv ==
    ASSUME RInv, NEW l \in LocalParts, NEW r \in Runners, Vanish(l, r)
    PROVE  RInv' /\ (Current => Current')
  <1>1. /\ address' = [address EXCEPT ![l] = "gone"] /\ batch' = [batch EXCEPT ![r] = NoRow]
        /\ UNCHANGED <<release, raws, reports>>
    BY DEF Vanish, store
  <1>2. DOMAIN batch' = Runners /\ batch'[r] = NoRow
        /\ \A q \in Runners : q # r => batch'[q] = batch[q]
    BY <1>1 DEF RInv
  <1>3. WorldOK'
    BY <1>1 DEF RInv, WorldOK
  <1>4. StoreOK'
    BY <1>1 DEF RInv, StoreOK
  <1>5. ASSUME NEW q \in Runners, batch'[q] # NoRow PROVE BatchOK(q)'
    BY <1>1, <1>2, <1>5, OtherBatch DEF RInv
  <1>6. RInv'
    BY <1>2, <1>3, <1>4, <1>5 DEF RInv
  <1>7. Current => Current'
    BY <1>1, <1>2 DEF Current
  <1>8. QED BY <1>6, <1>7

LEMMA NextRInv ==
    /\ RInv /\ [Next]_vars => RInv'
    /\ Single /\ RInv /\ Current /\ [Next]_vars => Current'
  <1> SUFFICES ASSUME RInv, [Next]_vars PROVE RInv' /\ (Single /\ Current => Current')
    OBVIOUS
  <1>1. ASSUME NEW m \in Mail, Receive(m) \/ Upload(m) PROVE RInv' /\ (Current => Current')
    BY <1>1, ReceiveRInv, UploadRInv
  <1>2. ASSUME NEW r \in Runners, Begin(r) \/ Examine(r) \/ Commit(r) \/ Abort(r)
        PROVE  RInv' /\ (Single /\ Current => Current')
    BY <1>2, BeginRInv, ExamineRInv, CommitRInv, AbortRInv
  <1>3. ASSUME NEW l \in LocalParts, NEW r \in Runners, Vanish(l, r)
        PROVE  RInv' /\ (Current => Current')
    BY <1>3, VanishRInv
  <1>4. QED BY <1>1, <1>2, <1>3, DeployRInv, RoutingRInv DEF Next

-----------------------------------------------------------------------------
(* The theorems.                                                           *)

THEOREM ReprocessInvariant == Spec => []RInv
  <1>1. QED BY InitRInv, NextRInv, PTL DEF Spec

\* No report is held twice, whatever mail, uploads and replays run at once: a
\* replay passes over the keys it finds, and the unique constraint refuses its
\* batch when another transaction has stored one since.
THEOREM ReprocessTypeCorrect == Spec => []TypeOK
  <1>1. RInv => TypeOK
    <2>1. SUFFICES ASSUME RInv PROVE TypeOK
      OBVIOUS
    <2>2. ASSUME NEW r \in Runners, batch[r] # NoRow
          PROVE  /\ batch[r].todo \subseteq DOMAIN raws
                 /\ batch[r].labels \in [DOMAIN batch[r].loaded \ batch[r].todo -> Statuses]
                 /\ batch[r].written \subseteq [key : Keys, mail : Mail]
      BY <2>1, <2>2 DEF RInv, BatchOK, Report
    <2>3. QED BY <2>1, <2>2 DEF RInv, WorldOK, StoreOK, OneEach, Row, Report, TypeOK
  <1>2. QED BY <1>1, ReprocessInvariant, PTL

\* "Every document was one we already hold": all that a release understood of a
\* duplicate is held, and "routed" is said of mail that brought a report under
\* its own name, whether mail handling or one of any number of replays has given
\* the label.
THEOREM LabelsTellTheTruth == Spec => []LabelsAreTrue
  <1>1. RInv => LabelsAreTrue
    BY DEF RInv, StoreOK, Earned, AllHeld, LabelsAreTrue
  <1>2. QED BY <1>1, ReprocessInvariant, PTL

-----------------------------------------------------------------------------
(* A replay is as if it had run at once.                                   *)

\* The keys a batch has written for a message.
Brought(r, i) == {k \in Keys : [key |-> k, mail |-> raws[i].mail] \in batch[r].written}

\* The label that a replay gives to a message of which it has written new.
LabelOf(reading, old, new, routing) ==
    IF reading.refused THEN "failed"
    ELSE IF new # {} THEN routing
    ELSE IF reading.understood THEN "duplicate" ELSE old

\* A batch has the oldest unfinished messages and goes through them in order.
OrderOK(r) ==
    /\ \A i \in DOMAIN batch[r].loaded : \A j \in Unfinished :
          j < i => j \in DOMAIN batch[r].loaded
    /\ \A i \in DOMAIN batch[r].labels : \A j \in batch[r].todo : i < j

\* What a message that it has passed replays is held, or was written for it or
\* for one before it, and its label is right for what was written for it.
PassedOK(r) ==
    /\ \A s \in batch[r].written : \E i \in DOMAIN batch[r].labels : raws[i].mail = s.mail
    /\ \A i \in DOMAIN batch[r].labels :
          /\ Brought(r, i) \subseteq Readings[raws[i].mail].replay
          /\ \A k \in Readings[raws[i].mail].replay :
                \/ k \in KeysOf(reports)
                \/ \E j \in DOMAIN batch[r].labels : j <= i /\ k \in Brought(r, j)
          /\ \E routing \in {"routed", "retired"} :
                batch[r].labels[i] =
                    LabelOf(Readings[raws[i].mail], batch[r].loaded[i], Brought(r, i), routing)

OneRowEach == \A i, j \in DOMAIN raws : raws[i].mail = raws[j].mail => i = j

SInv ==
    /\ RInv /\ Current /\ OneRowEach
    /\ \A r \in Runners : batch[r] # NoRow => OrderOK(r) /\ PassedOK(r)

LEMMA ReadingsType ==
    /\ DOMAIN Readings = Mail
    /\ \A m \in Mail :
          /\ DOMAIN Readings[m] = {"arrival", "replay", "refused", "understood"}
          /\ Readings[m].arrival = KeysRead(Docs[m], Form[m] = "message")
          /\ Readings[m].replay = KeysRead(ReplayDocs(m), Form[m] = "message")
          /\ Readings[m].refused = (Form[m] = "message" /\ OfKind(Docs[m], "broken") # {})
          /\ Readings[m].understood =
                (OfKind(ReplayDocs(m), "unknown") # 1 .. Len(ReplayDocs(m)))
          /\ Readings[m] \in Ledger!Reading
  <1>1. ASSUME NEW m \in Mail
        PROVE  /\ KeysRead(Docs[m], Form[m] = "message") \in SUBSET Keys
               /\ KeysRead(ReplayDocs(m), Form[m] = "message") \in SUBSET Keys
    BY DocType, ReplayDocsType, KeysReadType
  <1>2. QED BY <1>1 DEF Readings, Ledger!Reading

LEMMA ReadingsAre == Readings \in [Mail -> Ledger!Reading]
  <1>1. Readings = [m \in Mail |-> Readings[m]]
    BY DEF Readings
  <1>2. QED BY <1>1, ReadingsType

LEMMA ReadingsWillBe == (Readings \in [Mail -> Ledger!Reading])'
  <1>1. QED BY ReadingsAre, PTL

\* A release reads what it reads.
LEMMA ReadingsStay == release' = release => Readings' = Readings
  BY DEF Readings, KeysRead, OfKind, Kind, ReplayDocs

LEMMA LabelIs ==
    ASSUME NEW m \in Mail, NEW row, row.mail = m, NEW new, NEW routing
    PROVE  Ledger!ReplayLabel(row, new, routing) = LabelOf(Readings[m], row.status, new, routing)
  <1>1. Readings[m].refused \in BOOLEAN
    BY ReadingsType
  <1>2. QED BY <1>1 DEF Ledger!ReplayLabel, LabelOf

\* The label of reprocess, in the same terms.
LEMMA LabelFits ==
    ASSUME NEW m \in Mail, NEW old, NEW new
    PROVE  \E routing \in {"routed", "retired"} :
               Label(m, old, new) = LabelOf(Readings[m], old, new, routing)
  <1>1. PICK routing \in {"routed", "retired"} :
            routing = IF Recipient(m) = "active" THEN "routed" ELSE "retired"
    OBVIOUS
  <1>2. Readings[m].refused = (Form[m] = "message" /\ OfKind(ReplayDocs(m), "broken") # {})
    BY ReadingsType, ReplayDocsType
  <1>3. Readings[m].understood = (OfKind(ReplayDocs(m), "unknown") # 1 .. Len(ReplayDocs(m)))
    BY ReadingsType
  <1>4. Label(m, old, new) = LabelOf(Readings[m], old, new, routing)
    BY <1>1, <1>2, <1>3 DEF Label, LabelOf
  <1>5. QED BY <1>4

\* A batch that is not touched while mail and uploads are filed stays in order.
LEMMA FiledBeside ==
    ASSUME RInv, OneRowEach, NEW m \in Mail, Receive(m) \/ Upload(m)
    PROVE  /\ UNCHANGED <<release, batch>> /\ OneRowEach'
           /\ DOMAIN raws \subseteq DOMAIN raws' /\ reports \subseteq reports'
           /\ \A i \in DOMAIN raws : raws'[i] = raws[i]
           /\ \A i \in DOMAIN raws : \A j \in DOMAIN raws' : j < i => j \in DOMAIN raws
  <1>1. PICK status \in Statuses : Fresh(m) /\ \E keys : Insert(m, status, keys)
    BY FilingEarned DEF Receive, Upload, Statuses
  <1> DEFINE row == [mail |-> m, status |-> status]
  <1>2. /\ raws' = Append(raws, row) /\ row \in Row /\ UNCHANGED <<release, batch>>
        /\ reports \subseteq reports' /\ row.mail = m
    BY <1>1 DEF Insert, world, Row
  <1> HIDE DEF row
  <1>3. /\ DOMAIN raws = 1 .. Len(raws) /\ Len(raws) \in Nat
        /\ DOMAIN raws' = 1 .. Len(raws) + 1
        /\ raws'[Len(raws) + 1] = row /\ \A i \in 1 .. Len(raws) : raws'[i] = raws[i]
    <2>1. raws \in Seq(Row) /\ DOMAIN raws = 1 .. Len(raws) /\ Len(raws) \in Nat
      BY RowAt DEF RInv, StoreOK
    <2>2. raws' \in Seq(Row) /\ Len(raws') = Len(raws) + 1
          /\ raws'[Len(raws) + 1] = row /\ \A i \in 1 .. Len(raws) : raws'[i] = raws[i]
      BY <1>2, <2>1, AppendProperties
    <2>3. QED BY <2>1, <2>2, LenProperties
  <1>4. OneRowEach'
    <2>1. SUFFICES ASSUME NEW i \in DOMAIN raws', NEW j \in DOMAIN raws', raws'[i].mail = raws'[j].mail
                   PROVE  i = j
      BY DEF OneRowEach
    <2>2. \A h \in 1 .. Len(raws) : raws[h].mail # m
      BY <1>1, <1>3 DEF Fresh
    <2>3. CASE i \in 1 .. Len(raws) /\ j \in 1 .. Len(raws)
      BY <1>3, <2>1, <2>3 DEF OneRowEach
    <2>4. CASE ~(i \in 1 .. Len(raws) /\ j \in 1 .. Len(raws))
      BY <1>2, <1>3, <2>1, <2>2, <2>4
    <2>5. QED BY <2>3, <2>4
  <1>5. QED BY <1>2, <1>3, <1>4

LEMMA SerialBeside ==
    ASSUME RInv, NEW r \in Runners, batch[r] # NoRow, OrderOK(r), PassedOK(r),
           UNCHANGED <<release, batch>>,
           DOMAIN raws \subseteq DOMAIN raws', reports \subseteq reports',
           \A i \in DOMAIN raws : raws'[i] = raws[i],
           \A i \in DOMAIN raws : \A j \in DOMAIN raws' : j < i => j \in DOMAIN raws
    PROVE  OrderOK(r)' /\ PassedOK(r)'
  <1>1. DOMAIN batch[r].loaded \subseteq DOMAIN raws /\ DOMAIN batch[r].labels \subseteq DOMAIN raws
    <2>1. BatchOK(r)
      BY DEF RInv
    <2>2. DOMAIN batch[r].labels = DOMAIN batch[r].loaded \ batch[r].todo
      BY <2>1 DEF BatchOK
    <2>3. QED BY <2>1, <2>2 DEF BatchOK
  <1>2. Readings' = Readings
    BY ReadingsStay
  <1>3. \A i \in DOMAIN raws : Brought(r, i)' = Brought(r, i)
    BY DEF Brought
  <1>4. OrderOK(r)'
    BY <1>1 DEF OrderOK, Unfinished
  <1>5. \A t \in batch'[r].written : \E i \in DOMAIN batch'[r].labels : raws'[i].mail = t.mail
    BY <1>1 DEF PassedOK
  <1>6. ASSUME NEW i \in DOMAIN batch'[r].labels
        PROVE  /\ Brought(r, i)' \subseteq Readings'[raws'[i].mail].replay
               /\ \A k \in Readings'[raws'[i].mail].replay :
                     \/ k \in KeysOf(reports')
                     \/ \E j \in DOMAIN batch'[r].labels : j <= i /\ k \in Brought(r, j)'
               /\ \E routing \in {"routed", "retired"} :
                     batch'[r].labels[i] =
                         LabelOf(Readings'[raws'[i].mail], batch'[r].loaded[i], Brought(r, i)', routing)
    <2>1. i \in DOMAIN batch[r].labels /\ raws'[i] = raws[i] /\ Brought(r, i)' = Brought(r, i)
      BY <1>1, <1>3, <1>6
    <2>2. Brought(r, i) \subseteq Readings[raws[i].mail].replay
      BY <2>1 DEF PassedOK
    <2>3. ASSUME NEW k \in Readings[raws[i].mail].replay
          PROVE  k \in KeysOf(reports') \/ \E j \in DOMAIN batch'[r].labels : j <= i /\ k \in Brought(r, j)'
      <3>1. k \in KeysOf(reports) \/ \E j \in DOMAIN batch[r].labels : j <= i /\ k \in Brought(r, j)
        BY <2>1, <2>3 DEF PassedOK
      <3>2. KeysOf(reports) \subseteq KeysOf(reports')
        BY DEF KeysOf
      <3>3. QED BY <1>1, <1>3, <3>1, <3>2
    <2>4. PICK routing \in {"routed", "retired"} : batch[r].labels[i] =
                         LabelOf(Readings[raws[i].mail], batch[r].loaded[i], Brought(r, i), routing)
      BY <2>1 DEF PassedOK
    <2>5. batch'[r].labels[i] =
              LabelOf(Readings'[raws'[i].mail], batch'[r].loaded[i], Brought(r, i)', routing)
      BY <1>2, <2>1, <2>4
    <2>6. QED BY <1>2, <2>1, <2>2, <2>3, <2>5
  <1>7. PassedOK(r)'
    BY <1>5, <1>6 DEF PassedOK
  <1>8. QED BY <1>4, <1>7

\* A batch is the oldest unfinished messages, whatever the limit.
LEMMA SelectedOldest ==
    ASSUME RInv, NEW i \in Selected, NEW j \in Unfinished, j < i
    PROVE  j \in Selected
  <1> DEFINE low == {h \in Unfinished : h < j}
             high == {h \in Unfinished : h < i}
  <1>1. Unfinished \subseteq 1 .. Len(raws) /\ Len(raws) \in Nat
    BY RowAt DEF RInv, Unfinished
  <1>2. IsFiniteSet(high)
    <2>1. IsFiniteSet(1 .. Len(raws))
      BY <1>1, FS_Interval
    <2>2. high \in SUBSET (1 .. Len(raws))
      BY <1>1
    <2>3. QED BY <2>1, <2>2, FS_Subset
  <1>3. low \in SUBSET high
    <2>1. i \in Nat /\ j \in Nat /\ Unfinished \subseteq Nat
      BY <1>1 DEF Selected
    <2>2. \A h \in Unfinished : h < j => h < i
      BY <2>1
    <2>3. QED BY <2>2
  <1>4. Cardinality(low) <= Cardinality(high) /\ Cardinality(low) \in Nat /\ Cardinality(high) \in Nat
    BY <1>2, <1>3, FS_Subset, FS_CardinalityType
  <1>5. Cardinality(high) < Limit /\ Limit \in Nat
    BY ReprocessAssumption DEF Selected
  <1> HIDE DEF low, high
  <1>6. Cardinality(low) < Limit
    BY <1>4, <1>5
  <1>7. QED BY <1>6 DEF Selected, low

LEMMA BeginSerial ==
    ASSUME RInv, NEW r \in Runners, Begin(r)
    PROVE  OrderOK(r)' /\ PassedOK(r)'
  <1>1. /\ UNCHANGED raws /\ DOMAIN batch = Runners
        /\ batch' = [batch EXCEPT ![r] =
             [todo |-> Selected, loaded |-> [i \in Selected |-> raws[i].status],
              labels |-> [i \in {} |-> ""], written |-> {}]]
    BY DEF RInv, Begin, store
  <1>2. /\ batch'[r].todo = Selected /\ DOMAIN batch'[r].loaded = Selected
        /\ DOMAIN batch'[r].labels = {} /\ batch'[r].written = {}
    BY <1>1
  <1>3. Unfinished' = Unfinished
    BY <1>1 DEF Unfinished
  <1>4. OrderOK(r)'
    BY <1>2, <1>3, SelectedOldest DEF OrderOK
  <1>5. PassedOK(r)'
    BY <1>2 DEF PassedOK
  <1>6. QED BY <1>4, <1>5

\* What an examination does to its batch.
LEMMA ExamineEffect ==
    ASSUME RInv, NEW r \in Runners, Examine(r)
    PROVE  \E i \in batch[r].todo, m \in Mail, new \in SUBSET Keys :
             /\ batch[r] # NoRow /\ UNCHANGED <<release, raws, reports>>
             /\ i = NextId(r) /\ \A j \in batch[r].todo : i <= j
             /\ i \in DOMAIN raws /\ i \in DOMAIN batch[r].loaded /\ i \notin DOMAIN batch[r].labels
             /\ raws[i].mail = m
             /\ new = Readings[m].replay \ (KeysOf(reports) \cup KeysOf(batch[r].written))
             /\ batch'[r].todo = batch[r].todo \ {i}
             /\ batch'[r].loaded = batch[r].loaded
             /\ DOMAIN batch'[r].labels = DOMAIN batch[r].labels \cup {i}
             /\ \A j \in DOMAIN batch[r].labels : batch'[r].labels[j] = batch[r].labels[j]
             /\ batch'[r].labels[i] = Label(m, batch[r].loaded[i], new)
             /\ batch'[r].written = batch[r].written \cup {[key |-> k, mail |-> m] : k \in new}
  <1>1. PICK i, m, new :
            /\ i = NextId(r) /\ m = raws[i].mail
            /\ new = KeysRead(ReplayDocs(m), Form[m] = "message") \ HeldFor(r)
    OBVIOUS
  <1>2. batch[r] # NoRow /\ batch[r].todo # {} /\ UNCHANGED <<release, raws, reports>>
    BY DEF Examine, world, store
  <1>3. BatchOK(r) /\ DOMAIN batch = Runners
    BY <1>2 DEF RInv
  <1>4. i \in batch[r].todo /\ \A j \in batch[r].todo : i <= j
    BY <1>1, <1>2, NextIdType
  <1>5. i \in DOMAIN batch[r].loaded /\ i \in DOMAIN raws /\ i \notin DOMAIN batch[r].labels
    <2>1. DOMAIN batch[r].labels = DOMAIN batch[r].loaded \ batch[r].todo
      BY <1>3 DEF BatchOK
    <2>2. QED BY <1>3, <1>4, <2>1 DEF BatchOK
  <1>6. m \in Mail
    BY <1>1, <1>5, RowAt DEF RInv, Row
  <1>7. new = Readings[m].replay \ (KeysOf(reports) \cup KeysOf(batch[r].written))
    BY <1>1, <1>6, ReadingsType DEF HeldFor
  <1>8. new \in SUBSET Keys
    <2>1. KeysRead(ReplayDocs(m), Form[m] = "message") \subseteq Keys
      BY <1>6, ReplayDocsType, KeysReadType
    <2>2. QED BY <1>1, <2>1
  <1>9. batch' = [batch EXCEPT
         ![r].todo = @ \ {i},
         ![r].labels = [j \in DOMAIN @ \cup {i} |->
              IF j = i THEN Label(m, batch[r].loaded[i], new) ELSE @[j]],
         ![r].written = @ \cup {[key |-> k, mail |-> m] : k \in new}]
    <2> DEFINE h == NextId(r)
               n == raws[h].mail
               keys == KeysRead(ReplayDocs(n), Form[n] = "message") \ HeldFor(r)
    <2>1. batch' = [batch EXCEPT
             ![r].todo = @ \ {h},
             ![r].labels = [j \in DOMAIN @ \cup {h} |->
                  IF j = h THEN Label(n, batch[r].loaded[h], keys) ELSE @[j]],
             ![r].written = @ \cup {[key |-> k, mail |-> n] : k \in keys}]
      BY DEF Examine
    <2>2. h = i /\ n = m /\ keys = new
      BY <1>1
    <2> HIDE DEF h, n, keys
    <2>3. QED BY <2>1, <2>2
  <1>10. PICK label, mine : /\ label = Label(m, batch[r].loaded[i], new)
                            /\ mine = {[key |-> k, mail |-> m] : k \in new}
    OBVIOUS
  <1>11. batch' = [batch EXCEPT
         ![r].todo = @ \ {i},
         ![r].labels = [j \in DOMAIN @ \cup {i} |-> IF j = i THEN label ELSE @[j]],
         ![r].written = @ \cup mine]
    BY <1>9, <1>10
  <1>12. /\ batch'[r].todo = batch[r].todo \ {i}
         /\ batch'[r].loaded = batch[r].loaded
         /\ batch'[r].labels = [j \in DOMAIN batch[r].labels \cup {i} |->
                                  IF j = i THEN label ELSE batch[r].labels[j]]
         /\ batch'[r].written = batch[r].written \cup mine
    BY <1>3, <1>11 DEF BatchOK
  <1>13. /\ DOMAIN batch'[r].labels = DOMAIN batch[r].labels \cup {i}
         /\ batch'[r].labels[i] = label
         /\ \A j \in DOMAIN batch[r].labels : batch'[r].labels[j] = batch[r].labels[j]
    BY <1>5, <1>12
  <1>14. /\ batch'[r].labels[i] = Label(m, batch[r].loaded[i], new)
         /\ batch'[r].written = batch[r].written \cup {[key |-> k, mail |-> m] : k \in new}
    BY <1>10, <1>12, <1>13
  <1>15. i = NextId(r) /\ raws[i].mail = m
    BY <1>1
  <1>16. QED BY <1>2, <1>4, <1>5, <1>6, <1>7, <1>8, <1>12, <1>13, <1>14, <1>15

LEMMA ExamineSerial ==
    ASSUME RInv, OneRowEach, NEW r \in Runners, Examine(r), OrderOK(r), PassedOK(r)
    PROVE  OrderOK(r)' /\ PassedOK(r)'
  <1>1. PICK i \in batch[r].todo, m \in Mail, new \in SUBSET Keys :
             /\ batch[r] # NoRow /\ UNCHANGED <<release, raws, reports>>
             /\ i = NextId(r) /\ \A j \in batch[r].todo : i <= j
             /\ i \in DOMAIN raws /\ i \in DOMAIN batch[r].loaded /\ i \notin DOMAIN batch[r].labels
             /\ raws[i].mail = m
             /\ new = Readings[m].replay \ (KeysOf(reports) \cup KeysOf(batch[r].written))
             /\ batch'[r].todo = batch[r].todo \ {i}
             /\ batch'[r].loaded = batch[r].loaded
             /\ DOMAIN batch'[r].labels = DOMAIN batch[r].labels \cup {i}
             /\ \A j \in DOMAIN batch[r].labels : batch'[r].labels[j] = batch[r].labels[j]
             /\ batch'[r].labels[i] = Label(m, batch[r].loaded[i], new)
             /\ batch'[r].written = batch[r].written \cup {[key |-> k, mail |-> m] : k \in new}
    BY ExamineEffect
  <1>2. /\ BatchOK(r) /\ DOMAIN batch[r].loaded \subseteq DOMAIN raws
        /\ DOMAIN batch[r].labels \subseteq DOMAIN raws /\ DOMAIN raws \subseteq Nat
        /\ batch[r].written \subseteq Report /\ batch[r].todo \subseteq DOMAIN raws
    <2>1. BatchOK(r)
      BY <1>1 DEF RInv
    <2>2. DOMAIN batch[r].labels = DOMAIN batch[r].loaded \ batch[r].todo
      BY <2>1 DEF BatchOK
    <2>3. DOMAIN raws \subseteq Nat
      BY RowAt DEF RInv
    <2>4. QED BY <2>1, <2>2, <2>3 DEF BatchOK
  <1>3. Readings' = Readings
    BY <1>1, ReadingsStay
  <1>4. ASSUME NEW j \in DOMAIN batch[r].labels PROVE raws[j].mail # m
    BY <1>1, <1>2, <1>4 DEF OneRowEach
  <1>5. \A t \in batch[r].written : t.mail # m
    BY <1>4 DEF PassedOK
  <1>6. Brought(r, i)' = new
    <2>1. \A k \in Keys : [key |-> k, mail |-> m] \notin batch[r].written
      BY <1>5
    <2>2. \A k \in Keys : [key |-> k, mail |-> m] \in batch'[r].written <=> k \in new
      <3>1. batch'[r].written = batch[r].written \cup {[key |-> k, mail |-> m] : k \in new}
        BY <1>1
      <3>2. \A k, h : [key |-> k, mail |-> m] = [key |-> h, mail |-> m] => k = h
        OBVIOUS
      <3>3. QED BY <2>1, <3>1, <3>2
    <2>3. Brought(r, i)' = {k \in Keys : [key |-> k, mail |-> m] \in batch'[r].written}
      BY <1>1 DEF Brought
    <2>4. QED BY <1>1, <2>2, <2>3
  <1>7. ASSUME NEW j \in DOMAIN batch[r].labels PROVE Brought(r, j)' = Brought(r, j)
    <2>1. raws[j].mail # m /\ raws'[j] = raws[j]
      BY <1>1, <1>4
    <2>2. \A k \in Keys : [key |-> k, mail |-> raws[j].mail] \in batch'[r].written
                          <=> [key |-> k, mail |-> raws[j].mail] \in batch[r].written
      BY <1>1, <2>1
    <2>3. QED BY <2>1, <2>2 DEF Brought
  <1>8. OrderOK(r)'
    <2>1. Unfinished' = Unfinished
      BY <1>1 DEF Unfinished
    <2>2. ASSUME NEW h \in DOMAIN batch'[r].labels, NEW j \in batch'[r].todo PROVE h < j
      <3>1. j \in batch[r].todo /\ j # i /\ i <= j /\ i \in Nat /\ j \in Nat
        BY <1>1, <1>2, <2>2
      <3>2. CASE h = i
        BY <3>1, <3>2
      <3>3. CASE h \in DOMAIN batch[r].labels
        BY <3>1, <3>3 DEF OrderOK
      <3>4. QED BY <1>1, <2>2, <3>2, <3>3
    <2>3. QED BY <1>1, <2>1, <2>2 DEF OrderOK
  <1>9. ASSUME NEW t \in batch'[r].written
        PROVE  \E j \in DOMAIN batch'[r].labels : raws'[j].mail = t.mail
    <2>1. CASE t \in batch[r].written
      BY <1>1, <2>1 DEF PassedOK
    <2>2. CASE t \in {[key |-> k, mail |-> m] : k \in new}
      BY <1>1, <2>2
    <2>3. QED BY <1>1, <1>9, <2>1, <2>2
  <1>10. ASSUME NEW j \in DOMAIN batch'[r].labels
         PROVE  /\ Brought(r, j)' \subseteq Readings'[raws'[j].mail].replay
                /\ \A k \in Readings'[raws'[j].mail].replay :
                      \/ k \in KeysOf(reports')
                      \/ \E h \in DOMAIN batch'[r].labels : h <= j /\ k \in Brought(r, h)'
                /\ \E routing \in {"routed", "retired"} :
                      batch'[r].labels[j] =
                        LabelOf(Readings'[raws'[j].mail], batch'[r].loaded[j], Brought(r, j)', routing)
    <2>1. CASE j \in DOMAIN batch[r].labels
      <3>1. /\ Brought(r, j) \subseteq Readings[raws[j].mail].replay
            /\ \A k \in Readings[raws[j].mail].replay :
                  \/ k \in KeysOf(reports)
                  \/ \E h \in DOMAIN batch[r].labels : h <= j /\ k \in Brought(r, h)
            /\ \E routing \in {"routed", "retired"} :
                  batch[r].labels[j] =
                    LabelOf(Readings[raws[j].mail], batch[r].loaded[j], Brought(r, j), routing)
        BY <2>1 DEF PassedOK
      <3>2. Brought(r, j)' = Brought(r, j) /\ raws' = raws /\ reports' = reports
        BY <1>1, <1>7, <2>1
      <3>3. \A k \in Readings[raws[j].mail].replay :
               \/ k \in KeysOf(reports')
               \/ \E h \in DOMAIN batch'[r].labels : h <= j /\ k \in Brought(r, h)'
        BY <1>1, <1>7, <3>1, <3>2
      <3>4. batch'[r].labels[j] = batch[r].labels[j] /\ batch'[r].loaded[j] = batch[r].loaded[j]
        BY <1>1, <2>1
      <3>5. QED BY <1>3, <3>1, <3>2, <3>3, <3>4
    <2>2. CASE j = i
      <3>1. raws'[j].mail = m /\ Brought(r, j)' = new /\ new \subseteq Readings[m].replay
        BY <1>1, <1>6, <2>2
      <3>2. ASSUME NEW k \in Readings[m].replay
            PROVE  k \in KeysOf(reports') \/ \E h \in DOMAIN batch'[r].labels : h <= j /\ k \in Brought(r, h)'
        <4>1. CASE k \in new
          <5>1. i <= j /\ i \in DOMAIN batch'[r].labels
            BY <1>1, <1>2, <2>2
          <5>2. QED BY <1>6, <4>1, <5>1
        <4>2. CASE k \in KeysOf(reports)
          BY <1>1, <4>2
        <4>3. CASE k \in KeysOf(batch[r].written)
          <5>1. PICK t \in batch[r].written : t.key = k
            BY <4>3 DEF KeysOf
          <5>2. PICK h \in DOMAIN batch[r].labels : raws[h].mail = t.mail
            BY <5>1 DEF PassedOK
          <5>3. t = [key |-> k, mail |-> raws[h].mail] /\ k \in Keys
            BY <1>2, <5>1, <5>2 DEF Report
          <5>4. k \in Brought(r, h)
            BY <5>1, <5>3 DEF Brought
          <5>5. h < i /\ h \in Nat /\ i \in Nat
            BY <1>1, <1>2, <5>2 DEF OrderOK
          <5>6. h <= j /\ h \in DOMAIN batch'[r].labels
            BY <1>1, <2>2, <5>2, <5>5
          <5>7. QED BY <1>7, <5>4, <5>6
        <4>4. QED BY <1>1, <3>2, <4>1, <4>2, <4>3
      <3>3. \E routing \in {"routed", "retired"} :
                Label(m, batch[r].loaded[i], new) =
                    LabelOf(Readings[m], batch[r].loaded[i], new, routing)
        BY LabelFits
      <3>4. batch'[r].labels[j] = Label(m, batch[r].loaded[i], new) /\ batch'[r].loaded[j] = batch[r].loaded[i]
        BY <1>1, <2>2
      <3>5. QED BY <1>3, <3>1, <3>2, <3>3, <3>4
    <2>3. QED BY <1>1, <1>10, <2>1, <2>2
  <1>11. PassedOK(r)'
    BY <1>9, <1>10 DEF PassedOK
  <1>12. QED BY <1>8, <1>11

LEMMA InitSInv == Init => SInv
  <1> SUFFICES ASSUME Init PROVE SInv
    OBVIOUS
  <1>1. DOMAIN raws = {} /\ \A r \in Runners : batch[r] = NoRow
    BY DEF Init
  <1>2. QED BY <1>1, InitRInv DEF SInv, OneRowEach

LEMMA NextSInv ==
    ASSUME Single, SInv, [Next]_vars
    PROVE  SInv'
  <1>1. RInv' /\ Current'
    BY NextRInv DEF SInv
  <1>2. ASSUME OneRowEach', NEW r \in Runners, batch'[r] # NoRow => OrderOK(r)' /\ PassedOK(r)'
        PROVE  SInv'
    <2>1. \A q \in Runners : batch'[q] # NoRow => OrderOK(q)' /\ PassedOK(q)'
      BY <1>2 DEF Single
    <2>2. QED BY <1>1, <1>2, <2>1 DEF SInv
  <1>3. ASSUME NEW m \in Mail, Receive(m) \/ Upload(m) PROVE SInv'
    <2>1. /\ UNCHANGED <<release, batch>> /\ OneRowEach'
          /\ DOMAIN raws \subseteq DOMAIN raws' /\ reports \subseteq reports'
          /\ \A i \in DOMAIN raws : raws'[i] = raws[i]
          /\ \A i \in DOMAIN raws : \A j \in DOMAIN raws' : j < i => j \in DOMAIN raws
      BY <1>3, FiledBeside DEF SInv
    <2>2. \A r \in Runners : batch'[r] # NoRow => OrderOK(r)' /\ PassedOK(r)'
      BY <2>1, SerialBeside DEF SInv
    <2>3. QED BY <1>1, <2>1, <2>2 DEF SInv
  <1>4. ASSUME NEW r \in Runners, Begin(r) PROVE SInv'
    <2>1. OneRowEach'
      BY <1>4 DEF SInv, Begin, store, OneRowEach
    <2>2. QED BY <1>2, <1>4, <2>1, BeginSerial DEF SInv
  <1>5. ASSUME NEW r \in Runners, Examine(r) PROVE SInv'
    <2>1. OneRowEach' /\ batch[r] # NoRow
      BY <1>5 DEF SInv, Examine, store, OneRowEach
    <2>2. QED BY <1>2, <1>5, <2>1, ExamineSerial DEF SInv
  <1>6. ASSUME NEW r \in Runners, Commit(r) PROVE SInv'
    <2>1. batch[r] # NoRow /\ raws' = Relabelled(r) /\ batch'[r] = NoRow
      BY <1>6 DEF SInv, RInv, Commit, Done
    <2>2. DOMAIN raws' = DOMAIN raws /\ \A i \in DOMAIN raws : raws'[i].mail = raws[i].mail
      BY <2>1, RelabelledRows DEF SInv
    <2>3. OneRowEach'
      BY <2>2 DEF SInv, OneRowEach
    <2>4. QED BY <1>2, <2>1, <2>3
  <1>7. ASSUME NEW r \in Runners, Abort(r) PROVE SInv'
    <2>1. batch'[r] = NoRow /\ OneRowEach'
      BY <1>7 DEF SInv, RInv, Abort, store, OneRowEach
    <2>2. QED BY <1>2, <2>1
  <1>8. ASSUME Deploy PROVE SInv'
    <2>1. (\A r \in Runners : batch'[r] = NoRow) /\ OneRowEach'
      BY <1>8 DEF SInv, Deploy, store, OneRowEach
    <2>2. QED BY <1>1, <2>1 DEF SInv
  <1>9. ASSUME (\E l \in LocalParts : Mint(l) \/ Retire(l) \/ Delete(l)) \/ UNCHANGED vars PROVE SInv'
    <2>1. UNCHANGED <<release, raws, reports, batch>>
      BY <1>9 DEF Mint, Retire, Delete, store, vars, world
    <2>2. \A r \in Runners : batch'[r] # NoRow => OrderOK(r)' /\ PassedOK(r)'
      BY <2>1, SerialBeside DEF SInv
    <2>3. OneRowEach'
      BY <2>1 DEF SInv, OneRowEach
    <2>4. QED BY <1>1, <2>2, <2>3 DEF SInv
  <1>10. ASSUME NEW l \in LocalParts, NEW r \in Runners, Vanish(l, r) PROVE SInv'
    <2>1. batch'[r] = NoRow /\ OneRowEach'
      BY <1>10 DEF SInv, RInv, Vanish, store, OneRowEach
    <2>2. QED BY <1>2, <2>1
  <1>11. QED BY <1>3, <1>4, <1>5, <1>6, <1>7, <1>8, <1>9, <1>10 DEF Next

\* Whether mail came meanwhile or not, what a batch has written for a message is
\* what it brings when the whole batch is replayed at the commit.
LEMMA WrittenIsBrought ==
    ASSUME SInv, NEW r \in Runners, Done(r), ~Conflict(r), NEW i \in DOMAIN batch[r].loaded
    PROVE  Brought(r, i) = Ledger!Brings(i, DOMAIN batch[r].loaded)
  <1>1. PICK S : S = DOMAIN batch[r].loaded
    OBVIOUS
  <1>2. batch[r] # NoRow /\ BatchOK(r) /\ PassedOK(r)
    BY DEF SInv, RInv, Done
  <1>3. /\ DOMAIN batch[r].labels = S /\ S \subseteq DOMAIN raws /\ S \subseteq Nat
        /\ OneEach(batch[r].written)
    <2>1. DOMAIN batch[r].labels = S
      BY <1>1, <1>2 DEF Done, BatchOK
    <2>2. DOMAIN raws \subseteq Nat
      BY RowAt DEF SInv, RInv
    <2>3. QED BY <1>1, <1>2, <2>1, <2>2 DEF BatchOK
  <1>4. \A j \in S : Ledger!Replayed(j) = Readings[raws[j].mail].replay
    BY DEF Ledger!Replayed
  <1>5. Ledger!Held = KeysOf(reports)
    BY DEF Ledger!Held, KeysOf
  <1>6. ASSUME NEW k \in Brought(r, i), NEW j \in S, j < i PROVE k \notin Ledger!Replayed(j)
    <2>1. SUFFICES ASSUME k \in Ledger!Replayed(j) PROVE FALSE
      OBVIOUS
    <2>2. [key |-> k, mail |-> raws[i].mail] \in batch[r].written
      BY <1>6 DEF Brought
    <2>3. k \notin KeysOf(reports)
      BY <2>2 DEF Conflict, KeysOf
    <2>4. PICK h \in S : h <= j /\ k \in Brought(r, h)
      BY <1>2, <1>3, <1>4, <2>1, <2>3 DEF PassedOK
    <2>5. [key |-> k, mail |-> raws[h].mail] \in batch[r].written
      BY <2>4 DEF Brought
    <2>6. raws[h].mail = raws[i].mail
      BY <1>3, <2>2, <2>5 DEF OneEach
    <2>7. h = i
      BY <1>1, <1>3, <2>6 DEF SInv, OneRowEach
    <2>8. QED BY <1>1, <1>3, <1>6, <2>4, <2>7
  <1>7. ASSUME NEW k \in Brought(r, i) PROVE k \in Ledger!Brings(i, S)
    <2>1. k \in Ledger!Replayed(i)
      BY <1>1, <1>2, <1>3, <1>4, <1>7 DEF PassedOK
    <2>2. k \notin KeysOf(reports)
      <3>1. [key |-> k, mail |-> raws[i].mail] \in batch[r].written
        BY <1>7 DEF Brought
      <3>2. QED BY <3>1 DEF Conflict, KeysOf
    <2>3. \A j \in {h \in S : h < i} : k \notin Ledger!Replayed(j)
      BY <1>6, <1>7
    <2>4. QED BY <1>5, <2>1, <2>2, <2>3 DEF Ledger!Brings
  <1>8. ASSUME NEW k \in Ledger!Brings(i, S) PROVE k \in Brought(r, i)
    <2>1. /\ k \in Ledger!Replayed(i) /\ k \notin KeysOf(reports)
          /\ \A j \in {h \in S : h < i} : k \notin Ledger!Replayed(j)
      BY <1>5, <1>8 DEF Ledger!Brings
    <2>2. PICK h \in S : h <= i /\ k \in Brought(r, h)
      BY <1>1, <1>2, <1>3, <1>4, <2>1 DEF PassedOK
    <2>3. k \in Ledger!Replayed(h)
      BY <1>2, <1>3, <1>4, <2>2 DEF PassedOK
    <2>4. ~(h < i)
      BY <2>1, <2>3
    <2>5. h = i
      BY <1>1, <1>3, <2>2, <2>4
    <2>6. QED BY <2>2, <2>5
  <1>9. QED BY <1>1, <1>7, <1>8

LEMMA CommitReplays ==
    ASSUME SInv, NEW r \in Runners, Commit(r)
    PROVE  Ledger!Next
  <1>1. PICK S : S = DOMAIN batch[r].loaded
    OBVIOUS
  <1>2. /\ Done(r) /\ ~Conflict(r) /\ batch[r] # NoRow /\ raws' = Relabelled(r)
        /\ reports' = reports \cup batch[r].written /\ release' = release
    BY DEF Commit, Done, world
  <1>3. /\ BatchOK(r) /\ OrderOK(r) /\ PassedOK(r)
        /\ DOMAIN batch[r].labels = S /\ S \subseteq DOMAIN raws
        /\ \A i \in DOMAIN raws : raws[i] \in Row
    <2>1. BatchOK(r) /\ OrderOK(r) /\ PassedOK(r)
      BY <1>2 DEF SInv, RInv
    <2>2. DOMAIN batch[r].labels = S /\ S \subseteq DOMAIN raws
      BY <1>1, <1>2, <2>1 DEF Done, BatchOK
    <2>3. QED BY <2>1, <2>2, RowAt DEF SInv, RInv
  <1>4. \A i \in S : /\ raws[i].status = batch[r].loaded[i]
                     /\ raws[i].status \in {"failed", "unrouted", "duplicate"}
    BY <1>1, <1>2, <1>3 DEF SInv, Current, BatchOK
  <1>5. S \in Ledger!Batches
    <2>1. S \subseteq Unfinished /\ \A i \in S : \A j \in Unfinished : j < i => j \in S
      BY <1>1, <1>3, <1>4 DEF Unfinished, OrderOK
    <2>2. QED BY <2>1 DEF Ledger!Batches, Ledger!Unfinished, Unfinished
  <1>6. \A i \in S : Brought(r, i) = Ledger!Brings(i, S)
    BY <1>1, <1>2, WrittenIsBrought
  <1> DEFINE right(i, x) == batch[r].labels[i] = Ledger!ReplayLabel(raws[i], Ledger!Brings(i, S), x)
  <1>7. \A i \in S : \E x \in {"routed", "retired"} : right(i, x)
    <2>1. SUFFICES ASSUME NEW i \in S PROVE \E x \in {"routed", "retired"} : right(i, x)
      OBVIOUS
    <2>2. PICK x \in {"routed", "retired"} : batch[r].labels[i] =
              LabelOf(Readings[raws[i].mail], batch[r].loaded[i], Brought(r, i), x)
      BY <1>3 DEF PassedOK
    <2>3. raws[i].mail \in Mail
      BY <1>3 DEF Row
    <2>4. right(i, x)
      BY <1>4, <1>6, <2>2, <2>3, LabelIs
    <2>5. QED BY <2>4
  <1>8. PICK routing \in [S -> {"routed", "retired"}] : \A i \in S : right(i, routing[i])
    <2>1. PICK f : f = [i \in S |-> CHOOSE x \in {"routed", "retired"} : right(i, x)]
      OBVIOUS
    <2> HIDE DEF right
    <2>2. f \in [S -> {"routed", "retired"}] /\ \A i \in S : right(i, f[i])
      BY <1>7, <2>1
    <2>3. QED BY <2>2
  <1>9. raws' = [i \in DOMAIN raws |->
              IF i \in S
              THEN [raws[i] EXCEPT !.status =
                       Ledger!ReplayLabel(raws[i], Ledger!Brings(i, S), routing[i])]
              ELSE raws[i]]
    <2> DEFINE now(i) == IF i \in DOMAIN batch[r].labels /\ batch[r].labels[i] # batch[r].loaded[i]
                         THEN [raws[i] EXCEPT !.status = batch[r].labels[i]]
                         ELSE raws[i]
               due(i) == IF i \in S
                         THEN [raws[i] EXCEPT !.status =
                                  Ledger!ReplayLabel(raws[i], Ledger!Brings(i, S), routing[i])]
                         ELSE raws[i]
    <2>1. ASSUME NEW i \in DOMAIN raws PROVE now(i) = due(i)
      <3>1. CASE i \notin S
        BY <1>3, <3>1
      <3>2. CASE i \in S
        <4>1. due(i) = [raws[i] EXCEPT !.status = batch[r].labels[i]]
          BY <1>8, <3>2
        <4>2. raws[i] \in [mail : Mail, status : Statuses] /\ raws[i].status = batch[r].loaded[i]
          BY <1>3, <1>4, <3>2 DEF Row
        <4>3. CASE batch[r].labels[i] # batch[r].loaded[i]
          BY <1>3, <3>2, <4>1, <4>3
        <4>4. CASE batch[r].labels[i] = batch[r].loaded[i]
          <5>1. now(i) = raws[i]
            BY <4>4
          <5>2. [raws[i] EXCEPT !.status = batch[r].labels[i]] = raws[i]
            BY <4>2, <4>4
          <5>3. QED BY <4>1, <5>1, <5>2
        <4>5. QED BY <4>3, <4>4
      <3>3. QED BY <3>1, <3>2
    <2>2. raws' = [i \in DOMAIN raws |-> now(i)]
      BY <1>2 DEF Relabelled
    <2> HIDE DEF now, due
    <2>3. raws' = [i \in DOMAIN raws |-> due(i)]
      BY <2>1, <2>2
    <2>4. QED BY <2>3 DEF due
  <1>10. batch[r].written =
             UNION {{[key |-> k, mail |-> raws[i].mail] : k \in Ledger!Brings(i, S)} : i \in S}
    <2>1. ASSUME NEW t \in batch[r].written
          PROVE  \E i \in S : t \in {[key |-> k, mail |-> raws[i].mail] : k \in Ledger!Brings(i, S)}
      <3>1. PICK i \in S : raws[i].mail = t.mail
        BY <1>3 DEF PassedOK
      <3>2. t \in Report
        BY <1>3 DEF BatchOK
      <3>3. t.key \in Keys /\ t = [key |-> t.key, mail |-> raws[i].mail]
        BY <3>1, <3>2 DEF Report
      <3>4. t.key \in Brought(r, i)
        BY <3>3 DEF Brought
      <3>5. QED BY <1>6, <3>3, <3>4
    <2>2. ASSUME NEW i \in S, NEW k \in Ledger!Brings(i, S)
          PROVE  [key |-> k, mail |-> raws[i].mail] \in batch[r].written
      BY <1>6, <2>2 DEF Brought
    <2>3. QED BY <2>1, <2>2
  <1>11. Readings' = Readings
    BY <1>2, ReadingsStay
  <1>12. Ledger!Replay(S)
    BY <1>2, <1>8, <1>9, <1>10, <1>11 DEF Ledger!Replay
  <1>13. QED BY <1>5, <1>12 DEF Ledger!Next

\* What is read is of the kinds that the ledger tells apart.
LEMMA FilesLabel ==
    ASSUME RInv, NEW m \in Mail, Receive(m) \/ Upload(m)
    PROVE  Ledger!File(m)
  <1> DEFINE read == KeysRead(Docs[m], Form[m] = "message")
             new  == read \ KeysOf(reports)
  <1>1. /\ Readings[m].arrival = read
        /\ Readings[m].refused = (Form[m] = "message" /\ OfKind(Docs[m], "broken") # {})
    BY ReadingsType
  <1>2. Ledger!Held = KeysOf(reports)
    BY DEF Ledger!Held, KeysOf
  <1>3. Fresh(m) /\ \E label \in Ledger!ArrivalLabels(m) : Insert(m, label, new)
    <2>1. CASE Receive(m)
      <3>1. Form[m] = "message" /\ Fresh(m) /\ Insert(m, FilingStatus(m, read, new), new)
        BY <2>1 DEF Receive
      <3>2. RoutingStatus(m) \in {"routed", "retired", "unrouted"}
        BY RecipientType DEF RInv
      <3>3. new = {} <=> read \subseteq Ledger!Held
        BY <1>2
      <3> HIDE DEF read, new
      <3>4. FilingStatus(m, read, new) \in Ledger!ArrivalLabels(m)
        BY <1>1, <3>1, <3>2, <3>3 DEF FilingStatus, Ledger!ArrivalLabels
      <3>5. QED BY <3>1, <3>4
    <2>2. CASE Upload(m)
      <3>1. /\ Form[m] # "message" /\ Fresh(m)
            /\ Insert(m, IF read = {} THEN "failed" ELSE "routed", new)
        BY <2>2 DEF Upload
      <3> HIDE DEF read, new
      <3>2. (IF read = {} THEN "failed" ELSE "routed") \in Ledger!ArrivalLabels(m)
        BY <1>1, <3>1 DEF Ledger!ArrivalLabels
      <3>3. QED BY <3>1, <3>2
    <2>3. QED BY <2>1, <2>2
  <1>4. UNCHANGED Readings
    BY <1>3, ReadingsStay DEF Insert, world
  <1>5. \A i \in DOMAIN raws : raws[i].mail # m
    BY <1>3 DEF Fresh
  <1>6. QED BY <1>1, <1>2, <1>3, <1>4, <1>5 DEF Ledger!File, Insert

\* With one replay at a time, a replay that reads and labels one message after
\* the other, while mail and uploads are committed, is as if it had run at once
\* when it commits: Reprocess implements ReplayLedger.
THEOREM ReplayIsAsIfAtomic == ASSUME Single PROVE Spec => ReplayIsAtomic
  <1>1. Init => Ledger!Init
    BY ReadingsAre DEF Init, Ledger!Init
  <1>2. SInv /\ [Next]_vars => [Ledger!Next]_(Ledger!vars)
    <2> SUFFICES ASSUME SInv, [Next]_vars PROVE [Ledger!Next]_(Ledger!vars)
      OBVIOUS
    <2>1. ASSUME NEW m \in Mail, Receive(m) \/ Upload(m) PROVE Ledger!Next
      BY <2>1, FilesLabel DEF SInv, Ledger!Next
    <2>2. ASSUME NEW r \in Runners, Commit(r) PROVE Ledger!Next
      BY <2>2, CommitReplays
    <2>3. CASE Deploy
      <3>1. Readings' \in [Mail -> Ledger!Reading]
        BY ReadingsWillBe
      <3>2. UNCHANGED <<raws, reports>>
        BY <2>3 DEF Deploy, store
      <3>3. QED BY <3>1, <3>2 DEF Ledger!Next, Ledger!Release
    <2>4. ASSUME \/ \E r \in Runners : Begin(r) \/ Examine(r) \/ Abort(r)
                 \/ \E l \in LocalParts : Mint(l) \/ Retire(l) \/ Delete(l)
                 \/ \E l \in LocalParts, r \in Runners : Vanish(l, r)
                 \/ UNCHANGED vars
          PROVE  UNCHANGED Ledger!vars
      <3>1. UNCHANGED <<release, raws, reports>>
        BY <2>4 DEF Begin, Examine, Abort, Mint, Retire, Delete, Vanish, world, store, vars
      <3>2. QED BY <3>1, ReadingsStay DEF Ledger!vars
    <2>5. QED BY <2>1, <2>2, <2>3, <2>4 DEF Next
  <1>3. SInv /\ [Next]_vars => SInv'
    BY NextSInv
  <1>4. QED BY <1>1, <1>2, <1>3, InitSInv, PTL DEF Spec, ReplayIsAtomic, Ledger!Spec

-----------------------------------------------------------------------------
(* What this module takes in one step is what Intake is shown to do.       *)

CONSTANTS Content, Unreadable   \* what some release reads in mail

\* It is the deployed one.
Deployed ==
    /\ Content = [m \in Mail |-> KeysRead(Docs[m], TRUE)]
    /\ Unreadable = {m \in Mail : OfKind(Docs[m], "broken") # {}}

Filing == INSTANCE ReportLedger WITH
    filed <- {raws[i] : i \in DOMAIN raws},
    held  <- KeysOf(reports),
    acked <- {}

\* Under any release, Reprocess receives a message in one step that is a filing
\* step of the ledger which Intake, with its transactions, implements
\* (IntakeIsSerial): same reports, same label.
THEOREM MailIsFiledAsInIntake ==
    Spec => [][\A m \in Mail : Deployed /\ Receive(m) => Filing!File(m)]_vars
  <1>1. ASSUME RInv, NEW m \in Mail, Deployed, Receive(m) PROVE Filing!File(m)
    <2> DEFINE read == KeysRead(Docs[m], TRUE)
               new  == read \ KeysOf(reports)
               row  == [mail |-> m, status |-> FilingStatus(m, read, new)]
    <2>1. /\ raws' = Append(raws, row)
          /\ reports' = reports \cup {[key |-> k, mail |-> m] : k \in new}
      BY <1>1 DEF Receive, Insert
    <2>2. RoutingStatus(m) \in {"routed", "retired", "unrouted"}
      BY <1>1, RecipientType DEF RInv
    <2>3. new = {} <=> read \subseteq KeysOf(reports)
      OBVIOUS
    <2>4. KeysOf(reports') = KeysOf(reports) \cup read
      <3>1. KeysOf({[key |-> k, mail |-> m] : k \in new}) = new
        <4> HIDE DEF new
        <4>1. ASSUME NEW k \in new PROVE k \in KeysOf({[key |-> h, mail |-> m] : h \in new})
          <5>1. [key |-> k, mail |-> m].key = k
            OBVIOUS
          <5>2. QED BY <4>1, <5>1 DEF KeysOf
        <4>2. ASSUME NEW k \in KeysOf({[key |-> h, mail |-> m] : h \in new}) PROVE k \in new
          BY <4>2 DEF KeysOf
        <4>3. QED BY <4>1, <4>2
      <3>2. KeysOf(reports') = KeysOf(reports) \cup KeysOf({[key |-> k, mail |-> m] : k \in new})
        BY <2>1 DEF KeysOf
      <3>3. QED BY <3>1, <3>2
    <2>5. FilingStatus(m, read, new) \in Filing!Outcomes(m)
      <3> HIDE DEF new
      <3>1. Content[m] = read
        BY <1>1 DEF Deployed
      <3>2. m \in Unreadable <=> OfKind(Docs[m], "broken") # {}
        BY <1>1 DEF Deployed
      <3> HIDE DEF read
      <3>3. QED BY <2>2, <2>3, <3>1, <3>2 DEF FilingStatus, Filing!Outcomes
    <2>6. row \in Row /\ row.mail = m
      BY <1>1, FilingEarned DEF Receive, Row
    <2> HIDE DEF row
    <2>7. {raws'[i] : i \in DOMAIN raws'} = {raws[i] : i \in DOMAIN raws} \cup {row}
      <3>1. raws \in Seq(Row) /\ DOMAIN raws = 1 .. Len(raws) /\ Len(raws) \in Nat
        BY <1>1, RowAt DEF RInv, StoreOK
      <3>2. /\ raws' \in Seq(Row) /\ Len(raws') = Len(raws) + 1 /\ raws'[Len(raws) + 1] = row
            /\ \A i \in 1 .. Len(raws) : raws'[i] = raws[i]
        BY <2>1, <2>6, <3>1, AppendProperties
      <3>3. DOMAIN raws' = (1 .. Len(raws)) \cup {Len(raws) + 1}
        BY <3>1, <3>2, LenProperties
      <3>4. QED BY <3>1, <3>2, <3>3
    <2>8. Content[m] = read
      BY <1>1 DEF Deployed
    <2>9. QED BY <2>4, <2>5, <2>7, <2>8 DEF Filing!File, row
  <1>2. RInv /\ [Next]_vars => [\A m \in Mail : Deployed /\ Receive(m) => Filing!File(m)]_vars
    BY <1>1
  <1>3. QED BY <1>2, ReprocessInvariant, PTL DEF Spec
=============================================================================
