---------------------------- MODULE IntakeProofs ----------------------------
(***************************************************************************)
(* The properties of Intake, for every number of workers, messages,        *)
(* documents, domains and local parts.                                     *)
(***************************************************************************)
EXTENDS IntakeInv, TLAPS

\* Every way a session ends gives its thread back and writes nothing.
Closes(w) == Release(w) /\ UNCHANGED <<registry, store, deletion>>

LEMMA EndsClose ==
    ASSUME NEW w \in Workers,
           \/ DomainGone(w) \/ FlushFails(w) \/ DeadlockAbort(w)
           \/ Reply(w) \/ LoseReply(w) \/ Fail(w)
    PROVE  Closes(w)
  BY DEF DomainGone, FlushFails, DeadlockAbort, Reply, LoseReply, Fail, Rollback,
         Closes, Release, registry, store

-----------------------------------------------------------------------------
(* Type correctness.                                                       *)

LEMMA InitIInv == Init => IInv
  BY IntakeAssumption
     DEF Init, IInv, TypeOK, ShapeOK, ScanOK, ScanOf, StatusOK, OwnRowsOK, OwnRowsOf, OwnRows, FreshOK,
         ReplyOK, LookupOK, LinksOK, StillRight, NothingAckedIsLost, FiledMeansHeld,
         HeldOnce, MintedNeverQuarantined, RoutedBroughtReports, KeysOf, Quarantine,
         NoDeletion, DomainIds, Statuses, MoreDocs, CurrentDoc

LEMMA AddedRow ==
    ASSUME TypeOK, ShapeOK, NEW w \in Workers, AddReport(w)
    PROVE  /\ pending'[w] \in Report
           /\ pending' = [pending EXCEPT ![w] = pending'[w]]
  <1>1. job[w] \in Mail /\ next[w] \in 1 .. Len(Docs[job[w]])
    BY IntakeAssumption DEF TypeOK, AddReport, ShapeOK, MoreDocs
  <1>2. CurrentDoc(w) \in Document
    BY <1>1, IntakeAssumption DEF CurrentDoc
  <1>3. Attribution(w, CurrentDoc(w))
           \in [tenant : Tenants, domain : DomainIds \cup {NoRow}]
    BY DEF TypeOK, Attribution, DomainNamed, DomainRow
  <1>4. QED
    BY <1>1, <1>2, <1>3 DEF TypeOK, AddReport, Report, Document

\* A function updated at one argument.
LEMMA Updated ==
    ASSUME NEW S, NEW T, NEW f \in [S -> T], NEW s \in S, NEW t \in T
    PROVE  [f EXCEPT ![s] = t] \in [S -> T]
  OBVIOUS

LEMMA TypeStep ==
    ASSUME TypeOK, ShapeOK, Next
    PROVE  TypeOK'
  <1> USE IntakeAssumption DEF TypeOK, Statuses
  <1>1. ASSUME NEW w \in Workers, NEW m \in Mail, Receive(w, m) PROVE TypeOK'
    BY <1>1 DEF Receive, registry, store, senders
  <1>h. ASSUME NEW l, NEW state, HasAddress(l, state)
        PROVE  address[l].domain \in DomainIds
    BY <1>h DEF HasAddress, AddressRow
  <1>2. ASSUME NEW w \in Workers, ResolveAddress(w) PROVE TypeOK'
    <2>1. known' \in [Workers -> DomainIds \cup {NoRow}]
      <3>1. PICK d \in DomainIds \cup {NoRow} : known' = [known EXCEPT ![w] = d]
                                             \/ known' = known
        <4>1. CASE HasAddress(Rcpt[job[w]], "active")
          BY <1>2, <1>h, <4>1 DEF ResolveAddress
        <4>2. CASE ~HasAddress(Rcpt[job[w]], "active")
          BY <1>2, <4>2 DEF ResolveAddress
        <4>3. QED BY <4>1, <4>2
      <3>2. known \in [Workers -> DomainIds \cup {NoRow}]
        OBVIOUS
      <3>3. [known EXCEPT ![w] = d] \in [Workers -> DomainIds \cup {NoRow}]
        BY <3>2, Updated
      <3>4. QED BY <3>1, <3>2, <3>3
    <2>2. pc' = [pc EXCEPT ![w] = "domain"] \/ pc' = [pc EXCEPT ![w] = "retired"]
      BY <1>2 DEF ResolveAddress
    <2>3. UNCHANGED <<registry, store, senders, deletion,
                      job, status, route, next, pending, written>>
      BY <1>2 DEF ResolveAddress
    <2>4. QED
      BY <2>1, <2>2, <2>3 DEF registry, store, senders
  <1>3. ASSUME NEW w \in Workers, ResolveRetired(w) PROVE TypeOK'
    <2>1. known' \in [Workers -> DomainIds \cup {NoRow}]
      <3>1. PICK d \in DomainIds \cup {NoRow} : known' = [known EXCEPT ![w] = d]
                                             \/ known' = known
        <4>1. CASE HasAddress(Rcpt[job[w]], "retired")
          BY <1>3, <1>h, <4>1 DEF ResolveRetired
        <4>2. CASE ~HasAddress(Rcpt[job[w]], "retired")
          BY <1>3, <4>2 DEF ResolveRetired
        <4>3. QED BY <4>1, <4>2
      <3>2. known \in [Workers -> DomainIds \cup {NoRow}]
        OBVIOUS
      <3>3. [known EXCEPT ![w] = d] \in [Workers -> DomainIds \cup {NoRow}]
        BY <3>2, Updated
      <3>4. QED BY <3>1, <3>2, <3>3
    <2>2. /\ pc' = [pc EXCEPT ![w] = "domain"] \/ pc' = [pc EXCEPT ![w] = "docs"]
          /\ \/ status' = [status EXCEPT ![w] = "retired"]
             \/ status' = [status EXCEPT ![w] = "unrouted"]
      BY <1>3 DEF ResolveRetired
    <2>3. UNCHANGED <<registry, store, senders, deletion,
                      job, route, next, pending, written>>
      BY <1>3 DEF ResolveRetired
    <2>4. /\ pc' \in [Workers -> {"idle", "resolve", "retired", "domain", "docs",
                                  "store", "reply"}]
          /\ status' \in [Workers -> Statuses]
      <3>1. pc' \in [Workers -> {"idle", "resolve", "retired", "domain", "docs",
                                 "store", "reply"}]
        BY <2>2
      <3>2. {"retired", "unrouted"} \subseteq Statuses
        OBVIOUS
      <3>3. status' \in [Workers -> Statuses]
        BY <2>2, <3>2
      <3>4. QED BY <3>1, <3>3
    <2>5. QED
      BY <2>1, <2>3, <2>4 DEF registry, store, senders
  <1>4. ASSUME NEW w \in Workers, LoadDomain(w) PROVE TypeOK'
    BY <1>4 DEF LoadDomain, ShapeOK, DomainRow, registry, store, senders
  <1>5. ASSUME NEW w \in Workers, SkipUnknown(w) PROVE TypeOK'
    BY <1>5 DEF SkipUnknown, registry, store, senders
  <1>6. ASSUME NEW w \in Workers, ParseError(w) PROVE TypeOK'
    BY <1>6 DEF ParseError, registry, store, senders
  <1>7. ASSUME NEW w \in Workers, CheckDuplicate(w) PROVE TypeOK'
    <2>1. CASE Held(w, CurrentDoc(w).key)
      <3>1. next' = [next EXCEPT ![w] = next[w] + 1] /\ pc' = pc
        BY <1>7, <2>1 DEF CheckDuplicate
      <3>2. next' \in [Workers -> Nat \ {0}]
        BY <3>1
      <3>3. QED
        BY <1>7, <3>1, <3>2 DEF CheckDuplicate, registry, store, senders
    <2>2. CASE ~Held(w, CurrentDoc(w).key)
      <3>1. next' = next /\ pc' = [pc EXCEPT ![w] = "store"]
        BY <1>7, <2>2 DEF CheckDuplicate
      <3>2. QED
        BY <1>7, <3>1 DEF CheckDuplicate, registry, store, senders
    <2>3. QED BY <2>1, <2>2
  <1>8. ASSUME NEW w \in Workers, AddReport(w) PROVE TypeOK'
    <2>1. pending' \in [Workers -> Report \cup {NoRow}]
      BY <1>8, AddedRow
    <2>2. next' \in [Workers -> Nat \ {0}] /\ pc' = [pc EXCEPT ![w] = "docs"]
      BY <1>8 DEF AddReport
    <2>3. QED
      BY <1>8, <2>1, <2>2 DEF AddReport, registry, store, senders
  <1>9. ASSUME NEW w \in Workers, Flush(w) PROVE TypeOK'
    BY <1>9 DEF Flush, Flushing, registry, store, senders
  <1>10. ASSUME NEW w \in Workers, Commit(w) PROVE TypeOK'
    <2>1. job[w] \in Mail /\ FinalStatus(w) \in Statuses
      BY <1>10 DEF Commit, ShapeOK, FinalStatus
    <2>2. QED
      BY <1>10, <2>1 DEF Commit, RawRow, registry, senders
  <1>11. ASSUME NEW w \in Workers, Closes(w),
                delivered' \in SUBSET Mail, failures' \in 0 .. MaxFailures
         PROVE  TypeOK'
    BY <1>11 DEF Closes, Release, Quarantine, registry, store
  <1>12. ASSUME NEW w \in Workers, Reply(w) PROVE TypeOK'
    <2>1. delivered' \in SUBSET Mail /\ failures' = failures
      BY <1>12 DEF Reply, ShapeOK
    <2>2. QED BY <1>11, <1>12, <2>1, EndsClose
  <1>13. ASSUME NEW w \in Workers, LoseReply(w) \/ Fail(w) PROVE TypeOK'
    <2>1. delivered' = delivered /\ failures' \in 0 .. MaxFailures
      BY <1>13 DEF LoseReply, Fail
    <2>2. QED BY <1>11, <1>13, <2>1, EndsClose
  <1>14. ASSUME NEW w \in Workers, DomainGone(w) \/ FlushFails(w) \/ DeadlockAbort(w)
         PROVE  TypeOK'
    <2>1. delivered' = delivered /\ failures' = failures
      BY <1>14 DEF DomainGone, FlushFails, DeadlockAbort, Rollback, senders
    <2>2. QED BY <1>11, <1>14, <2>1, EndsClose
  <1>15. ASSUME ControlPlane PROVE TypeOK'
    <2> USE DEF store, senders, txn
    <2>1. ASSUME NEW d \in DomainIds, NEW n \in Names, NEW t \in Tenants,
                 NEW l \in LocalParts, AddDomain(d, n, t, l)
          PROVE  TypeOK'
      BY <2>1 DEF AddDomain, DomainRow, AddressRow, DomainIds
    <2>2. ASSUME NEW d \in DomainIds, NEW l \in LocalParts, MintAddress(d, l)
          PROVE  TypeOK'
      BY <2>2 DEF MintAddress, AddressRow
    <2>3. ASSUME NEW l \in LocalParts, DeactivateAddress(l) PROVE TypeOK'
      BY <2>3 DEF DeactivateAddress, AddressRow
    <2>4. ASSUME NEW d \in DomainIds, ReadReports(d) PROVE TypeOK'
      <3>1. KeysOf({r \in reports : r.domain = d}) \subseteq Keys
        BY DEF KeysOf, Report
      <3>2. QED
        BY <2>4, <3>1 DEF ReadReports, registry
    <2>5. ASSUME ReadAddresses PROVE TypeOK'
      BY <2>5 DEF ReadAddresses, registry
    <2>6. ASSUME DeleteDomain PROVE TypeOK'
      <3>1. reports' \subseteq Report
        <4>1. ASSUME NEW r \in reports PROVE Unlinked(r) \in Report
          <5>1. r \in Report
            OBVIOUS
          <5>2. QED BY <5>1 DEF Unlinked, Report
        <4>2. QED BY <2>6, <4>1 DEF DeleteDomain
      <3>2. QED
        BY <2>6, <3>1 DEF DeleteDomain, NoDeletion
    <2>7. ASSUME DeleteRefused PROVE TypeOK'
      BY <2>7 DEF DeleteRefused, NoDeletion, registry
    <2>8. QED
      BY <1>15, <2>1, <2>2, <2>3, <2>4, <2>5, <2>6, <2>7 DEF ControlPlane
  <1>16. ASSUME Rest PROVE TypeOK'
    BY <1>16 DEF Rest, vars, registry, store, senders, txn
  <1>17. QED
    BY <1>1, <1>2, <1>3, <1>4, <1>5, <1>6, <1>7, <1>8, <1>9, <1>10, <1>12, <1>13,
       <1>14, <1>15, <1>16
       DEF Next, WorkerStep, ReadStep, WriteStep, Trouble

-----------------------------------------------------------------------------
(* What the control plane cannot touch.                                    *)

LEMMA ControlPlaneFrame ==
    ASSUME TypeOK, ControlPlane
    PROVE  /\ UNCHANGED <<txn, senders, raws>>
           /\ KeysOf(reports') = KeysOf(reports)
           /\ \A r \in reports : \E s \in reports' :
                 /\ s.key = r.key /\ s.tenant = r.tenant /\ s.mail = r.mail
                 /\ s.domain \in {r.domain, NoRow}
           /\ \A s \in reports' : \E r \in reports : s = r \/ s = Unlinked(r)
  <1>1. ASSUME ~DeleteDomain PROVE UNCHANGED <<txn, senders, raws, reports>>
    BY <1>1 DEF ControlPlane, AddDomain, MintAddress, DeactivateAddress, ReadReports,
                ReadAddresses, DeleteRefused, txn, senders, store
  <1>2. CASE DeleteDomain
    <2>1. UNCHANGED <<txn, senders, raws>> /\ reports' = {Unlinked(r) : r \in reports}
      BY <1>2 DEF DeleteDomain
    <2>2. ASSUME NEW r \in reports
          PROVE  /\ Unlinked(r).key = r.key
                 /\ Unlinked(r).tenant = r.tenant
                 /\ Unlinked(r).mail = r.mail
                 /\ Unlinked(r).domain \in {r.domain, NoRow}
      <3>1. r \in Report
        BY DEF TypeOK
      <3>2. QED
        BY <3>1 DEF Unlinked, Report
    <2>3. QED
      BY <2>1, <2>2 DEF KeysOf
  <1>3. QED
    BY <1>1, <1>2 DEF KeysOf

-----------------------------------------------------------------------------
(* Where a transaction is.                                                 *)

LEMMA ShapeStep ==
    ASSUME TypeOK, ShapeOK, Next
    PROVE  ShapeOK'
  <1> USE IntakeAssumption DEF TypeOK, ShapeOK, MoreDocs, CurrentDoc
  <1>1. ASSUME NEW w \in Workers, NEW m \in Mail, Receive(w, m) PROVE ShapeOK'
    BY <1>1 DEF Receive, Sendable
  <1>2. ASSUME NEW w \in Workers, ResolveAddress(w) PROVE ShapeOK'
    BY <1>2 DEF ResolveAddress, HasAddress, AddressRow
  <1>3. ASSUME NEW w \in Workers, ResolveRetired(w) PROVE ShapeOK'
    BY <1>3 DEF ResolveRetired, HasAddress, AddressRow
  <1>4. ASSUME NEW w \in Workers, LoadDomain(w) PROVE ShapeOK'
    BY <1>4 DEF LoadDomain
  <1>5. ASSUME NEW w \in Workers, SkipUnknown(w) PROVE ShapeOK'
    BY <1>5 DEF SkipUnknown
  <1>6. ASSUME NEW w \in Workers, ParseError(w) PROVE ShapeOK'
    BY <1>6 DEF ParseError
  <1>7. ASSUME NEW w \in Workers, CheckDuplicate(w) PROVE ShapeOK'
    <2>1. CASE Held(w, CurrentDoc(w).key)
      BY <1>7, <2>1 DEF CheckDuplicate
    <2>2. CASE ~Held(w, CurrentDoc(w).key)
      BY <1>7, <2>2 DEF CheckDuplicate, Held
    <2>3. QED BY <2>1, <2>2
  <1>8. ASSUME NEW w \in Workers, AddReport(w) PROVE ShapeOK'
    BY <1>8 DEF AddReport
  <1>9. ASSUME NEW w \in Workers, Flush(w) PROVE ShapeOK'
    BY <1>9 DEF Flush, Flushing
  <1>10. ASSUME NEW w \in Workers, Commit(w) PROVE ShapeOK'
    BY <1>10 DEF Commit
  <1>11. ASSUME NEW w \in Workers, Closes(w) PROVE ShapeOK'
    BY <1>11 DEF Closes, Release
  <1>12. ASSUME ControlPlane \/ Rest PROVE ShapeOK'
    <2>1. UNCHANGED txn
      BY <1>12, ControlPlaneFrame DEF Rest, vars
    <2>2. QED BY <2>1 DEF txn, KeysOf
  <1>13. QED
    BY <1>1, <1>2, <1>3, <1>4, <1>5, <1>6, <1>7, <1>8, <1>9, <1>10, <1>11, <1>12,
       EndsClose
       DEF Next, WorkerStep, ReadStep, WriteStep, Trouble

LEMMA StatusStep ==
    ASSUME TypeOK, StatusOK, Next
    PROVE  StatusOK'
  <1> USE DEF TypeOK, StatusOK
  <1>1. ASSUME NEW w \in Workers, NEW m \in Mail, Receive(w, m) PROVE StatusOK'
    BY <1>1 DEF Receive
  <1>2. ASSUME NEW w \in Workers, ResolveAddress(w) PROVE StatusOK'
    BY <1>2 DEF ResolveAddress
  <1>3. ASSUME NEW w \in Workers, ResolveRetired(w) PROVE StatusOK'
    BY <1>3 DEF ResolveRetired
  <1>4. ASSUME NEW w \in Workers, LoadDomain(w) PROVE StatusOK'
    BY <1>4 DEF LoadDomain
  <1>5. ASSUME NEW w \in Workers, SkipUnknown(w) PROVE StatusOK'
    BY <1>5 DEF SkipUnknown
  <1>6. ASSUME NEW w \in Workers, ParseError(w) PROVE StatusOK'
    BY <1>6 DEF ParseError
  <1>7. ASSUME NEW w \in Workers, CheckDuplicate(w) PROVE StatusOK'
    BY <1>7 DEF CheckDuplicate, MoreDocs
  <1>8. ASSUME NEW w \in Workers, AddReport(w) PROVE StatusOK'
    BY <1>8 DEF AddReport
  <1>9. ASSUME NEW w \in Workers, Flush(w) PROVE StatusOK'
    BY <1>9 DEF Flush, Flushing
  <1>10. ASSUME NEW w \in Workers, Commit(w) PROVE StatusOK'
    BY <1>10 DEF Commit
  <1>11. ASSUME NEW w \in Workers, Closes(w) PROVE StatusOK'
    BY <1>11 DEF Closes, Release
  <1>12. ASSUME ControlPlane \/ Rest PROVE StatusOK'
    <2>1. UNCHANGED txn
      BY <1>12, ControlPlaneFrame DEF Rest, vars
    <2>2. QED BY <2>1 DEF txn
  <1>13. QED
    BY <1>1, <1>2, <1>3, <1>4, <1>5, <1>6, <1>7, <1>8, <1>9, <1>10, <1>11, <1>12,
       EndsClose
       DEF Next, WorkerStep, ReadStep, WriteStep, Trouble

-----------------------------------------------------------------------------
(* A step is of one worker, and leaves the others where they are.          *)

SameTxn(v) ==
    /\ pc'[v] = pc[v]
    /\ job'[v] = job[v]
    /\ known'[v] = known[v]
    /\ status'[v] = status[v]
    /\ route'[v] = route[v]
    /\ next'[v] = next[v]
    /\ pending'[v] = pending[v]
    /\ written'[v] = written[v]

StepOf(w) == (\E m \in Mail : Receive(w, m)) \/ WorkerStep(w) \/ Trouble(w)

LEMMA OthersSame ==
    ASSUME TypeOK, NEW w \in Workers, StepOf(w), NEW v \in Workers, v # w
    PROVE  SameTxn(v)
  <1>1. ASSUME Closes(w) PROVE SameTxn(v)
    BY <1>1 DEF TypeOK, Closes, Release, SameTxn
  <1>2. ASSUME NEW m \in Mail, Receive(w, m) PROVE SameTxn(v)
    BY <1>2 DEF TypeOK, Receive, SameTxn
  <1>3. CASE ResolveAddress(w) \/ ResolveRetired(w) \/ LoadDomain(w)
    BY <1>3 DEF TypeOK, ResolveAddress, ResolveRetired, LoadDomain, SameTxn
  <1>4. CASE SkipUnknown(w) \/ ParseError(w) \/ CheckDuplicate(w) \/ AddReport(w)
    BY <1>4 DEF TypeOK, SkipUnknown, ParseError, CheckDuplicate, AddReport, SameTxn
  <1>5. CASE Flush(w) \/ Commit(w)
    BY <1>5 DEF TypeOK, Flush, Commit, SameTxn
  <1>6. QED
    BY <1>1, <1>2, <1>3, <1>4, <1>5, EndsClose
       DEF StepOf, WorkerStep, ReadStep, WriteStep, Trouble

LEMMA OnlyCommitStores ==
    ASSUME NEW w \in Workers, StepOf(w), ~Commit(w)
    PROVE  UNCHANGED store
  BY EndsClose
     DEF StepOf, WorkerStep, ReadStep, WriteStep, Trouble, Closes, Receive,
         ResolveAddress, ResolveRetired, LoadDomain, SkipUnknown, ParseError,
         CheckDuplicate, AddReport, Flush

\* Whatever happens, the keys held stay held.
LEMMA KeysStay ==
    ASSUME TypeOK, Next
    PROVE  KeysOf(reports) \subseteq KeysOf(reports')
  <1>1. ASSUME NEW w \in Workers, StepOf(w)
        PROVE  KeysOf(reports) \subseteq KeysOf(reports')
    <2>1. CASE Commit(w)
      BY <2>1 DEF Commit, KeysOf
    <2>2. CASE ~Commit(w)
      BY <1>1, <2>2, OnlyCommitStores DEF store
    <2>3. QED BY <2>1, <2>2
  <1>2. CASE ControlPlane \/ Rest
    BY <1>2, ControlPlaneFrame DEF Rest, vars, store
  <1>3. QED
    BY <1>1, <1>2 DEF Next, StepOf

\* A step is one of this worker, or leaves it where it is.
LEMMA MineOrNot ==
    ASSUME TypeOK, Next, NEW v \in Workers
    PROVE  StepOf(v) \/ SameTxn(v)
  <1>1. CASE ControlPlane \/ Rest
    BY <1>1, ControlPlaneFrame DEF Rest, vars, txn, SameTxn
  <1>2. CASE \E w \in Workers : StepOf(w)
    BY <1>2, OthersSame
  <1>3. QED
    BY <1>1, <1>2 DEF Next, StepOf

-----------------------------------------------------------------------------
(* What a transaction knows of the documents it has looked at.             *)

LEMMA OwnRowsStep ==
    ASSUME TypeOK, ShapeOK, OwnRowsOK, Next
    PROVE  OwnRowsOK'
  <1> SUFFICES ASSUME NEW v \in Workers PROVE OwnRowsOf(v)'
    BY DEF OwnRowsOK
  <1> USE DEF TypeOK, OwnRowsOf, OwnRows
  <1>0. OwnRowsOf(v)
    BY DEF OwnRowsOK
  <1>1. CASE SameTxn(v)
    BY <1>0, <1>1 DEF SameTxn
  <1>2. ASSUME NEW m \in Mail, Receive(v, m) PROVE OwnRowsOf(v)'
    BY <1>0, <1>2 DEF Receive, ShapeOK
  <1>3. CASE ResolveAddress(v) \/ ResolveRetired(v) \/ LoadDomain(v)
    <2>1. /\ pending'[v] = pending[v] /\ written'[v] = written[v]
          /\ job'[v] = job[v] /\ next'[v] = next[v]
      BY <1>3 DEF ResolveAddress, ResolveRetired, LoadDomain
    <2>2. OwnRows(v)' = OwnRows(v)
      BY <2>1
    <2>3. QED
      BY <1>0, <2>1, <2>2
  <1>4. CASE ParseError(v)
    BY <1>0, <1>4 DEF ParseError
  <1>5. CASE SkipUnknown(v) \/ CheckDuplicate(v)
    <2>1. /\ pending'[v] = pending[v] /\ written'[v] = written[v] /\ job'[v] = job[v]
          /\ next'[v] \in {next[v], next[v] + 1}
      BY <1>5 DEF SkipUnknown, CheckDuplicate
    <2>2. QED
      BY <1>0, <2>1
  <1>6. CASE AddReport(v)
    <2>1. /\ pending'[v].key = CurrentDoc(v).key /\ pending'[v].mail = job[v]
          /\ written'[v] = written[v] /\ job'[v] = job[v] /\ next'[v] = next[v] + 1
          /\ CurrentDoc(v).kind = "report"
      BY <1>6 DEF AddReport, ShapeOK
    <2>2. QED
      BY <1>0, <2>1 DEF CurrentDoc
  <1>7. CASE Flush(v)
    <2>1. /\ pending'[v] = NoRow /\ written'[v] = written[v] \cup {pending[v]}
          /\ job'[v] = job[v] /\ next'[v] = next[v] /\ pending[v] # NoRow
      BY <1>7 DEF Flush, Flushing
    <2>2. QED
      BY <1>0, <2>1
  <1>8. CASE Commit(v)
    BY <1>8 DEF Commit
  <1>9. CASE Closes(v)
    BY <1>9 DEF Closes, Release
  <1>10. QED
    BY <1>1, <1>2, <1>3, <1>4, <1>5, <1>6, <1>7, <1>8, <1>9, MineOrNot, EndsClose
       DEF StepOf, WorkerStep, ReadStep, WriteStep, Trouble

LEMMA ScanStep ==
    ASSUME TypeOK, ShapeOK, StatusOK, ScanOK, Next
    PROVE  ScanOK'
  <1> SUFFICES ASSUME NEW v \in Workers PROVE ScanOf(v)'
    BY DEF ScanOK
  <1> USE IntakeAssumption DEF TypeOK
  <1> DEFINE mine == KeysOf(OwnRows(v))
  <1>0. ScanOf(v) /\ KeysOf(reports) \subseteq KeysOf(reports')
    BY KeysStay DEF ScanOK
  <1>1. CASE SameTxn(v)
    <2>1. mine' = mine
      BY <1>1 DEF SameTxn, OwnRows, KeysOf
    <2>2. QED BY <1>0, <1>1, <2>1 DEF SameTxn, ScanOf
  <1>2. ASSUME NEW m \in Mail, Receive(v, m) PROVE ScanOf(v)'
    BY <1>2 DEF Receive, ScanOf
  <1>3. CASE ResolveAddress(v)
    BY <1>3 DEF ResolveAddress, ScanOf
  <1>4. CASE ResolveRetired(v) \/ LoadDomain(v)
    <2>1. /\ next'[v] = 1 /\ job'[v] \in Mail /\ status'[v] # "failed"
      <3>1. CASE ResolveRetired(v)
        BY <3>1 DEF ResolveRetired, ShapeOK, StatusOK
      <3>2. CASE LoadDomain(v)
        BY <3>2 DEF LoadDomain, ShapeOK, StatusOK
      <3>3. QED BY <1>4, <3>1, <3>2
    <2>2. Len(Docs[job'[v]]) \in Nat
      BY <2>1
    <2>3. QED BY <2>1, <2>2 DEF ScanOf
  <1>5. CASE SkipUnknown(v)
    <2>1. /\ job'[v] = job[v] /\ next'[v] = next[v] + 1 /\ status'[v] = status[v]
          /\ pc'[v] = pc[v] /\ pc[v] = "docs" /\ mine' = mine /\ MoreDocs(v)
          /\ CurrentDoc(v).kind = "unknown"
      BY <1>5 DEF SkipUnknown, OwnRows, KeysOf
    <2>2. job[v] \in Mail /\ Len(Docs[job[v]]) \in Nat
      BY <2>1 DEF ShapeOK
    <2>3. QED BY <1>0, <2>1, <2>2 DEF ScanOf, MoreDocs, CurrentDoc
  <1>6. CASE ParseError(v)
    <2>1. /\ job'[v] = job[v] /\ next'[v] = next[v] /\ pc'[v] = pc[v]
          /\ pc[v] = "docs" /\ mine' = mine /\ MoreDocs(v)
          /\ CurrentDoc(v).kind = "broken"
      BY <1>6 DEF ParseError, OwnRows, KeysOf
    <2>2. QED BY <1>0, <2>1 DEF ScanOf, MoreDocs, CurrentDoc
  <1>7. CASE CheckDuplicate(v)
    <2>1. /\ job'[v] = job[v] /\ status'[v] = status[v] /\ mine' = mine
          /\ pc[v] = "docs" /\ MoreDocs(v) /\ CurrentDoc(v).kind = "report"
          /\ \/ next'[v] = next[v]
             \/ next'[v] = next[v] + 1 /\ CurrentDoc(v).key \in KeysOf(reports) \cup mine
      BY <1>7 DEF CheckDuplicate, Held, OwnRows, KeysOf
    <2>2. job[v] \in Mail /\ Len(Docs[job[v]]) \in Nat
      BY <2>1 DEF ShapeOK
    <2>3. QED BY <1>0, <2>1, <2>2 DEF ScanOf, MoreDocs, CurrentDoc
  <1>8. CASE AddReport(v)
    <2>1. /\ job'[v] = job[v] /\ status'[v] = status[v] /\ next'[v] = next[v] + 1
          /\ pc[v] = "store" /\ MoreDocs(v) /\ CurrentDoc(v).kind = "report"
          /\ pending[v] = NoRow /\ written'[v] = written[v]
          /\ pending'[v].key = CurrentDoc(v).key
      BY <1>8 DEF AddReport, ShapeOK
    <2>2. pending'[v] # NoRow
      BY <1>8, AddedRow DEF Report
    <2>3. mine' = mine \cup {CurrentDoc(v).key}
      BY <2>1, <2>2 DEF OwnRows, KeysOf
    <2>4. job[v] \in Mail /\ Len(Docs[job[v]]) \in Nat
      BY <2>1 DEF ShapeOK
    <2>5. QED BY <1>0, <2>1, <2>3, <2>4 DEF ScanOf, MoreDocs, CurrentDoc
  <1>9. CASE Flush(v)
    <2>1. /\ pending'[v] = NoRow /\ written'[v] = written[v] \cup {pending[v]}
          /\ job'[v] = job[v] /\ next'[v] = next[v] /\ pending[v] # NoRow
          /\ pc'[v] = pc[v] /\ status'[v] = status[v]
      BY <1>9 DEF Flush, Flushing
    <2>2. mine' = mine
      BY <2>1 DEF OwnRows, KeysOf
    <2>3. QED BY <1>0, <2>1, <2>2 DEF ScanOf
  <1>10. CASE Commit(v) \/ Closes(v)
    BY <1>10 DEF Commit, Closes, Release, ScanOf
  <1>11. QED
    BY <1>1, <1>2, <1>3, <1>4, <1>5, <1>6, <1>7, <1>8, <1>9, <1>10, MineOrNot, EndsClose
       DEF StepOf, WorkerStep, ReadStep, WriteStep, Trouble

-----------------------------------------------------------------------------
(* Nobody else holds the key of a row we wrote.                            *)

LEMMA FreshStep ==
    ASSUME TypeOK, ShapeOK, FreshOK, Next
    PROVE  FreshOK'
  <1> USE DEF TypeOK
  <1>1. ASSUME NEW w \in Workers, StepOf(w), UNCHANGED store, written' = written,
               pending'[w] = NoRow \/ pending'[w].key \notin KeysOf(written[w])
        PROVE  FreshOK'
    <2>1. \A v \in Workers \ {w} : pending'[v] = pending[v]
      BY <1>1, OthersSame DEF SameTxn
    <2>2. QED
      BY <1>1, <2>1 DEF FreshOK, store
  <1>2. ASSUME NEW w \in Workers, Closes(w) PROVE FreshOK'
    <2>1. KeysOf({}) = {}
      BY DEF KeysOf
    <2>2. QED
      BY <1>2, <2>1 DEF Closes, Release, FreshOK, store
  <1>3. ASSUME NEW w \in Workers, NEW m \in Mail, Receive(w, m) PROVE FreshOK'
    BY <1>3 DEF Receive, FreshOK, store
  <1>4. ASSUME NEW w \in Workers,
               ResolveAddress(w) \/ ResolveRetired(w) \/ LoadDomain(w)
        PROVE  FreshOK'
    BY <1>4 DEF ResolveAddress, ResolveRetired, LoadDomain, FreshOK, store
  <1>5. ASSUME NEW w \in Workers,
               SkipUnknown(w) \/ ParseError(w) \/ CheckDuplicate(w)
        PROVE  FreshOK'
    BY <1>5 DEF SkipUnknown, ParseError, CheckDuplicate, FreshOK, store
  <1>6. ASSUME NEW w \in Workers, AddReport(w) PROVE FreshOK'
    <2>1. pending'[w].key \notin KeysOf(written[w])
      BY <1>6 DEF AddReport, ShapeOK
    <2>2. StepOf(w) /\ UNCHANGED store /\ written' = written
      BY <1>6 DEF AddReport, StepOf, WorkerStep, ReadStep
    <2>3. QED BY <1>1, <2>1, <2>2
  <1>7. ASSUME NEW w \in Workers, Flush(w) PROVE FreshOK'
    <2> DEFINE k == pending[w].key
    <2>1. /\ written' = [written EXCEPT ![w] = @ \cup {pending[w]}]
          /\ pending' = [pending EXCEPT ![w] = NoRow]
          /\ k \notin KeysOf(reports) /\ reports' = reports
          /\ pending[w] # NoRow
      BY <1>7 DEF Flush, Flushing, store
    <2>2. \A v \in Workers \ {w} : k \notin KeysOf(written[v])
      BY <1>7 DEF Flush, Waiting, WaitsFor
    <2>3. k \notin KeysOf(written[w])
      BY <2>1 DEF FreshOK
    <2>4. KeysOf(written'[w]) = KeysOf(written[w]) \cup {k}
      BY <2>1 DEF KeysOf
    <2>5. \A r, s \in written'[w] : r.key = s.key => r = s
      BY <2>1, <2>3 DEF FreshOK, KeysOf
    <2>6. ASSUME NEW v \in Workers
          PROVE  /\ KeysOf(written'[v]) \cap KeysOf(reports) = {}
                 /\ \A r, s \in written'[v] : r.key = s.key => r = s
                 /\ pending'[v] # NoRow => pending'[v].key \notin KeysOf(written'[v])
      <3>1. CASE v = w
        <4>1. KeysOf(written[w]) \cap KeysOf(reports) = {} /\ pending'[w] = NoRow
          BY <2>1 DEF FreshOK
        <4>2. KeysOf(written'[w]) \cap KeysOf(reports) = {}
          BY <2>1, <2>4, <4>1
        <4>3. QED BY <2>5, <3>1, <4>1, <4>2
      <3>2. CASE v # w
        <4>1. written'[v] = written[v] /\ pending'[v] = pending[v]
          BY <2>1, <3>2 DEF TypeOK
        <4>2. QED BY <4>1 DEF FreshOK
      <3>3. QED BY <3>1, <3>2
    <2>7. ASSUME NEW v \in Workers, NEW u \in Workers, u # v
          PROVE  KeysOf(written'[v]) \cap KeysOf(written'[u]) = {}
      <3>1. KeysOf(written[v]) \cap KeysOf(written[u]) = {}
        BY <2>7 DEF FreshOK
      <3>2. CASE v = w
        <4>1. KeysOf(written'[u]) = KeysOf(written[u]) /\ k \notin KeysOf(written[u])
          BY <2>1, <2>2, <2>7, <3>2
        <4>2. QED BY <2>4, <3>1, <3>2, <4>1
      <3>3. CASE u = w
        <4>1. KeysOf(written'[v]) = KeysOf(written[v]) /\ k \notin KeysOf(written[v])
          BY <2>1, <2>2, <2>7, <3>3
        <4>2. QED BY <2>4, <3>1, <3>3, <4>1
      <3>4. CASE v # w /\ u # w
        BY <2>1, <3>1, <3>4
      <3>5. QED BY <3>2, <3>3, <3>4
    <2>8. QED
      BY <2>1, <2>6, <2>7 DEF FreshOK
  <1>8. ASSUME NEW w \in Workers, Commit(w) PROVE FreshOK'
    <2>1. /\ written' = [written EXCEPT ![w] = {}]
          /\ reports' = reports \cup written[w]
          /\ pending' = pending
      BY <1>8 DEF Commit
    <2>2. KeysOf({}) = {} /\ KeysOf(reports') = KeysOf(reports) \cup KeysOf(written[w])
      BY <2>1 DEF KeysOf
    <2>3. ASSUME NEW v \in Workers
          PROVE  /\ KeysOf(written'[v]) \cap KeysOf(reports') = {}
                 /\ \A r, s \in written'[v] : r.key = s.key => r = s
                 /\ pending'[v] # NoRow => pending'[v].key \notin KeysOf(written'[v])
                 /\ \A u \in Workers \ {v} :
                      KeysOf(written'[v]) \cap KeysOf(written'[u]) = {}
      <3>1. CASE v = w
        BY <2>1, <2>2, <3>1 DEF TypeOK
      <3>2. CASE v # w
        <4>1. /\ written'[v] = written[v] /\ pending'[v] = pending[v]
              /\ \A u \in Workers \ {v} : written'[u] \in {written[u], {}}
          BY <2>1, <3>2 DEF TypeOK
        <4>2. KeysOf(written[v]) \cap (KeysOf(reports) \cup KeysOf(written[w])) = {}
          BY <3>2 DEF FreshOK
        <4>3. ASSUME NEW u \in Workers \ {v}
              PROVE  KeysOf(written[v]) \cap KeysOf(written'[u]) = {}
          <5>1. written'[u] = written[u] \/ written'[u] = {}
            BY <4>1
          <5>2. KeysOf(written[v]) \cap KeysOf(written[u]) = {}
            BY DEF FreshOK
          <5>3. QED BY <2>2, <5>1, <5>2
        <4>4. QED BY <2>2, <4>1, <4>2, <4>3 DEF FreshOK
      <3>3. QED BY <3>1, <3>2
    <2>4. QED
      BY <2>1, <2>3 DEF FreshOK
  <1>9. ASSUME ControlPlane \/ Rest PROVE FreshOK'
    <2>1. UNCHANGED txn /\ KeysOf(reports') = KeysOf(reports)
      BY <1>9, ControlPlaneFrame DEF Rest, vars, store
    <2>2. QED BY <2>1 DEF txn, FreshOK
  <1>10. QED
    BY <1>2, <1>3, <1>4, <1>5, <1>6, <1>7, <1>8, <1>9, EndsClose
       DEF Next, WorkerStep, ReadStep, WriteStep, Trouble

\* HeldOnce: the unique constraint catches what the SELECT missed.
LEMMA HeldOnceStep ==
    ASSUME TypeOK, FreshOK, HeldOnce, Next
    PROVE  HeldOnce'
  <1>1. ASSUME NEW w \in Workers, StepOf(w) PROVE HeldOnce'
    <2>1. CASE Commit(w)
      BY <2>1 DEF Commit, FreshOK, HeldOnce, KeysOf
    <2>2. CASE ~Commit(w)
      BY <1>1, <2>2, OnlyCommitStores DEF store, HeldOnce
    <2>3. QED BY <2>1, <2>2
  <1>2. CASE DeleteDomain
    <2>1. \A r \in reports : Unlinked(r).key = r.key
      BY DEF TypeOK, Unlinked, Report
    <2>2. QED
      BY <1>2, <2>1 DEF DeleteDomain, HeldOnce
  <1>3. CASE (ControlPlane /\ ~DeleteDomain) \/ Rest
    <2>1. UNCHANGED reports
      BY <1>3 DEF ControlPlane, AddDomain, MintAddress, DeactivateAddress, ReadReports,
                  ReadAddresses, DeleteRefused, Rest, vars, store
    <2>2. QED BY <2>1 DEF HeldOnce
  <1>4. QED
    BY <1>1, <1>2, <1>3 DEF Next, StepOf

-----------------------------------------------------------------------------
(* The look-ups by recipient.                                              *)

\* A minted address is never active again once it is retired, never comes
\* back once it is deleted, and stays minted.
AddressesAge ==
    /\ minted \subseteq minted'
    /\ \A l \in minted :
          /\ address[l] = NoRow => address'[l] = NoRow
          /\ address[l] # NoRow /\ address[l].state = "retired" /\ address'[l] # NoRow
                => address'[l].state = "retired"
    /\ \A l \in LocalParts \ minted' : address[l] = NoRow => address'[l] = NoRow

LEMMA Ageing ==
    ASSUME TypeOK, Next
    PROVE  AddressesAge
  <1> USE DEF TypeOK, AddressesAge
  <1>1. ASSUME NEW d \in DomainIds, NEW n \in Names, NEW t \in Tenants,
               NEW l \in LocalParts, AddDomain(d, n, t, l)
        PROVE  AddressesAge
    BY <1>1 DEF AddDomain
  <1>2. ASSUME NEW d \in DomainIds, NEW l \in LocalParts, MintAddress(d, l)
        PROVE  AddressesAge
    BY <1>2 DEF MintAddress
  <1>3. ASSUME NEW l \in LocalParts, DeactivateAddress(l) PROVE AddressesAge
    <2>1. \A k \in LocalParts \ {l} : address'[k] = address[k]
      BY <1>3 DEF DeactivateAddress
    <2>2. address'[l].state = "retired" /\ address[l] # NoRow /\ minted' = minted
      BY <1>3 DEF DeactivateAddress, AddressRow
    <2>3. QED BY <2>1, <2>2
  <1>4. ASSUME DeleteDomain PROVE AddressesAge
    <2>1. \A l \in LocalParts : address'[l] \in {address[l], NoRow}
      BY <1>4 DEF DeleteDomain
    <2>2. minted' = minted
      BY <1>4 DEF DeleteDomain
    <2>3. QED BY <2>1, <2>2
  <1>5. ASSUME UNCHANGED <<address, minted>> PROVE AddressesAge
    BY <1>5
  <1>6. ASSUME NEW d \in DomainIds, ReadReports(d) PROVE AddressesAge
    BY <1>5, <1>6 DEF ReadReports, registry
  <1>7. CASE ReadAddresses \/ DeleteRefused \/ Rest
    BY <1>5, <1>7 DEF ReadAddresses, DeleteRefused, Rest, vars, registry
  <1>8. ASSUME NEW w \in Workers, StepOf(w) PROVE AddressesAge
    <2>1. UNCHANGED registry
      BY <1>8, EndsClose
         DEF StepOf, WorkerStep, ReadStep, WriteStep, Trouble, Closes, Receive,
             ResolveAddress, ResolveRetired, LoadDomain, SkipUnknown, ParseError,
             CheckDuplicate, AddReport, Flush, Commit
    <2>2. QED BY <1>5, <2>1 DEF registry
  <1>9. QED
    BY <1>1, <1>2, <1>3, <1>4, <1>6, <1>7, <1>8 DEF Next, ControlPlane, StepOf

LEMMA LookupStep ==
    ASSUME TypeOK, ShapeOK, StatusOK, LookupOK, Next
    PROVE  LookupOK'
  <1> USE IntakeAssumption DEF TypeOK
  <1>0. AddressesAge
    BY Ageing
  <1>1. \A l \in LocalParts \ minted' : address'[l] = NoRow
    BY <1>0 DEF AddressesAge, LookupOK
  <1>2. \A r \in raws' : Rcpt[r.mail] \in LocalParts => Rcpt[r.mail] \in minted'
    <2>1. CASE raws' = raws
      BY <1>0, <2>1 DEF AddressesAge, LookupOK
    <2>2. ASSUME NEW w \in Workers, Commit(w)
          PROVE  \A r \in raws' : Rcpt[r.mail] \in LocalParts => Rcpt[r.mail] \in minted'
      <3>1. Rcpt[job[w]] \in LocalParts => Rcpt[job[w]] \in minted
        BY <2>2 DEF Commit, LookupOK
      <3>2. raws' = raws \cup {[mail |-> job[w], status |-> FinalStatus(w)]}
        BY <2>2 DEF Commit
      <3>3. QED
        BY <1>0, <3>1, <3>2 DEF AddressesAge, LookupOK
    <2>3. QED
      BY <2>1, <2>2, OnlyCommitStores, ControlPlaneFrame
         DEF Next, StepOf, Rest, vars, store
  <1>3. ASSUME NEW v \in Workers, pc'[v] # "idle", Rcpt[job'[v]] \in LocalParts
        PROVE  LET row == address'[Rcpt[job'[v]]] IN
               /\ Rcpt[job'[v]] \in minted'
               /\ pc'[v] = "retired" /\ row # NoRow => row.state = "retired"
               /\ status'[v] = "unrouted" => row = NoRow
    <2> DEFINE l == Rcpt[job[v]]
    <2> DEFINE Known == /\ l \in minted
                        /\ pc[v] = "retired" /\ address[l] # NoRow
                              => address[l].state = "retired"
                        /\ status[v] = "unrouted" => address[l] = NoRow
    <2>1. pc[v] # "idle" /\ l \in LocalParts => Known
      BY DEF LookupOK
    <2>2. CASE pc[v] # "idle" /\ job'[v] = job[v] /\ status'[v] = status[v]
               /\ (pc'[v] = "retired" => pc[v] = "retired")
      BY <1>0, <1>3, <2>1, <2>2 DEF AddressesAge
    <2>3. CASE SameTxn(v)
      BY <1>3, <2>2, <2>3 DEF SameTxn
    <2>4. ASSUME NEW m \in Mail, Receive(v, m)
          PROVE  /\ Rcpt[job'[v]] \in minted' /\ pc'[v] = "resolve"
                 /\ status'[v] = "routed"
      <3>1. Rcpt[m] \in LocalParts => Rcpt[m] \in minted
        BY <2>4 DEF Receive, Sendable
      <3>2. job'[v] = m /\ pc'[v] = "resolve" /\ status'[v] = status[v] /\ pc[v] = "idle"
        BY <2>4 DEF Receive
      <3>3. QED
        BY <1>0, <1>3, <3>1, <3>2 DEF AddressesAge, StatusOK
    <2>5. CASE ResolveAddress(v)
      <3>1. /\ job'[v] = job[v] /\ status'[v] = "routed" /\ pc[v] = "resolve"
            /\ address' = address
            /\ pc'[v] = "retired" => ~HasAddress(l, "active")
        BY <2>5 DEF ResolveAddress, StatusOK, registry
      <3>2. l \in minted /\ l \in LocalParts
        BY <1>3, <2>1, <3>1
      <3>3. pc'[v] = "retired" /\ address[l] # NoRow => address[l].state = "retired"
        BY <3>1, <3>2 DEF HasAddress, AddressRow
      <3>4. QED
        BY <1>0, <3>1, <3>2, <3>3 DEF AddressesAge
    <2>6. CASE ResolveRetired(v)
      <3>1. /\ job'[v] = job[v] /\ pc[v] = "retired" /\ pc'[v] # "retired"
            /\ address' = address
            /\ status'[v] = "unrouted" => ~HasAddress(l, "retired")
        BY <2>6 DEF ResolveRetired, registry
      <3>2. l \in LocalParts /\ Known
        BY <1>3, <2>1, <3>1
      <3>3. status'[v] = "unrouted" => address[l] = NoRow
        BY <3>1, <3>2 DEF HasAddress
      <3>4. QED
        BY <1>0, <3>1, <3>2, <3>3 DEF AddressesAge
    <2>7. CASE LoadDomain(v) \/ SkipUnknown(v)
      BY <2>2, <2>7 DEF LoadDomain, SkipUnknown
    <2>8. CASE CheckDuplicate(v) \/ AddReport(v)
      BY <2>2, <2>8 DEF CheckDuplicate, AddReport
    <2>9. CASE Flush(v) \/ Commit(v)
      BY <2>2, <2>9 DEF Flush, Flushing, Commit
    <2>10. CASE ParseError(v)
      <3>1. /\ job'[v] = job[v] /\ pc'[v] = "docs" /\ pc[v] = "docs"
            /\ status'[v] = "failed"
        BY <2>10 DEF ParseError
      <3>2. QED
        BY <1>0, <1>3, <2>1, <3>1 DEF AddressesAge
    <2>11. CASE Closes(v)
      BY <1>3, <2>11 DEF Closes, Release
    <2>12. QED
      BY <2>3, <2>4, <2>5, <2>6, <2>7, <2>8, <2>9, <2>10, <2>11, MineOrNot, EndsClose
         DEF StepOf, WorkerStep, ReadStep, WriteStep, Trouble
  <1>4. QED
    BY <1>1, <1>2, <1>3 DEF LookupOK

-----------------------------------------------------------------------------
(* Links to domains (PostgreSQL).                                          *)

\* A domain keeps its tenant, and a new one gets an id never used before.
DomainsAge ==
    /\ lastId <= lastId'
    /\ \A d \in DomainIds : domain'[d] # NoRow /\ domain'[d] # domain[d] =>
          d > lastId /\ d <= lastId'

LEMMA DomainAgeing ==
    ASSUME TypeOK, Next, Backend = "postgresql"
    PROVE  DomainsAge
  <1> USE IntakeAssumption DEF TypeOK, DomainsAge, DomainIds
  <1>1. ASSUME NEW d \in DomainIds, NEW n \in Names, NEW t \in Tenants,
               NEW l \in LocalParts, AddDomain(d, n, t, l)
        PROVE  DomainsAge
    <2>1. d = lastId + 1 /\ lastId' = d
      BY <1>1 DEF AddDomain, IsNextId
    <2>2. \A e \in DomainIds \ {d} : domain'[e] = domain[e]
      BY <1>1 DEF AddDomain
    <2>3. QED
      BY <2>1, <2>2
  <1>2. ASSUME DeleteDomain PROVE DomainsAge
    BY <1>2 DEF DeleteDomain
  <1>3. CASE UNCHANGED <<domain, lastId>>
    BY <1>3
  <1>4. ASSUME NEW w \in Workers, StepOf(w) PROVE UNCHANGED registry
    BY <1>4, EndsClose
       DEF StepOf, WorkerStep, ReadStep, WriteStep, Trouble, Closes, Receive,
           ResolveAddress, ResolveRetired, LoadDomain, SkipUnknown, ParseError,
           CheckDuplicate, AddReport, Flush, Commit
  <1>5. QED
    BY <1>1, <1>2, <1>3, <1>4
       DEF Next, ControlPlane, StepOf, MintAddress, DeactivateAddress, ReadReports,
           ReadAddresses, DeleteRefused, Rest, vars, registry

\* Only delete_domain removes a domain.
LEMMA DomainsStay ==
    ASSUME TypeOK, Next, ~DeleteDomain, NEW d \in DomainIds, domain[d] # NoRow
    PROVE  domain'[d] # NoRow
  <1>1. ASSUME NEW e \in DomainIds, NEW n \in Names, NEW t \in Tenants,
               NEW l \in LocalParts, AddDomain(e, n, t, l)
        PROVE  domain'[d] # NoRow
    BY <1>1, IntakeAssumption DEF TypeOK, AddDomain
  <1>2. ASSUME NEW w \in Workers, StepOf(w) PROVE UNCHANGED registry
    BY <1>2, EndsClose
       DEF StepOf, WorkerStep, ReadStep, WriteStep, Trouble, Closes, Receive,
           ResolveAddress, ResolveRetired, LoadDomain, SkipUnknown, ParseError,
           CheckDuplicate, AddReport, Flush, Commit
  <1>3. QED
    BY <1>1, <1>2
       DEF Next, ControlPlane, StepOf, MintAddress, DeactivateAddress, ReadReports,
           ReadAddresses, DeleteRefused, Rest, vars, registry

LEMMA LinksStep ==
    ASSUME TypeOK, ShapeOK, LinksOK, Next
    PROVE  LinksOK'
  <1> SUFFICES ASSUME Backend = "postgresql" PROVE LinksOK'
    BY DEF LinksOK
  <1> USE IntakeAssumption DEF TypeOK, DomainIds
  <1> DEFINE Live(r) == r.domain # NoRow => domain[r.domain] # NoRow /\ StillRight(r)
  <1> DEFINE Attributed(x) == x.domain \in DomainIds \cup {NoRow}
  <1>1. DomainsAge /\ TypeOK'
    BY DomainAgeing, TypeStep
  <1>2. \A d \in DomainIds : domain'[d] # NoRow => d <= lastId'
    <2>1. \A d \in DomainIds : domain[d] # NoRow => d <= lastId
      BY DEF LinksOK
    <2>2. QED
      BY <1>1, <2>1 DEF DomainsAge
  <1>3. ASSUME NEW x, Attributed(x), StillRight(x)
        PROVE  /\ x.domain # NoRow => x.domain <= lastId'
               /\ x.domain # NoRow /\ domain'[x.domain] # NoRow =>
                     domain'[x.domain].tenant = x.tenant
    <2>1. CASE x.domain = NoRow
      BY <2>1
    <2>2. CASE x.domain \in DomainIds
      <3>1. x.domain <= lastId /\ ~(x.domain > lastId)
        BY <1>3, <2>2 DEF StillRight
      <3>2. domain'[x.domain] # NoRow => domain'[x.domain] = domain[x.domain]
        BY <1>1, <2>2, <3>1 DEF DomainsAge
      <3>3. QED
        BY <1>1, <1>3, <2>2, <3>1, <3>2 DEF DomainsAge, StillRight
    <2>3. QED BY <1>3, <2>1, <2>2
  <1>4. ASSUME NEW v \in Workers
        PROVE  /\ StillRight(route'[v])
               /\ pending'[v] # NoRow => StillRight(pending'[v])
               /\ \A r \in written'[v] : Live(r)
    <2>1. /\ StillRight(route[v])
          /\ pending[v] # NoRow => StillRight(pending[v])
          /\ \A r \in written[v] : Live(r)
      BY DEF LinksOK
    <2>2. CASE SameTxn(v)
      BY <2>1, <2>2 DEF SameTxn
    <2>3. ASSUME NEW m \in Mail, Receive(v, m)
          PROVE  route'[v] = route[v] /\ pending'[v] = pending[v] /\ written'[v] = written[v]
      BY <2>3 DEF Receive
    <2>4. CASE ResolveAddress(v) \/ ResolveRetired(v) \/ SkipUnknown(v) \/ ParseError(v)
      BY <2>1, <2>4 DEF ResolveAddress, ResolveRetired, SkipUnknown, ParseError
    <2>5. CASE CheckDuplicate(v)
      BY <2>1, <2>5 DEF CheckDuplicate
    <2>6. CASE LoadDomain(v)
      <3>1. /\ route'[v] = [tenant |-> domain[known[v]].tenant, domain |-> known[v]]
            /\ known[v] \in DomainIds /\ domain[known[v]] # NoRow
            /\ pending'[v] = pending[v] /\ written'[v] = written[v]
        BY <2>6 DEF LoadDomain, ShapeOK
      <3>2. known[v] <= lastId
        BY <3>1 DEF LinksOK
      <3>3. QED
        BY <2>1, <3>1, <3>2 DEF StillRight
    <2>7. CASE AddReport(v)
      <3>1. StillRight(Attribution(v, CurrentDoc(v)))
        BY <2>1 DEF Attribution, DomainNamed, StillRight, LinksOK
      <3>2. /\ pending'[v].tenant = Attribution(v, CurrentDoc(v)).tenant
            /\ pending'[v].domain = Attribution(v, CurrentDoc(v)).domain
            /\ route'[v] = route[v] /\ written'[v] = written[v]
        BY <2>7 DEF AddReport
      <3>3. QED
        BY <2>1, <3>1, <3>2 DEF StillRight
    <2>8. CASE Flush(v)
      <3>1. /\ written'[v] = written[v] \cup {pending[v]} /\ pending'[v] = NoRow
            /\ route'[v] = route[v] /\ pending[v] # NoRow
            /\ pending[v].domain # NoRow => domain[pending[v].domain] # NoRow
        BY <2>8 DEF Flush, Flushing, ForeignKeyHolds
      <3>2. QED
        BY <2>1, <3>1
    <2>9. CASE Commit(v)
      BY <2>1, <2>9 DEF Commit
    <2>10. CASE Closes(v)
      <3>1. route'[v] = Quarantine /\ pending'[v] = NoRow /\ written'[v] = {}
        BY <2>10 DEF Closes, Release
      <3>2. QED
        BY <3>1 DEF Quarantine, StillRight
    <2>11. QED
      BY <2>1, <2>2, <2>3, <2>4, <2>5, <2>6, <2>7, <2>8, <2>9, <2>10, MineOrNot, EndsClose
         DEF StepOf, WorkerStep, ReadStep, WriteStep, Trouble
  <1>6. ASSUME NEW v \in Workers
        PROVE  /\ StillRight(route[v])'
               /\ pending'[v] # NoRow => StillRight(pending[v])'
               /\ \A r \in written'[v] : StillRight(r)'
    <2>1. Attributed(route'[v]) /\ (pending'[v] # NoRow => Attributed(pending'[v]))
      BY <1>1 DEF Report
    <2>2. \A r \in written'[v] : Attributed(r)
      BY <1>1 DEF Report
    <2>3. \A r \in written'[v] : StillRight(r)
      BY <1>4 DEF StillRight
    <2>4. QED
      BY <1>3, <1>4, <2>1, <2>2, <2>3 DEF StillRight
  <1>7. ASSUME NEW v \in Workers, NEW r \in written'[v], r.domain # NoRow
        PROVE  domain'[r.domain] # NoRow
    <2>1. Live(r) /\ r.domain \in DomainIds
      BY <1>1, <1>4, <1>7 DEF Report
    <2>2. CASE DeleteDomain
      <3>1. written' = written /\ ~DomainLocked
        BY <2>2 DEF DeleteDomain, txn
      <3>2. r.domain # deletion.domain
        BY <1>7, <3>1 DEF DomainLocked
      <3>3. QED
        BY <1>7, <2>1, <2>2, <3>2 DEF DeleteDomain
    <2>3. CASE ~DeleteDomain
      BY <1>7, <2>1, <2>3, DomainsStay
    <2>4. QED BY <2>2, <2>3
  <1>8. ASSUME NEW r \in reports', r.domain # NoRow
        PROVE  domain'[r.domain] # NoRow /\ StillRight(r)'
    <2>1. r.domain \in DomainIds
      BY <1>1, <1>8 DEF Report
    <2>2. CASE DeleteDomain
      <3>1. PICK s \in reports : r = Unlinked(s)
        BY <2>2 DEF DeleteDomain
      <3>2. s \in Report /\ ~StillReferenced
        BY <2>2 DEF DeleteDomain
      <3>3. r = s /\ r.domain # deletion.domain
        BY <1>8, <3>1, <3>2 DEF Unlinked, StillReferenced, Report
      <3>4. Live(r)
        BY <3>3 DEF LinksOK
      <3>5. domain'[r.domain] # NoRow
        BY <1>8, <2>1, <2>2, <3>3, <3>4 DEF DeleteDomain
      <3>6. QED
        BY <1>3, <1>8, <2>1, <3>4, <3>5 DEF StillRight
    <2>3. CASE ~DeleteDomain
      <3>1. r \in reports \/ \E w \in Workers : r \in written[w]
        BY <2>3, OnlyCommitStores
           DEF Next, StepOf, Commit, store, ControlPlane, AddDomain, MintAddress,
               DeactivateAddress, ReadReports, ReadAddresses, DeleteRefused, Rest, vars
      <3>2. Live(r)
        BY <3>1 DEF LinksOK
      <3>3. domain'[r.domain] # NoRow
        BY <1>8, <2>1, <2>3, <3>2, DomainsStay
      <3>4. QED
        BY <1>3, <1>8, <2>1, <3>2, <3>3 DEF StillRight
    <2>4. QED BY <2>2, <2>3
  <1>9. QED
    BY <1>2, <1>6, <1>7, <1>8 DEF LinksOK

-----------------------------------------------------------------------------
(* What a commit stores.                                                   *)

\* When the documents have all been looked at (or a parser has raised), the
\* rows written are exactly the readable reports that nobody held.
LEMMA CommitFacts ==
    ASSUME TypeOK, ShapeOK, StatusOK, ScanOK, OwnRowsOK, FreshOK,
           NEW w \in Workers, Commit(w)
    PROVE  /\ job[w] \in Mail
           /\ ReadableKeys(job[w]) \subseteq KeysOf(reports) \cup KeysOf(written[w])
           /\ KeysOf(written[w]) \subseteq ReadableKeys(job[w])
           /\ status[w] = "failed" <=> Broken(job[w])
           /\ ~Broken(job[w]) => (Understood(w) <=> ReadableKeys(job[w]) # {})
           /\ \A r \in written[w] : r.mail = job[w]
  <1> USE IntakeAssumption DEF TypeOK
  <1> DEFINE docs == Docs[job[w]]
  <1>1. /\ job[w] \in Mail /\ pc[w] = "docs" /\ pending[w] = NoRow /\ ~MoreDocs(w)
        /\ ScanOf(w) /\ OwnRowsOf(w) /\ OwnRows(w) = written[w]
    BY DEF Commit, ShapeOK, ScanOK, OwnRowsOK, OwnRows
  <1>2. Len(docs) \in Nat /\ next[w] \in Nat \ {0}
    BY <1>1
  <1>3. \A i \in 1 .. next[w] - 1 :
           /\ i \in 1 .. Len(docs)
           /\ docs[i].kind # "broken"
           /\ docs[i].kind = "report" =>
                 docs[i].key \in KeysOf(reports) \cup KeysOf(written[w])
    BY <1>1, <1>2 DEF ScanOf
  <1>4. \A i \in 1 .. next[w] - 1 : docs[i].kind = "report" => i \in Readable(job[w])
    BY <1>2, <1>3 DEF Readable
  <1>5. Readable(job[w]) \subseteq 1 .. next[w] - 1
    <2>1. ASSUME NEW i \in Readable(job[w]) PROVE i <= next[w] - 1
      <3>1. CASE status[w] = "failed"
        <4>1. next[w] \in 1 .. Len(docs) /\ docs[next[w]].kind = "broken"
          BY <1>1, <1>2, <3>1 DEF ScanOf
        <4>2. QED
          BY <1>2, <4>1 DEF Readable
      <3>2. CASE status[w] # "failed"
        <4>1. Len(docs) < next[w]
          BY <1>1, <1>2, <3>2 DEF MoreDocs
        <4>2. QED
          BY <1>2, <4>1 DEF Readable
      <3>3. QED BY <3>1, <3>2
    <2>2. QED
      BY <1>2, <2>1 DEF Readable
  <1>6. ReadableKeys(job[w]) \subseteq KeysOf(reports) \cup KeysOf(written[w])
    <2>1. ASSUME NEW i \in Readable(job[w])
          PROVE  docs[i].key \in KeysOf(reports) \cup KeysOf(written[w])
      <3>1. i \in 1 .. next[w] - 1 /\ docs[i].kind = "report"
        BY <1>5 DEF Readable
      <3>2. QED BY <1>3, <3>1
    <2>2. QED
      BY <2>1 DEF ReadableKeys
  <1>7. KeysOf(written[w]) \subseteq ReadableKeys(job[w])
    <2>1. ASSUME NEW r \in written[w] PROVE r.key \in ReadableKeys(job[w])
      <3>1. PICK i \in 1 .. next[w] - 1 : docs[i].kind = "report" /\ docs[i].key = r.key
        BY <1>1 DEF OwnRowsOf
      <3>2. i \in Readable(job[w])
        BY <1>4, <3>1
      <3>3. QED
        BY <3>1, <3>2 DEF ReadableKeys
    <2>2. QED
      BY <2>1 DEF KeysOf
  <1>8. status[w] = "failed" <=> Broken(job[w])
    <2>1. CASE status[w] = "failed"
      BY <1>1, <1>2, <2>1 DEF ScanOf, Broken
    <2>2. CASE status[w] # "failed"
      <3>1. 1 .. Len(docs) \subseteq 1 .. next[w] - 1
        BY <1>1, <1>2, <2>2 DEF MoreDocs
      <3>2. QED
        BY <1>3, <2>2, <3>1 DEF Broken
    <2>3. QED BY <2>1, <2>2
  <1>9. Understood(w) <=> ReadableKeys(job[w]) # {}
    <2>1. Understood(w) <=> Readable(job[w]) # {}
      <3>1. ASSUME Understood(w) PROVE Readable(job[w]) # {}
        BY <1>4, <3>1 DEF Understood
      <3>2. ASSUME Readable(job[w]) # {} PROVE Understood(w)
        <4>1. PICK i \in Readable(job[w]) : TRUE
          BY <3>2
        <4>2. i \in 1 .. next[w] - 1 /\ docs[i].kind = "report"
          BY <1>5, <4>1 DEF Readable
        <4>3. QED
          BY <4>2 DEF Understood
      <3>3. QED BY <3>1, <3>2
    <2>2. ReadableKeys(job[w]) # {} <=> Readable(job[w]) # {}
      <3>1. ASSUME NEW k \in ReadableKeys(job[w]) PROVE Readable(job[w]) # {}
        BY <3>1 DEF ReadableKeys
      <3>2. ASSUME NEW i \in Readable(job[w]) PROVE ReadableKeys(job[w]) # {}
        <4>1. docs[i].key \in ReadableKeys(job[w])
          BY DEF ReadableKeys
        <4>2. QED BY <4>1
      <3>3. QED BY <3>1, <3>2
    <2>3. QED
      BY <2>1, <2>2
  <1>10. QED
    BY <1>1, <1>6, <1>7, <1>8, <1>9 DEF OwnRowsOf

LEMMA CommitEffect ==
    ASSUME NEW w \in Workers, Commit(w)
    PROVE  /\ raws' = raws \cup {[mail |-> job[w], status |-> FinalStatus(w)]}
           /\ reports' = reports \cup written[w]
           /\ KeysOf(reports') = KeysOf(reports) \cup KeysOf(written[w])
           /\ delivered' = delivered
  BY DEF Commit, senders, KeysOf

\* Outside Commit, raws stays and every report stays, perhaps unlinked.
LEMMA StoreStays ==
    ASSUME TypeOK, Next, \A w \in Workers : ~Commit(w)
    PROVE  /\ raws' = raws
           /\ KeysOf(reports') = KeysOf(reports)
           /\ \A r \in reports : \E s \in reports' :
                 /\ s.key = r.key /\ s.tenant = r.tenant /\ s.mail = r.mail
                 /\ s.domain \in {r.domain, NoRow}
  <1>1. CASE ControlPlane
    BY <1>1, ControlPlaneFrame
  <1>2. CASE ~ControlPlane
    <2>1. raws' = raws /\ reports' = reports
      BY <1>2, OnlyCommitStores DEF Next, StepOf, Rest, vars, store
    <2>2. QED BY <2>1
  <1>3. QED BY <1>1, <1>2

LEMMA FiledStep ==
    ASSUME IInv, Next
    PROVE  FiledMeansHeld' /\ RoutedBroughtReports'
  <1> USE DEF IInv
  <1>1. ASSUME NEW w \in Workers, Commit(w)
        PROVE  FiledMeansHeld' /\ RoutedBroughtReports'
    <2> DEFINE m == job[w]
    <2>1. ReadableKeys(m) \subseteq KeysOf(reports')
      BY <1>1, CommitFacts, CommitEffect
    <2>2. FinalStatus(w) # "failed" => ~Broken(m)
      BY <1>1, CommitFacts DEF FinalStatus
    <2>3. FinalStatus(w) = "routed" => \E s \in written[w] : s.mail = m
      BY <1>1, CommitFacts DEF FinalStatus
    <2>4. FiledMeansHeld'
      BY <1>1, <2>1, <2>2, CommitEffect DEF FiledMeansHeld
    <2>5. RoutedBroughtReports'
      BY <1>1, <2>3, CommitEffect DEF RoutedBroughtReports
    <2>6. QED BY <2>4, <2>5
  <1>2. ASSUME \A w \in Workers : ~Commit(w)
        PROVE  FiledMeansHeld' /\ RoutedBroughtReports'
    BY <1>2, StoreStays DEF FiledMeansHeld, RoutedBroughtReports
  <1>3. QED BY <1>1, <1>2

LEMMA ReplyStep ==
    ASSUME IInv, Next
    PROVE  ReplyOK' /\ NothingAckedIsLost'
  <1> USE DEF IInv
  <1>1. raws \subseteq raws'
    BY StoreStays, CommitEffect
  <1>2. ASSUME NEW v \in Workers, pc'[v] = "reply"
        PROVE  \E r \in raws' : r.mail = job'[v]
    <2>1. CASE SameTxn(v)
      BY <1>1, <1>2, <2>1 DEF SameTxn, ReplyOK
    <2>2. CASE Commit(v)
      <3>1. job'[v] = job[v]
        BY <2>2 DEF Commit
      <3>2. QED
        <4>1. [mail |-> job[v], status |-> FinalStatus(v)] \in raws'
          BY <2>2, CommitEffect
        <4>2. QED
          BY <3>1, <4>1
    <2>3. CASE ~SameTxn(v) /\ ~Commit(v)
      BY <1>2, <2>3, MineOrNot, EndsClose
         DEF TypeOK, StepOf, WorkerStep, ReadStep, WriteStep, Trouble, Closes, Release,
             Receive, ResolveAddress, ResolveRetired, LoadDomain, SkipUnknown,
             ParseError, CheckDuplicate, AddReport, Flush, Flushing
    <2>4. QED BY <2>1, <2>2, <2>3
  <1>3. ASSUME NEW m \in delivered', m \notin delivered
        PROVE  \E r \in raws : r.mail = m
    <2>1. PICK w \in Workers : Reply(w)
      BY <1>3, EndsClose, ControlPlaneFrame
         DEF Next, WorkerStep, ReadStep, WriteStep, Trouble, Rest, vars, senders,
             Rollback, DomainGone, FlushFails, DeadlockAbort, LoseReply, Fail, Receive,
             ResolveAddress, ResolveRetired, LoadDomain, SkipUnknown, ParseError,
             CheckDuplicate, AddReport, Flush, Commit
    <2>2. m = job[w] /\ pc[w] = "reply"
      BY <1>3, <2>1 DEF Reply
    <2>3. QED
      BY <2>2 DEF ReplyOK
  <1>4. QED
    BY <1>1, <1>2, <1>3 DEF ReplyOK, NothingAckedIsLost

LEMMA NeverQuarantinedStep ==
    ASSUME IInv, Next
    PROVE  MintedNeverQuarantined'
  <1> USE DEF IInv
  <1>1. ASSUME NEW r \in raws', r.status = "unrouted", Rcpt[r.mail] \in LocalParts
        PROVE  address'[Rcpt[r.mail]] = NoRow
    <2> DEFINE l == Rcpt[r.mail]
    <2>1. l \in minted /\ address[l] = NoRow
      <3>1. CASE r \in raws
        BY <1>1, <3>1 DEF LookupOK, MintedNeverQuarantined
      <3>2. ASSUME NEW w \in Workers, Commit(w), r \notin raws
            PROVE  l \in minted /\ address[l] = NoRow
        <4>1. r = [mail |-> job[w], status |-> FinalStatus(w)]
          BY <3>2, CommitEffect
        <4>2. status[w] = "unrouted" /\ r.mail = job[w]
          BY <1>1, <4>1 DEF FinalStatus
        <4>3. pc[w] # "idle"
          BY <3>2 DEF Commit
        <4>4. QED
          BY <1>1, <4>2, <4>3 DEF LookupOK
      <3>3. QED BY <3>1, <3>2, StoreStays
    <2>2. QED
      BY <2>1, Ageing DEF AddressesAge
  <1>2. QED
    BY <1>1 DEF MintedNeverQuarantined

-----------------------------------------------------------------------------
(* The theorems.                                                           *)

LEMMA StutterIInv ==
    ASSUME IInv, UNCHANGED vars
    PROVE  IInv'
  <1> USE DEF vars, registry, store, senders, txn
  <1>1. TypeOK'
    BY DEF IInv, TypeOK
  <1>2. ShapeOK' /\ StatusOK'
    BY DEF IInv, ShapeOK, StatusOK, MoreDocs, CurrentDoc, KeysOf
  <1>3. ScanOK'
    BY DEF IInv, ScanOK, ScanOf, OwnRows, KeysOf
  <1>4. OwnRowsOK' /\ FreshOK'
    <2>1. OwnRowsOK'
      BY DEF IInv, OwnRowsOK, OwnRowsOf, OwnRows
    <2>2. FreshOK'
      BY DEF IInv, FreshOK, KeysOf
    <2>3. QED BY <2>1, <2>2
  <1>5. ReplyOK' /\ LookupOK'
    BY DEF IInv, ReplyOK, LookupOK
  <1>6. LinksOK'
    BY DEF IInv, LinksOK, StillRight
  <1>7. NothingAckedIsLost' /\ FiledMeansHeld' /\ HeldOnce'
    BY DEF IInv, NothingAckedIsLost, FiledMeansHeld, HeldOnce, KeysOf
  <1>8. MintedNeverQuarantined' /\ RoutedBroughtReports'
    BY DEF IInv, MintedNeverQuarantined, RoutedBroughtReports
  <1>9. QED
    BY <1>1, <1>2, <1>3, <1>4, <1>5, <1>6, <1>7, <1>8 DEF IInv

LEMMA StepIInv ==
    ASSUME IInv, Next
    PROVE  IInv'
  BY TypeStep, ShapeStep, ScanStep, StatusStep, OwnRowsStep, FreshStep, ReplyStep,
     LookupStep, LinksStep, FiledStep, HeldOnceStep, NeverQuarantinedStep
     DEF IInv

\* The inductive invariant holds in every reachable state.
THEOREM Invariance == Spec => []IInv
  <1>1. Init => IInv
    BY InitIInv
  <1>2. IInv /\ [Next]_vars => IInv'
    BY StepIInv, StutterIInv
  <1>3. QED
    BY <1>1, <1>2, PTL DEF Spec

\* Every variable keeps its type, in particular the rows of every table.
THEOREM TypeCorrect == Spec => []TypeOK
  <1>1. IInv => TypeOK
    BY DEF IInv
  <1>2. QED BY <1>1, Invariance, PTL

\* A message answered with 250 is stored, whatever crashed or was lost.
THEOREM NothingIsLost == Spec => []NothingAckedIsLost
  <1>1. IInv => NothingAckedIsLost
    BY DEF IInv
  <1>2. QED BY <1>1, Invariance, PTL

\* A stored message has all its readable reports held.
THEOREM FilingIsComplete == Spec => []FiledMeansHeld
  <1>1. IInv => FiledMeansHeld
    BY DEF IInv
  <1>2. QED BY <1>1, Invariance, PTL

\* No report is counted twice, however many copies are processed at once.
THEOREM NothingIsCountedTwice == Spec => []HeldOnce
  <1>1. IInv => HeldOnce
    BY DEF IInv
  <1>2. QED BY <1>1, Invariance, PTL

\* A rotation never sends mail for a minted address to the quarantine.
THEOREM RotationLosesNothing == Spec => []MintedNeverQuarantined
  <1>1. IInv => MintedNeverQuarantined
    BY DEF IInv
  <1>2. QED BY <1>1, Invariance, PTL

\* "routed" is only ever said of a message that brought a report.
THEOREM RoutedIsEarned == Spec => []RoutedBroughtReports
  <1>1. IInv => RoutedBroughtReports
    BY DEF IInv
  <1>2. QED BY <1>1, Invariance, PTL

\* On PostgreSQL a report is linked to a live domain of its own tenant.
THEOREM LinksAreSound ==
    Spec => [](Backend = "postgresql" => LinkedToLiveDomain)
  <1>1. IInv => (Backend = "postgresql" => LinkedToLiveDomain)
    BY DEF IInv, LinksOK, StillRight, LinkedToLiveDomain
  <1>2. QED BY <1>1, Invariance, PTL

\* A committed report is never rewritten, only unlinked from its domain.
THEOREM HistoryStays == Spec => HistoryIsKept
  <1> DEFINE Kept == \A r \in reports : \E s \in reports' :
                       /\ s.key = r.key /\ s.tenant = r.tenant /\ s.mail = r.mail
                       /\ s.domain \in {r.domain, NoRow}
  <1>1. IInv /\ [Next]_vars => [Kept]_vars
    <2>1. ASSUME IInv, Next PROVE Kept
      BY <2>1, StoreStays, CommitEffect DEF IInv
    <2>2. QED BY <2>1
  <1>2. QED
    BY <1>1, Invariance, PTL DEF Spec, HistoryIsKept

\* Each message is filed as if it were the only one being processed: intake
\* implements the ledger, commit by commit and answer by answer.
THEOREM IntakeIsSerial == Spec => ImplementsLedger
  <1>1. Init => Ledger!Init
    BY DEF Init, Ledger!Init, KeysOf
  <1>2. IInv /\ Next => [Ledger!Next]_(Ledger!vars)
    <2> SUFFICES ASSUME IInv, Next PROVE [Ledger!Next]_(Ledger!vars)
      OBVIOUS
    <2>1. ASSUME NEW w \in Workers, Commit(w) PROVE Ledger!Next
      <3> DEFINE m == job[w]
      <3>1. m \in Mail
        BY <2>1, CommitFacts DEF IInv
      <3>2. FinalStatus(w) \in Ledger!Outcomes(m)
        <4>1. CASE Broken(m)
          BY <2>1, <3>1, <4>1, CommitFacts DEF IInv, FinalStatus, Ledger!Outcomes
        <4>2. CASE ~Broken(m)
          <5>1. status[w] \in {"routed", "retired", "unrouted"}
            BY <2>1, <4>2, CommitFacts DEF IInv, TypeOK, Statuses, StatusOK
          <5>2. written[w] = {} <=> ReadableKeys(m) \subseteq KeysOf(reports)
            <6>1. /\ ReadableKeys(m) \subseteq KeysOf(reports) \cup KeysOf(written[w])
                  /\ KeysOf(written[w]) \subseteq ReadableKeys(m)
                  /\ KeysOf(written[w]) \cap KeysOf(reports) = {}
              BY <2>1, CommitFacts DEF IInv, FreshOK
            <6>2. written[w] = {} <=> KeysOf(written[w]) = {}
              <7>1. ASSUME NEW r \in written[w] PROVE r.key \in KeysOf(written[w])
                BY DEF KeysOf
              <7>2. written[w] = {} => KeysOf(written[w]) = {}
                BY DEF KeysOf
              <7>3. QED BY <7>1, <7>2
            <6>3. QED BY <6>1, <6>2
          <5>3. Understood(w) <=> ReadableKeys(m) # {}
            BY <2>1, <4>2, CommitFacts DEF IInv
          <5>4. QED
            BY <3>1, <4>2, <5>1, <5>2, <5>3 DEF FinalStatus, Ledger!Outcomes
        <4>3. QED BY <4>1, <4>2
      <3>3. KeysOf(reports') = KeysOf(reports) \cup ReadableKeys(m)
        BY <2>1, CommitFacts, CommitEffect DEF IInv
      <3>4. Ledger!File(m)
        BY <2>1, <3>1, <3>2, <3>3, CommitEffect DEF Ledger!File
      <3>5. QED
        BY <3>1, <3>4 DEF Ledger!Next
    <2>2. ASSUME NEW w \in Workers, Reply(w) PROVE Ledger!Next
      <3>1. /\ job[w] \in Mail /\ delivered' = delivered \cup {job[w]}
            /\ \E r \in raws : r.mail = job[w]
            /\ raws' = raws /\ KeysOf(reports') = KeysOf(reports)
        BY <2>2 DEF Reply, IInv, TypeOK, ShapeOK, ReplyOK, store, KeysOf
      <3>2. QED
        BY <3>1 DEF Ledger!Next, Ledger!Acknowledge
    <2>3. ASSUME \A w \in Workers : ~Commit(w) /\ ~Reply(w)
          PROVE  UNCHANGED Ledger!vars
      <3>1. delivered' = delivered
        BY <2>3, EndsClose, ControlPlaneFrame
           DEF IInv, Next, WorkerStep, ReadStep, WriteStep, Trouble, Rest, vars,
               senders, Rollback, DomainGone, FlushFails, DeadlockAbort, LoseReply,
               Fail, Receive, ResolveAddress, ResolveRetired, LoadDomain, SkipUnknown,
               ParseError, CheckDuplicate, AddReport, Flush
      <3>2. QED
        BY <2>3, <3>1, StoreStays DEF IInv, Ledger!vars
    <2>4. QED BY <2>1, <2>2, <2>3
  <1>3. UNCHANGED vars => UNCHANGED Ledger!vars
    BY DEF vars, store, senders, Ledger!vars, KeysOf
  <1>4. QED
    BY <1>1, <1>2, <1>3, Invariance, PTL DEF Spec, ImplementsLedger, Ledger!Spec
=============================================================================
