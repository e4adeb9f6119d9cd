----------------------------- MODULE IntakeInv ------------------------------
(***************************************************************************)
(* Why the properties of Intake hold: what every open transaction knows    *)
(* about the documents it has looked at, the rows it has written and the   *)
(* rows it has read.  Intake's properties are not inductive by themselves; *)
(* IInv is.                                                                *)
(***************************************************************************)
EXTENDS Intake

\* Where a transaction is.
ShapeOK ==
    \A w \in Workers :
        /\ pc[w] = "idle" <=> job[w] = NoRow
        /\ pc[w] = "domain" => known[w] \in DomainIds
        /\ pc[w] = "store" => /\ MoreDocs(w)
                              /\ CurrentDoc(w).kind = "report"
                              /\ pending[w] = NoRow
                              /\ CurrentDoc(w).key \notin KeysOf(written[w])
        /\ pc[w] \notin {"docs", "store"} => pending[w] = NoRow /\ written[w] = {}
        /\ pc[w] \in {"idle", "resolve", "retired", "domain"} => next[w] = 1

OwnRows(w) == written[w] \cup (IF pending[w] = NoRow THEN {} ELSE {pending[w]})

\* The documents before next have been understood or skipped: none of them
\* was broken, and each report among them is held or is one of our own rows.
ScanOf(w) ==
    pc[w] \in {"docs", "store"} =>
        /\ next[w] <= Len(Docs[job[w]]) + 1
        /\ \A i \in 1 .. next[w] - 1 :
              /\ Docs[job[w]][i].kind # "broken"
              /\ Docs[job[w]][i].kind = "report" =>
                    Docs[job[w]][i].key \in KeysOf(reports) \cup KeysOf(OwnRows(w))
        /\ status[w] = "failed" =>
              /\ next[w] <= Len(Docs[job[w]])
              /\ Docs[job[w]][next[w]].kind = "broken"

ScanOK == \A w \in Workers : ScanOf(w)

\* Only a parser error makes a message failed before its outcome is decided.
StatusOK ==
    \A w \in Workers :
        /\ pc[w] \in {"idle", "resolve", "retired"} => status[w] = "routed"
        /\ status[w] # "duplicate"
        /\ status[w] = "failed" => pc[w] \in {"docs", "reply"}

\* Our own rows come from documents we have read.
OwnRowsOf(w) ==
    \A r \in OwnRows(w) :
        /\ r.mail = job[w]
        /\ \E i \in 1 .. next[w] - 1 :
              Docs[job[w]][i].kind = "report" /\ Docs[job[w]][i].key = r.key

OwnRowsOK == \A w \in Workers : OwnRowsOf(w)

\* A written row has a key that nobody else holds.
FreshOK ==
    \A w \in Workers :
        /\ KeysOf(written[w]) \cap KeysOf(reports) = {}
        /\ \A r, s \in written[w] : r.key = s.key => r = s
        /\ pending[w] # NoRow => pending[w].key \notin KeysOf(written[w])
        /\ \A v \in Workers \ {w} : KeysOf(written[w]) \cap KeysOf(written[v]) = {}

\* The answer is sent only after the commit.
ReplyOK ==
    \A w \in Workers : pc[w] = "reply" => \E r \in raws : r.mail = job[w]

\* The look-ups by recipient: deactivation is final, and a local part is
\* minted once, so the second look-up cannot miss what the first one missed.
LookupOK ==
    /\ \A l \in LocalParts \ minted : address[l] = NoRow
    /\ \A r \in raws : Rcpt[r.mail] \in LocalParts => Rcpt[r.mail] \in minted
    /\ \A w \in Workers :
          pc[w] # "idle" /\ Rcpt[job[w]] \in LocalParts =>
            LET row == address[Rcpt[job[w]]] IN
            /\ Rcpt[job[w]] \in minted
            /\ pc[w] = "retired" /\ row # NoRow => row.state = "retired"
            /\ status[w] = "unrouted" => row = NoRow

\* An attribution read from the registry stays right as long as its domain
\* lives: domains never change tenant and ids never come back.
StillRight(x) ==
    x.domain # NoRow =>
        /\ x.domain <= lastId
        /\ domain[x.domain] # NoRow => domain[x.domain].tenant = x.tenant

LinksOK ==
    Backend = "postgresql" =>
        /\ \A d \in DomainIds : domain[d] # NoRow => d <= lastId
        /\ \A w \in Workers :
              /\ StillRight(route[w])
              /\ pending[w] # NoRow => StillRight(pending[w])
              /\ \A r \in written[w] :
                    r.domain # NoRow => domain[r.domain] # NoRow /\ StillRight(r)
        /\ \A r \in reports :
              r.domain # NoRow => domain[r.domain] # NoRow /\ StillRight(r)

IInv ==
    /\ TypeOK /\ ShapeOK /\ ScanOK /\ StatusOK /\ OwnRowsOK /\ FreshOK
    /\ ReplyOK /\ LookupOK /\ LinksOK
    /\ NothingAckedIsLost /\ FiledMeansHeld /\ HeldOnce
    /\ MintedNeverQuarantined /\ RoutedBroughtReports
=============================================================================
