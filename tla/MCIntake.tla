------------------------------ MODULE MCIntake ------------------------------
(* Small instances of Intake for TLC.                                      *)
EXTENDS IntakeInv, TLC

CONSTANTS w1, w2, m1, m2, m3, l1, l2, typo, n1, t1, k1, k2

Doc(k, n) == [kind |-> "report", key |-> k, policy |-> n]
BadDoc    == [kind |-> "broken", key |-> k1, policy |-> NoRow]
OtherDoc  == [kind |-> "unknown", key |-> k1, policy |-> NoRow]

\* Two messages to one address with the same two reports in opposite orders;
\* one also carries a part that is no report, the other ends in a document
\* that no parser accepts.
CrossedRcpt == (m1 :> l1) @@ (m2 :> l1)
CrossedDocs ==
    (m1 :> <<Doc(k1, n1), OtherDoc, Doc(k2, NoRow)>>) @@
    (m2 :> <<Doc(k2, n1), Doc(k1, n1), BadDoc>>)

\* One of them to a recipient nobody minted, filed by the policy domain that
\* its reports name.
MixedRcpt == (m1 :> l1) @@ (m2 :> typo)

\* The two reports in opposite orders and nothing else.
PlainDocs ==
    (m1 :> <<Doc(k1, NoRow), Doc(k2, NoRow)>>) @@
    (m2 :> <<Doc(k2, NoRow), Doc(k1, NoRow)>>)

\* A message with one report.
OneRcpt == m1 :> l1
OneDocs == m1 :> <<Doc(k1, n1)>>
=============================================================================
