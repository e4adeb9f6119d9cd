---------------------------- MODULE MCReprocess -----------------------------
(* A small instance of Reprocess for TLC.                                  *)
EXTENDS Reprocess, TLC

CONSTANTS m1, m2, m3, m4, l1, k1, k2, r1

Doc(k, known, readable) == [key |-> k, known |-> known, readable |-> readable]

\* Mail that is only understood later, when its address may be retired or gone;
\* mail to nobody of which one document is understood later and one is never
\* read; a file of which one document is read at once and one later; and an
\* uploaded mail, read later, that no replay unpacks.  The second and the fourth
\* may keep their places in every batch, and a batch has two.
MixedRcpt == [m \in {m1} |-> l1] @@ [m \in {m2, m3, m4} |-> NoRow]
MixedForm == [m \in {m1, m2} |-> "message"] @@ (m3 :> "file") @@ (m4 :> "eml")
MixedDocs ==
    (m1 :> <<Doc(k1, 1, 1), Doc(k2, 1, 1)>>) @@
    (m2 :> <<Doc(k1, 1, 1), Doc(k2, 0, MaxRelease + 1)>>) @@
    (m3 :> <<Doc(k2, 0, 0), Doc(k1, 0, 1)>>) @@
    (m4 :> <<Doc(k1, 0, 1)>>)
=============================================================================
