------------------------------ MODULE MCEnrich ------------------------------
(* Small instances of Enrich for TLC.                                      *)
EXTENDS Enrich, TLC

CONSTANTS i1, i2, dead, r1, r2, p1, p2

\* One address that no source knows comes first in a report.
OneDead == i1 :> Parts @@ i2 :> Parts @@ dead :> {}

\* Two reports with the same addresses in different orders.
Crossed == r1 :> <<dead, i1, i2>> @@ r2 :> <<i2, i1>>
=============================================================================
