----------------------------- MODULE MCRegistry -----------------------------
(* Small instances of Registry for TLC.                                    *)
EXTENDS Registry, TLC

CONSTANTS unrouted, main, n1, k1, k2, q1, q2, m1
=============================================================================
