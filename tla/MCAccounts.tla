----------------------------- MODULE MCAccounts -----------------------------
(* Small instances of Accounts for TLC.                                    *)
EXTENDS Accounts, TLC

CONSTANTS e1, e2, e3, r1, r2

Symmetry == Permutations({e1, e2, e3}) \cup Permutations({r1, r2})
=============================================================================
