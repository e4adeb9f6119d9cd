------------------------------ MODULE MCBackup ------------------------------
(* Small instances of Backup for TLC.                                      *)
EXTENDS Backup, TLC

CONSTANTS a, b, p1, p2

\* Prefixes of which none begins another.
Apart == [s \in Sites |-> {s}]

\* Site a's prefix is empty, or the beginning of b's.
Covering == [s \in Sites |-> IF s = a THEN Sites ELSE {s}]

Symmetry == Permutations(Runs)
=============================================================================
