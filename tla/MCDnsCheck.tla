----------------------------- MODULE MCDnsCheck -----------------------------
(* Small instances of DnsCheck for TLC.                                    *)
EXTENDS DnsCheck, TLC

CONSTANTS t1, t2, dmarc, verification, failed

TwoRecords == <<dmarc, verification>>

Value(ours, tagged, names, first) ==
    [ours |-> ours, tagged |-> tagged, names |-> names, first |-> first]

\* For the tenant's record: nothing, ours for either address or for both, and
\* ours with a stray character in front.  The operator's record is there or not.
SomeAnswers ==
    [n \in {dmarc, verification} |->
       IF n = dmarc
         THEN {failed, {}, {Value(TRUE, TRUE, {1}, 1)}, {Value(TRUE, TRUE, {2}, 2)},
               {Value(TRUE, TRUE, {1, 2}, 1)}, {Value(TRUE, FALSE, {2}, 2)}}
         ELSE {failed, {}}]

Symmetry == Permutations({t1, t2})
=============================================================================
