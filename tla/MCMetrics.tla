------------------------------ MODULE MCMetrics ------------------------------
(* Small instances of Metrics for TLC.                                     *)
EXTENDS Metrics, TLC

CONSTANTS d1, d2, shared, x1, x2, x3, s1, s2

Inc(n)  == [kind |-> "include", host |-> n]
Ip(x)   == [kind |-> "ip", net |-> x]
A(h)    == [kind |-> "a", host |-> h]
Mx(h)   == [kind |-> "mx", host |-> h]
AIn(h)  == [kind |-> "a:/", host |-> h]   \* a:host/24
MxBare  == [kind |-> "mx/"]               \* mx/24
All     == [kind |-> "other"]

ThreeAddr == d1 :> {x1} @@ d2 :> {x2, x3} @@ shared :> {x3}

\* A loop, and a bare a in an included record (six look-ups,
\* one above the limit).
Loop ==
    [txt  |-> d1 :> <<Inc(shared), Inc(d2), Ip(x1), All>>
           @@ d2 :> <<A(Self), Inc(shared), Ip(x2)>>
           @@ shared :> <<Inc(d1), A(Self), Ip(x3)>>,
     addr |-> ThreeAddr,
     mx   |-> d1 :> <<d1>> @@ d2 :> <<d2>> @@ shared :> << >>]

\* A record that is included twice, below the limit (four look-ups for d2, two
\* for d1); of its exchanges one is beyond those that are resolved.
Diamond ==
    [txt  |-> d1 :> <<Inc(shared), All>>
           @@ d2 :> <<Inc(d1), Inc(shared)>>
           @@ shared :> <<Mx(Self)>>,
     addr |-> ThreeAddr,
     mx   |-> d1 :> <<d1>> @@ d2 :> <<d2>> @@ shared :> <<shared, d1>>]

\* Terms with prefix lengths, in two records that include each other (four
\* look-ups for either domain).
Ranges ==
    [txt  |-> d1 :> <<AIn(shared), Inc(d2), MxBare, Ip(x1)>>
           @@ d2 :> <<Mx(d1), Inc(d1), All>>
           @@ shared :> <<All>>,
     addr |-> ThreeAddr,
     mx   |-> d1 :> <<d2, d1>> @@ d2 :> <<d2>> @@ shared :> << >>]

SomeZones == {Loop, Diamond, Ranges}
=============================================================================
