---------------------------- MODULE ReplayLedger ----------------------------
(***************************************************************************)
(* What uploads and replays promise, without their transactions: a replay  *)
(* takes the oldest unfinished messages and files them in one step, one    *)
(* after the other, as if no mail arrived while it ran.                    *)
(***************************************************************************)
EXTENDS Naturals, Sequences

CONSTANTS
    Mail, Keys,
    Uploads       \* those that are uploaded and not sent

VARIABLES
    reading,      \* what the deployed release makes of each message
    raws,         \* messages stored, with their labels, oldest first
    reports       \* reports held, with the messages that brought them

vars == <<reading, raws, reports>>

\* The keys read when a message arrives and when it is replayed; whether its
\* replay stops at a document, and whether it understands any.
Reading == [arrival : SUBSET Keys, replay : SUBSET Keys, refused : BOOLEAN, understood : BOOLEAN]

Init == reading \in [Mail -> Reading] /\ raws = << >> /\ reports = {}

Held == {s.key : s \in reports}

\* A label that tells what the message brought, or where it was addressed.
ArrivalLabels(m) ==
    LET keys    == reading[m].arrival
        brought == IF keys = {} THEN "failed"
                   ELSE IF keys \subseteq Held THEN "duplicate" ELSE "routed"
    IN  IF m \in Uploads THEN {IF keys = {} THEN "failed" ELSE "routed"}
        ELSE IF reading[m].refused THEN {"failed"}
        ELSE {"retired", "unrouted", brought}

File(m) ==
    /\ \A i \in DOMAIN raws : raws[i].mail # m
    /\ \E label \in ArrivalLabels(m) : raws' = Append(raws, [mail |-> m, status |-> label])
    /\ reports' = reports \cup {[key |-> k, mail |-> m] : k \in reading[m].arrival \ Held}
    /\ UNCHANGED reading

Unfinished == {i \in DOMAIN raws : raws[i].status \in {"failed", "unrouted", "duplicate"}}

\* Sets of the oldest unfinished messages.
Batches == {S \in SUBSET Unfinished : \A i \in S : \A j \in Unfinished : j < i => j \in S}

Replayed(i) == reading[raws[i].mail].replay

\* A report goes to the oldest message of the batch that has it.
Brings(i, S) == Replayed(i) \ (Held \cup UNION {Replayed(j) : j \in {h \in S : h < i}})

\* A message that brings something is routed or retired, as its address is.
ReplayLabel(row, new, routing) ==
    CASE reading[row.mail].refused                -> "failed"
      [] ~reading[row.mail].refused /\ new # {}   -> routing
      [] ~reading[row.mail].refused /\ new = {}   ->
           IF reading[row.mail].understood THEN "duplicate" ELSE row.status

Replay(S) ==
    /\ \E routing \in [S -> {"routed", "retired"}] :
          raws' = [i \in DOMAIN raws |->
              IF i \in S
              THEN [raws[i] EXCEPT !.status = ReplayLabel(raws[i], Brings(i, S), routing[i])]
              ELSE raws[i]]
    /\ reports' = reports \cup
          UNION {{[key |-> k, mail |-> raws[i].mail] : k \in Brings(i, S)} : i \in S}
    /\ UNCHANGED reading

\* A release reads messages in its own way.
Release ==
    /\ reading' \in [Mail -> Reading]
    /\ UNCHANGED <<raws, reports>>

Next ==
    \/ \E m \in Mail : File(m)
    \/ \E S \in Batches : Replay(S)
    \/ Release

Spec == Init /\ [][Next]_vars
=============================================================================
