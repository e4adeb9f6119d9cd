---------------------------- MODULE ReportLedger ----------------------------
(***************************************************************************)
(* What report intake promises, without its transactions: a message is     *)
(* filed in one step, as if no other message were being processed, and a   *)
(* sender is told "accepted" only about a message that is filed.           *)
(***************************************************************************)
CONSTANTS
    Mail, Keys,
    Content,      \* [Mail -> the reports that can be read from the message]
    Unreadable    \* messages with a document that no parser accepts

VARIABLES
    filed,        \* messages stored, each with the outcome recorded for it
    held,         \* reports held
    acked         \* messages whose sender was told "accepted"

vars == <<filed, held, acked>>

Init == filed = {} /\ held = {} /\ acked = {}

\* The outcome tells what the message brought.  One whose recipient is not an
\* active address keeps the outcome of its routing instead.
Outcomes(m) ==
    IF m \in Unreadable THEN {"failed"}
    ELSE {"retired", "unrouted"} \cup
         (IF Content[m] = {} THEN {"failed"}
          ELSE IF Content[m] \subseteq held THEN {"duplicate"}
          ELSE {"routed"})

File(m) ==
    /\ \E s \in Outcomes(m) : filed' = filed \cup {[mail |-> m, status |-> s]}
    /\ held' = held \cup Content[m]
    /\ UNCHANGED acked

Acknowledge(m) ==
    /\ \E r \in filed : r.mail = m
    /\ acked' = acked \cup {m}
    /\ UNCHANGED <<filed, held>>

Next == \E m \in Mail : File(m) \/ Acknowledge(m)

Spec == Init /\ [][Next]_vars
=============================================================================
