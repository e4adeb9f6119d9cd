----------------------------- MODULE ImapProofs -----------------------------
(***************************************************************************)
(* What holds of the poller for any amount of mail, any number of failures *)
(* and, when processed mail is left where it is, any number of pollers.    *)
(***************************************************************************)
EXTENDS ImapPoller, FiniteSetTheorems, SequenceTheorems, TLAPS

-----------------------------------------------------------------------------
(* What is left of a mailbox.                                              *)

Rank(K, i) == Cardinality({j \in K : j <= i})

LEMMA FinitePositions ==
    ASSUME NEW n \in Nat, NEW K \in SUBSET (1 .. n)
    PROVE  IsFiniteSet(K) /\ Cardinality(K) \in Nat
  <1>1. IsFiniteSet(1 .. n)
    <2>1. 1 \in Int /\ n \in Int
      OBVIOUS
    <2>2. QED BY <2>1, FS_Interval
  <1>2. IsFiniteSet(K)
    BY <1>1, FS_Subset
  <1>3. QED BY <1>2, FS_CardinalityType

\* A position of K has a number among those of K.
LEMMA RankType ==
    ASSUME NEW n \in Nat, NEW K \in SUBSET (1 .. n), NEW i \in K
    PROVE  Rank(K, i) \in 1 .. Cardinality(K)
  <1>1. IsFiniteSet(K)
    BY FinitePositions
  <1>2. {j \in K : j <= i} \in SUBSET K
    OBVIOUS
  <1>3. IsFiniteSet({j \in K : j <= i}) /\ Rank(K, i) <= Cardinality(K)
    BY <1>1, <1>2, FS_Subset DEF Rank
  <1>4. Cardinality(K) \in Nat /\ Rank(K, i) \in Nat
    BY <1>1, <1>3, FS_CardinalityType DEF Rank
  <1>5. i \in {j \in K : j <= i}
    OBVIOUS
  <1>6. Rank(K, i) # 0
    BY <1>3, <1>5, FS_EmptySet DEF Rank
  <1>7. QED BY <1>3, <1>4, <1>6

\* Two positions have different numbers.
LEMMA RankGrows ==
    ASSUME NEW n \in Nat, NEW K \in SUBSET (1 .. n), NEW i \in K, NEW h \in K, i < h
    PROVE  Rank(K, i) # Rank(K, h)
  <1> DEFINE low == {j \in K : j <= i}
             high == {j \in K : j <= h}
  <1>1. IsFiniteSet(high)
    <2>1. high \in SUBSET (1 .. n)
      OBVIOUS
    <2>2. QED BY <2>1, FinitePositions
  <1>2. low \in SUBSET high
    <2>1. \A j \in K : j <= i => j <= h
      OBVIOUS
    <2>2. QED BY <2>1
  <1>3. h \in high /\ h \notin low
    OBVIOUS
  <1>4. Cardinality(high) # Cardinality(low)
    BY <1>1, <1>2, <1>3, FS_Subset
  <1>5. QED BY <1>4 DEF Rank

\* Every number is that of one position.
LEMMA RankOnto ==
    ASSUME NEW n \in Nat, NEW K \in SUBSET (1 .. n)
    PROVE  \A k \in 1 .. Cardinality(K) : \E i \in K : Rank(K, i) = k
  <1> DEFINE N == 1 .. Cardinality(K)
             f == [i \in K |-> Rank(K, i)]
  <1>1. IsFiniteSet(K) /\ Cardinality(K) \in Nat
    BY FinitePositions
  <1>2. IsFiniteSet(N) /\ Cardinality(N) = Cardinality(K)
    BY <1>1, FS_Interval
  <1>3. f \in [K -> N]
    BY RankType
  <1>4. \A i, h \in K : f[i] = f[h] => i = h
    <2>1. SUFFICES ASSUME NEW i \in K, NEW h \in K, i # h PROVE Rank(K, i) # Rank(K, h)
      OBVIOUS
    <2>2. CASE i < h
      BY <2>2, RankGrows
    <2>3. CASE h < i
      BY <2>3, RankGrows
    <2>4. i \in Nat /\ h \in Nat
      OBVIOUS
    <2>5. QED BY <2>1, <2>2, <2>3, <2>4
  <1>5. f \in Injection(K, N)
    BY <1>3, <1>4 DEF Injection, IsInjective
  <1>6. f \in Surjection(K, N)
    BY <1>2, <1>5, FS_Injection
  <1>7. QED BY <1>6 DEF Surjection

LEMMA OnlyKeeps ==
    ASSUME NEW M, NEW s \in Seq(M), NEW S
    PROVE  /\ Only(s, S) \in Seq(M)
           /\ Range(Only(s, S)) = Range(s) \cap S
  <1> DEFINE K == {i \in DOMAIN s : s[i] \in S}
             nth(k) == CHOOSE i \in K : Rank(K, i) = k
  <1>1. Len(s) \in Nat /\ DOMAIN s = 1 .. Len(s) /\ \A i \in DOMAIN s : s[i] \in M
    BY LenProperties, ElementOfSeq
  <1>2. K \in SUBSET (1 .. Len(s)) /\ Cardinality(K) \in Nat
    <2>1. K \in SUBSET (1 .. Len(s))
      BY <1>1
    <2>2. QED BY <1>1, <2>1, FinitePositions
  <1>3. Only(s, S) = [k \in 1 .. Cardinality(K) |-> s[nth(k)]]
    BY DEF Only, Rank
  <1>4. ASSUME NEW k \in 1 .. Cardinality(K) PROVE nth(k) \in K /\ Rank(K, nth(k)) = k
    BY <1>1, <1>2, RankOnto
  <1>5. ASSUME NEW i \in K PROVE Rank(K, i) \in 1 .. Cardinality(K) /\ nth(Rank(K, i)) = i
    <2>1. Rank(K, i) \in 1 .. Cardinality(K)
      BY <1>1, <1>2, RankType
    <2>2. nth(Rank(K, i)) \in K /\ Rank(K, nth(Rank(K, i))) = Rank(K, i)
      BY <1>4, <2>1
    <2>3. ASSUME NEW h \in K, h # i PROVE Rank(K, h) # Rank(K, i)
      <3>1. h < i \/ i < h
        BY <1>1, <2>3
      <3>2. QED BY <1>1, <1>2, <3>1, RankGrows
    <2>4. QED BY <2>1, <2>2, <2>3
  <1> HIDE DEF nth
  <1>6. Only(s, S) \in Seq(M)
    <2>1. \A k \in 1 .. Cardinality(K) : s[nth(k)] \in M
      BY <1>1, <1>4
    <2>2. [k \in 1 .. Cardinality(K) |-> s[nth(k)]] \in Seq(M)
      BY <1>2, <2>1, IsASeq
    <2>3. QED BY <1>3, <2>2
  <1>7. \A m : m \in Range(Only(s, S)) => m \in Range(s) \cap S
    BY <1>3, <1>4 DEF Range
  <1>8. \A m : m \in Range(s) \cap S => m \in Range(Only(s, S))
    <2>1. SUFFICES ASSUME NEW i \in DOMAIN s, s[i] \in S PROVE s[i] \in Range(Only(s, S))
      BY DEF Range
    <2>2. Rank(K, i) \in 1 .. Cardinality(K) /\ nth(Rank(K, i)) = i
      BY <1>5, <2>1
    <2>3. Only(s, S)[Rank(K, i)] = s[i] /\ Rank(K, i) \in DOMAIN Only(s, S)
      BY <1>3, <2>2
    <2>4. QED BY <2>3 DEF Range
  <1>9. QED BY <1>6, <1>7, <1>8

LEMMA CountTo == ASSUME NEW n \in Nat PROVE Cardinality(1 .. n) = n
  <1>1. 1 \in Int /\ n \in Int
    OBVIOUS
  <1>2. Cardinality(1 .. n) = IF 1 > n THEN 0 ELSE n - 1 + 1
    BY <1>1, FS_Interval
  <1>3. QED BY <1>2

\* A mailbox of which everything is kept stays as it is.
LEMMA OnlyAll ==
    ASSUME NEW M, NEW s \in Seq(M), NEW S, Range(s) \subseteq S
    PROVE  Only(s, S) = s
  <1> DEFINE K == {i \in DOMAIN s : s[i] \in S}
             nth(k) == CHOOSE i \in K : Rank(K, i) = k
  <1>1. Len(s) \in Nat /\ DOMAIN s = 1 .. Len(s) /\ s = [i \in 1 .. Len(s) |-> s[i]]
    BY LenProperties
  <1>2. K = 1 .. Len(s)
    BY <1>1 DEF Range
  <1>3. Cardinality(K) = Len(s)
    BY <1>1, <1>2, CountTo
  <1>4. ASSUME NEW i \in K PROVE Rank(K, i) = i
    <2>1. {j \in K : j <= i} = 1 .. i /\ i \in Nat /\ i >= 1
      BY <1>1, <1>2
    <2>2. QED BY <2>1, CountTo DEF Rank
  <1>5. \A k \in 1 .. Len(s) : nth(k) = k
    BY <1>2, <1>4
  <1>6. Only(s, S) = [k \in 1 .. Cardinality(K) |-> s[nth(k)]]
    BY DEF Only, Rank
  <1> HIDE DEF nth, K
  <1>7. QED BY <1>1, <1>3, <1>5, <1>6

-----------------------------------------------------------------------------
(* The inductive invariant.                                                *)

\* Mail that is moved is moved by one poller.
Alone == Filing => \A p, q \in Pollers : p = q

Types ==
    /\ box \in Seq(Mail) /\ arrived \subseteq Mail
    /\ failures \in 0 .. MaxFailures
    /\ pc \in [Pollers -> {"idle", "loop", "process", "seen", "copy", "delete"}]
    /\ view \in [Pollers -> Seq(Mail)]
    /\ DOMAIN todo = Pollers
    /\ number \in [Pollers -> Nat \ {0}]
    /\ msg \in [Pollers -> Mail \cup {NoMail}]

\* What is known of a message whose flags say that it was dealt with.
FlagsOK ==
    /\ seen \subseteq stored /\ stored \subseteq arrived
    /\ filed \subseteq arrived /\ refused \subseteq arrived
    /\ deleted \subseteq seen
    /\ InBox \subseteq arrived /\ arrived \ InBox \subseteq seen
    /\ ~Filing => deleted = {}

\* The message in hand is in the mailbox under the number that the code holds,
\* and what was done to it is on record.
SessionOK(p) ==
    /\ todo[p] \subseteq DOMAIN view[p]
    /\ Range(view[p]) \subseteq InBox
    /\ pc[p] \in {"process", "seen", "copy", "delete"} =>
          number[p] \in DOMAIN view[p] /\ view[p][number[p]] = msg[p]
    /\ pc[p] \in {"seen", "copy", "delete"} => msg[p] \in stored
    /\ pc[p] \in {"copy", "delete"} => Filing /\ msg[p] \in seen

\* A message gets to the other folder, or is refused, before it is deleted.
Handled == filed \cup refused

FiledOK ==
    /\ deleted \subseteq Handled /\ arrived \ InBox \subseteq Handled
    /\ \A p \in Pollers : pc[p] = "delete" => msg[p] \in Handled

PInv == Types /\ FlagsOK /\ \A p \in Pollers : SessionOK(p)

\* A number in hand names the message in hand.
LEMMA NamedIsInHand ==
    ASSUME PInv, NEW p \in Pollers, pc[p] \in {"process", "seen", "copy", "delete"}
    PROVE  Named(p) = {msg[p]} /\ msg[p] \in InBox
  <1>1. number[p] \in DOMAIN view[p] /\ view[p][number[p]] = msg[p]
    BY DEF PInv, SessionOK
  <1>2. msg[p] \in Range(view[p])
    BY <1>1 DEF Range
  <1>3. msg[p] \in InBox
    BY <1>2 DEF PInv, SessionOK
  <1>4. QED BY <1>1, <1>3 DEF Named

LEMMA InitPInv == Init => PInv /\ FiledOK
  <1> SUFFICES ASSUME Init PROVE PInv /\ FiledOK
    OBVIOUS
  <1>1. << >> \in Seq(Mail) /\ DOMAIN << >> = {}
    BY EmptySeq
  <1>2. InBox = {} /\ Range(<< >>) = {}
    BY <1>1 DEF Init, InBox, Range
  <1>3. Types
    BY <1>1, ImapAssumption DEF Init, Types
  <1>4. FlagsOK /\ FiledOK
    BY <1>2 DEF Init, FlagsOK, FiledOK
  <1>5. \A p \in Pollers : SessionOK(p)
    BY <1>2 DEF Init, SessionOK
  <1>6. QED BY <1>3, <1>4, <1>5 DEF PInv

-----------------------------------------------------------------------------
(* Steps.                                                                  *)

\* What a step does not touch stays known.
LEMMA OtherSession ==
    ASSUME PInv, NEW q \in Pollers,
           InBox \subseteq InBox', stored \subseteq stored', seen \subseteq seen',
           pc'[q] = pc[q], view'[q] = view[q], todo'[q] = todo[q],
           number'[q] = number[q], msg'[q] = msg[q]
    PROVE  SessionOK(q)'
  <1>1. SessionOK(q)
    BY DEF PInv
  <1>2. QED BY <1>1 DEF SessionOK

\* The step of one session.
Private(p) ==
    \A q \in Pollers : q # p =>
        /\ pc'[q] = pc[q] /\ view'[q] = view[q] /\ todo'[q] = todo[q]
        /\ number'[q] = number[q] /\ msg'[q] = msg[q]

LEMMA OneSession ==
    ASSUME PInv, NEW p \in Pollers, Private(p), Types', FlagsOK', SessionOK(p)',
           InBox \subseteq InBox', stored \subseteq stored', seen \subseteq seen'
    PROVE  PInv'
  <1>1. ASSUME NEW q \in Pollers, q # p PROVE SessionOK(q)'
    BY <1>1, OtherSession DEF Private
  <1>2. QED BY <1>1 DEF PInv

LEMMA DeliverPInv == ASSUME PInv, NEW m \in Mail, Deliver(m) PROVE PInv'
  <1>1. Types'
    BY AppendProperties DEF PInv, Types, Deliver, session
  <1>2. InBox' = InBox \cup {m}
    <2>1. box \in Seq(Mail) /\ box' = Append(box, m)
      BY DEF PInv, Types, Deliver
    <2>2. /\ Len(box') = Len(box) + 1 /\ Len(box) \in Nat /\ box'[Len(box) + 1] = m
          /\ \A i \in 1 .. Len(box) : box'[i] = box[i]
          /\ DOMAIN box = 1 .. Len(box) /\ DOMAIN box' = 1 .. Len(box')
      BY <2>1, AppendProperties, LenProperties
    <2>3. QED BY <2>2 DEF InBox
  <1>3. FlagsOK'
    BY <1>2 DEF PInv, FlagsOK, Deliver
  <1>4. ASSUME NEW q \in Pollers PROVE SessionOK(q)'
    BY <1>2, <1>4, OtherSession DEF Deliver, session
  <1>5. QED BY <1>1, <1>3, <1>4 DEF PInv

LEMMA OpenPInv == ASSUME PInv, NEW p \in Pollers, Open(p) PROVE PInv'
  <1> USE DEF Open, Goto, server
  <1>1. Types' /\ Private(p)
    BY DEF PInv, Types, Private
  <1>2. FlagsOK' /\ InBox' = InBox
    BY DEF PInv, FlagsOK, InBox
  <1>3. SessionOK(p)'
    <2>1. pc'[p] = "loop" /\ view'[p] = box /\ todo'[p] = {i \in DOMAIN box : box[i] \notin seen}
      BY DEF PInv, Types
    <2>2. Range(box) = InBox
      BY DEF Range, InBox
    <2>3. QED BY <1>2, <2>1, <2>2 DEF SessionOK
  <1>4. QED BY <1>1, <1>2, <1>3, OneSession

LEMMA FetchPInv == ASSUME PInv, NEW p \in Pollers, Fetch(p) PROVE PInv'
  <1> DEFINE n == CHOOSE i \in todo[p] : \A j \in todo[p] : i <= j
  <1> USE DEF Fetch, Goto, server
  <1>1. view[p] \in Seq(Mail) /\ pc[p] = "loop" /\ todo' = [todo EXCEPT ![p] = @ \ {n}]
    BY DEF PInv, Types
  <1>2. FlagsOK' /\ InBox' = InBox /\ UNCHANGED <<view, stored, seen>>
    BY DEF PInv, FlagsOK, InBox
  <1>3. SessionOK(p)
    BY DEF PInv
  <1>4. CASE n \in DOMAIN view[p] /\ view[p][n] \in InBox
    <2>1. /\ number' = [number EXCEPT ![p] = n] /\ msg' = [msg EXCEPT ![p] = view[p][n]]
          /\ pc' = [pc EXCEPT ![p] = "process"]
      BY <1>4
    <2> HIDE DEF n, Fetch
    <2>2. n \in Nat \ {0} /\ view[p][n] \in Mail
      BY <1>1, <1>4, LenProperties, ElementOfSeq
    <2>3. Types' /\ Private(p)
      BY <1>1, <1>2, <2>1, <2>2, Fetch(p) DEF PInv, Types, Private, Fetch
    <2>4. SessionOK(p)'
      <3>1. pc'[p] = "process" /\ number'[p] = n /\ msg'[p] = view[p][n] /\ todo'[p] \subseteq todo[p]
        BY <1>1, <2>1 DEF PInv, Types
      <3>2. QED BY <1>2, <1>3, <1>4, <3>1 DEF SessionOK
    <2>5. QED BY <1>2, <2>3, <2>4, OneSession
  <1>5. CASE ~(n \in DOMAIN view[p] /\ view[p][n] \in InBox)
    <2>1. UNCHANGED <<number, msg, pc>>
      BY <1>5
    <2> HIDE DEF n
    <2>2. Types' /\ Private(p)
      BY <1>1, <1>2, <2>1 DEF PInv, Types, Private
    <2>3. todo'[p] \subseteq todo[p]
      BY <1>1 DEF PInv, Types
    <2>4. SessionOK(p)'
      BY <1>1, <1>2, <1>3, <2>1, <2>3 DEF SessionOK
    <2>5. QED BY <1>2, <2>2, <2>4, OneSession
  <1>6. QED BY <1>4, <1>5

LEMMA ProcessPInv ==
    ASSUME PInv, NEW p \in Pollers, Process(p) \/ ProcessFails(p)
    PROVE  PInv'
  <1> USE DEF Process, ProcessFails, Goto, server
  <1>1. Types' /\ Private(p)
    <2>1. failures' \in 0 .. MaxFailures
      BY ImapAssumption DEF PInv, Types
    <2>2. /\ pc' \in [Pollers -> {"idle", "loop", "process", "seen", "copy", "delete"}]
          /\ \A q \in Pollers : q # p => pc'[q] = pc[q]
      BY DEF PInv, Types
    <2>3. UNCHANGED <<box, arrived, view, todo, number, msg>>
      OBVIOUS
    <2>4. QED BY <2>1, <2>2, <2>3 DEF PInv, Types, Private
  <1>2. msg[p] \in InBox
    BY NamedIsInHand
  <1>3. FlagsOK' /\ InBox' = InBox /\ seen' = seen /\ stored \subseteq stored'
    BY <1>2 DEF PInv, FlagsOK, InBox
  <1>4. SessionOK(p)
    BY DEF PInv
  <1>5. SessionOK(p)'
    <2>1. \/ pc'[p] = "seen" /\ msg[p] \in stored'
          \/ pc'[p] = "loop"
      BY DEF PInv, Types
    <2>2. pc[p] = "process" /\ UNCHANGED <<view, todo, number, msg>>
      OBVIOUS
    <2>3. QED BY <1>3, <1>4, <2>1, <2>2 DEF SessionOK
  <1>6. QED BY <1>1, <1>3, <1>5, OneSession

LEMMA MarkSeenPInv == ASSUME PInv, NEW p \in Pollers, MarkSeen(p) PROVE PInv'
  <1> USE DEF MarkSeen, Goto
  <1>1. Types' /\ Private(p)
    BY DEF PInv, Types, Private
  <1>2. Named(p) = {msg[p]} /\ msg[p] \in InBox /\ msg[p] \in stored
    BY NamedIsInHand DEF PInv, SessionOK
  <1>3. FlagsOK' /\ InBox' = InBox /\ seen' = seen \cup {msg[p]} /\ stored' = stored
    BY <1>2 DEF PInv, FlagsOK, InBox
  <1>4. SessionOK(p)
    BY DEF PInv
  <1>5. SessionOK(p)'
    <2>1. (pc'[p] = "copy" /\ Filing) \/ pc'[p] = "loop"
      BY DEF PInv, Types
    <2>2. pc[p] = "seen" /\ UNCHANGED <<view, todo, number, msg>>
      OBVIOUS
    <2>3. QED BY <1>2, <1>3, <1>4, <2>1, <2>2 DEF SessionOK
  <1>6. QED BY <1>1, <1>3, <1>5, OneSession

LEMMA CopyPInv == ASSUME PInv, NEW p \in Pollers, Copy(p) PROVE PInv'
  <1> USE DEF Copy, Goto
  <1>1. view' = view
    <2>1. view[p] \in Seq(Mail) /\ Range(view[p]) \subseteq InBox
      BY DEF PInv, Types, SessionOK
    <2>2. Only(view[p], InBox) = view[p]
      BY <2>1, OnlyAll
    <2>3. view' = [view EXCEPT ![p] = view[p]]
      BY <2>2
    <2>4. QED BY <2>3 DEF PInv, Types
  <1>2. Types' /\ Private(p)
    BY <1>1 DEF PInv, Types, Private
  <1>3. Named(p) = {msg[p]} /\ msg[p] \in InBox
    BY NamedIsInHand
  <1>4. FlagsOK' /\ InBox' = InBox /\ stored' = stored /\ seen' = seen
    BY <1>3 DEF PInv, FlagsOK, InBox
  <1>5. SessionOK(p)
    BY DEF PInv
  <1>6. SessionOK(p)'
    <2>1. pc'[p] = "delete" /\ pc[p] = "copy" /\ UNCHANGED <<todo, number, msg>>
      BY DEF PInv, Types
    <2>2. QED BY <1>1, <1>4, <1>5, <2>1 DEF SessionOK
  <1>7. QED BY <1>2, <1>4, <1>6, OneSession

LEMMA MarkDeletedPInv == ASSUME PInv, NEW p \in Pollers, MarkDeleted(p) PROVE PInv'
  <1> USE DEF MarkDeleted, Goto
  <1>1. Types' /\ Private(p)
    BY DEF PInv, Types, Private
  <1>2. Named(p) = {msg[p]} /\ msg[p] \in seen /\ Filing
    BY NamedIsInHand DEF PInv, SessionOK
  <1>3. FlagsOK' /\ InBox' = InBox /\ stored' = stored /\ seen' = seen
    BY <1>2 DEF PInv, FlagsOK, InBox
  <1>4. SessionOK(p)'
    <2>1. pc'[p] = "loop" /\ UNCHANGED <<view, todo, number, msg>>
      BY DEF PInv, Types
    <2>2. QED BY <1>3, <2>1 DEF PInv, SessionOK
  <1>5. QED BY <1>1, <1>3, <1>4, OneSession

\* A session that is closed holds nothing.
LEMMA ClosePInv ==
    ASSUME PInv, NEW p \in Pollers, Close(p)
    PROVE  SessionOK(p)' /\ Private(p)
  <1>1. pc'[p] = "idle" /\ view'[p] = << >> /\ todo'[p] = {} /\ Private(p)
    BY DEF PInv, Types, Close, Goto, Private
  <1>2. Range(<< >>) = {}
    BY EmptySeq DEF Range
  <1>3. QED BY <1>1, <1>2 DEF SessionOK

LEMMA CloseOthers ==
    ASSUME PInv, NEW p \in Pollers, Close(p), NEW q \in Pollers, pc'[q] = "delete"
    PROVE  pc[q] = "delete" /\ msg'[q] = msg[q]
  <1>1. q # p
    BY DEF PInv, Types, Close, Goto
  <1>2. QED BY <1>1 DEF PInv, Types, Close, Goto

LEMMA CloseTypes ==
    ASSUME PInv, NEW p \in Pollers, Close(p), box' \in Seq(Mail), UNCHANGED arrived,
           failures' \in 0 .. MaxFailures
    PROVE  Types'
  BY EmptySeq DEF PInv, Types, Close, Goto

LEMMA FinishPInv == ASSUME PInv, Alone, NEW p \in Pollers, Finish(p) PROVE PInv'
  <1>1. /\ Close(p) /\ UNCHANGED <<seen, filed, arrived, refused, stored, failures>>
        /\ box' = Only(box, InBox \ deleted) /\ deleted' = {}
    BY DEF Finish
  <1>2. box' \in Seq(Mail) /\ Range(box') = Range(box) \cap (InBox \ deleted)
    BY <1>1, OnlyKeeps DEF PInv, Types
  <1>3. InBox' = InBox \ deleted
    BY <1>2 DEF Range, InBox
  <1>4. Types'
    BY <1>1, <1>2, CloseTypes DEF PInv, Types
  <1>5. FlagsOK'
    BY <1>1, <1>3 DEF PInv, FlagsOK
  <1>6. SessionOK(p)' /\ Private(p)
    BY <1>1, ClosePInv
  <1>7. ASSUME NEW q \in Pollers, q # p PROVE SessionOK(q)'
    <2>1. ~Filing
      BY <1>7 DEF Alone
    <2>2. InBox' = InBox
      BY <1>3, <2>1 DEF PInv, FlagsOK
    <2>3. QED BY <1>1, <1>6, <1>7, <2>2, OtherSession DEF Private
  <1>8. QED BY <1>4, <1>5, <1>6, <1>7 DEF PInv

LEMMA DropPInv == ASSUME PInv, NEW p \in Pollers, Drop(p) PROVE PInv'
  <1>1. Close(p) /\ UNCHANGED <<box, seen, deleted, filed, arrived, refused, stored>>
        /\ failures' \in 0 .. MaxFailures
    BY ImapAssumption DEF Drop, PInv, Types, server
  <1>2. Types'
    BY <1>1, CloseTypes DEF PInv, Types
  <1>3. FlagsOK' /\ InBox' = InBox
    BY <1>1 DEF PInv, FlagsOK, InBox
  <1>4. SessionOK(p)' /\ Private(p)
    BY <1>1, ClosePInv
  <1>5. QED BY <1>1, <1>2, <1>3, <1>4, OneSession

LEMMA NextPInv == ASSUME Alone PROVE PInv /\ [Next]_vars => PInv'
  <1> SUFFICES ASSUME PInv, [Next]_vars PROVE PInv'
    OBVIOUS
  <1>1. CASE \E m \in Mail : Deliver(m)
    BY <1>1, DeliverPInv
  <1>2. ASSUME NEW p \in Pollers, Poll(p) \/ ProcessFails(p) \/ Drop(p) PROVE PInv'
    BY <1>2, OpenPInv, FetchPInv, ProcessPInv, MarkSeenPInv, CopyPInv, MarkDeletedPInv,
       FinishPInv, DropPInv DEF Poll
  <1>3. CASE UNCHANGED vars
    BY <1>3 DEF vars, server, session, PInv, Types, FlagsOK, SessionOK, InBox
  <1>4. QED BY <1>1, <1>2, <1>3 DEF Next

-----------------------------------------------------------------------------
(* The other folder.                                                       *)

\* Mail stays in the folder it was copied to, and a message gets there before
\* it is marked for deletion.
LEMMA NextFiled ==
    ASSUME Alone
    PROVE  PInv /\ FiledOK /\ [Next]_vars => FiledOK'
  <1> SUFFICES ASSUME PInv, FiledOK, [Next]_vars PROVE FiledOK'
    OBVIOUS
  <1>1. ASSUME NEW m \in Mail, Deliver(m) PROVE FiledOK'
    <2>1. box \in Seq(Mail) /\ box' = Append(box, m)
      BY <1>1 DEF PInv, Types, Deliver
    <2>2. InBox' = InBox \cup {m}
      <3>1. /\ Len(box') = Len(box) + 1 /\ Len(box) \in Nat /\ box'[Len(box) + 1] = m
            /\ \A i \in 1 .. Len(box) : box'[i] = box[i]
            /\ DOMAIN box = 1 .. Len(box) /\ DOMAIN box' = 1 .. Len(box')
        BY <2>1, AppendProperties, LenProperties
      <3>2. QED BY <3>1 DEF InBox
    <2>3. UNCHANGED <<deleted, filed, refused, pc, msg>> /\ arrived' = arrived \cup {m}
      BY <1>1 DEF Deliver, session
    <2>4. QED BY <2>2, <2>3 DEF FiledOK, Handled
  <1>2. ASSUME NEW p \in Pollers, Open(p) \/ Process(p) \/ ProcessFails(p) \/ MarkSeen(p)
        PROVE  FiledOK'
    <2>1. UNCHANGED <<box, deleted, filed, refused, arrived, msg>>
      BY <1>2 DEF Open, Process, ProcessFails, MarkSeen, server
    <2>2. \A q \in Pollers : pc'[q] = "delete" => pc[q] = "delete"
      BY <1>2 DEF Open, Process, ProcessFails, MarkSeen, Goto, PInv, Types
    <2>3. QED BY <2>1, <2>2 DEF FiledOK, Handled, InBox
  <1>3. ASSUME NEW p \in Pollers, Fetch(p) PROVE FiledOK'
    <2>1. UNCHANGED <<box, deleted, filed, refused, arrived>> /\ pc[p] = "loop"
      BY <1>3 DEF Fetch, server
    <2>2. ASSUME NEW q \in Pollers, pc'[q] = "delete" PROVE pc[q] = "delete" /\ msg'[q] = msg[q]
      <3>1. pc' = [pc EXCEPT ![p] = "process"] \/ UNCHANGED <<pc, msg>>
        BY <1>3 DEF Fetch, Goto
      <3>2. q # p
        BY <2>1, <2>2, <3>1 DEF PInv, Types
      <3>3. msg' = [msg EXCEPT ![p] = msg'[p]] \/ msg' = msg
        BY <1>3 DEF Fetch, PInv, Types
      <3>4. QED BY <2>2, <3>1, <3>2, <3>3 DEF PInv, Types
    <2>3. QED BY <2>1, <2>2 DEF FiledOK, Handled, InBox
  <1>4. ASSUME NEW p \in Pollers, Copy(p) PROVE FiledOK'
    <2>1. Named(p) = {msg[p]}
      BY <1>4, NamedIsInHand DEF Copy
    <2>2. Handled' = Handled \cup {msg[p]} /\ UNCHANGED <<box, deleted, arrived, msg>>
      BY <1>4, <2>1 DEF Copy, Handled
    <2>3. \A q \in Pollers : q # p /\ pc'[q] = "delete" => pc[q] = "delete"
      BY <1>4 DEF Copy, Goto, PInv, Types
    <2>4. QED BY <2>2, <2>3 DEF FiledOK, Handled, InBox
  <1>5. ASSUME NEW p \in Pollers, MarkDeleted(p) PROVE FiledOK'
    <2>1. Named(p) = {msg[p]} /\ msg[p] \in Handled
      BY <1>5, NamedIsInHand DEF MarkDeleted, FiledOK
    <2>2. deleted' = deleted \cup {msg[p]} /\ UNCHANGED <<box, filed, refused, arrived, msg>>
      BY <1>5, <2>1 DEF MarkDeleted
    <2>3. \A q \in Pollers : pc'[q] = "delete" => pc[q] = "delete"
      BY <1>5 DEF MarkDeleted, Goto, PInv, Types
    <2>4. QED BY <2>1, <2>2, <2>3 DEF FiledOK, Handled, InBox
  <1>6. ASSUME NEW p \in Pollers, Finish(p) PROVE FiledOK'
    <2>1. /\ Close(p) /\ UNCHANGED <<filed, refused, arrived>>
          /\ box' = Only(box, InBox \ deleted) /\ deleted' = {}
      BY <1>6 DEF Finish
    <2>2. Range(box') = Range(box) \cap (InBox \ deleted)
      BY <2>1, OnlyKeeps DEF PInv, Types
    <2>3. InBox' = InBox \ deleted
      BY <2>2 DEF Range, InBox
    <2>4. \A q \in Pollers : pc'[q] = "delete" => pc[q] = "delete" /\ msg'[q] = msg[q]
      BY <2>1, CloseOthers
    <2>5. QED BY <2>1, <2>3, <2>4 DEF FiledOK, Handled
  <1>7. ASSUME NEW p \in Pollers, Drop(p) PROVE FiledOK'
    <2>1. Close(p) /\ UNCHANGED <<box, deleted, filed, refused, arrived>>
      BY <1>7 DEF Drop, server
    <2>2. \A q \in Pollers : pc'[q] = "delete" => pc[q] = "delete" /\ msg'[q] = msg[q]
      BY <2>1, CloseOthers
    <2>3. QED BY <2>1, <2>2 DEF FiledOK, Handled, InBox
  <1>8. CASE UNCHANGED vars
    BY <1>8 DEF vars, server, session, FiledOK, Handled, InBox
  <1>9. QED BY <1>1, <1>2, <1>3, <1>4, <1>5, <1>6, <1>7, <1>8 DEF Next, Poll

-----------------------------------------------------------------------------
(* The theorems.                                                           *)

THEOREM PollerInvariant == ASSUME Alone PROVE Spec => []PInv
  <1>1. Init => PInv
    BY InitPInv
  <1>2. PInv /\ [Next]_vars => PInv'
    BY NextPInv
  <1>3. QED BY <1>1, <1>2, PTL DEF Spec

\* The mailbox, the flags and the sessions have their types, whatever is
\* delivered and wherever sessions are cut off; what is marked for deletion was
\* marked read, and a session looks only at numbers of its own view.
THEOREM ImapTypeCorrect == ASSUME Alone PROVE Spec => []TypeOK
  <1>1. PInv => TypeOK
    BY DEF PInv, Types, FlagsOK, SessionOK, TypeOK
  <1>2. QED BY <1>1, PollerInvariant, PTL

\* "Messages are acknowledged only after they have been stored": fetch_once
\* marks, moves or removes no message that is not in the database, with any
\* number of pollers when processed mail is left where it is, and with one when
\* it is moved.
THEOREM AcknowledgedIsStored == ASSUME Alone PROVE Spec => []AckedIsStored
  <1>1. PInv => AckedIsStored
    BY DEF PInv, FlagsOK, AckedIsStored
  <1>2. QED BY <1>1, PollerInvariant, PTL

\* A message that fetch_once removed from the mailbox is in the processed folder,
\* or is one that the server refused to copy there.
THEOREM MovedIsFiled ==
    ASSUME Alone
    PROVE  Spec => []RemovedIsFiled
  <1>1. Init => PInv /\ FiledOK
    BY InitPInv
  <1>2. (PInv /\ FiledOK) /\ [Next]_vars => (PInv /\ FiledOK)'
    BY NextPInv, NextFiled
  <1>3. FiledOK => RemovedIsFiled
    BY DEF FiledOK, Handled, RemovedIsFiled
  <1>4. QED BY <1>1, <1>2, <1>3, PTL DEF Spec
=============================================================================
