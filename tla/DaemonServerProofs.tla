-------------------------- MODULE DaemonServerProofs --------------------------
(***************************************************************************)
(* Proofs of the safety of DaemonServer, for any number of connections and *)
(* lines.  The order of the requests rests on the increasing enumeration   *)
(* of a set of line numbers, which exists: a set without one would have a  *)
(* least bound, and be without one below it.                               *)
(***************************************************************************)
EXTENDS DaemonServer, SequenceTheorems, FiniteSetTheorems, TLAPS

(* Inductive invariants *)

ServerType ==
  /\ connected \subseteq Clients
  /\ sent \in [Clients -> Seq(Lines)]
  /\ arrived \in [Clients -> Nat]
  /\ read \in [Clients -> Nat]
  /\ received \in [Clients -> Seq(Nat)]

\* No line leaves the buffer before it arrived, or arrives before it was sent.
BufferSound == \A c \in Clients : read[c] <= arrived[c] /\ arrived[c] <= Len(sent[c])

\* Lines wait only behind one that does not parse, also those of a client that
\* has left.
WaitSound ==
  \A c \in Clients : read[c] < arrived[c] => (read[c] > 0 /\ sent[c][read[c]] = "invalid")

-----------------------------------------------------------------------------
(* Sets of line numbers *)

\* A set of natural numbers has a least element.
LEMMA LeastNatural ==
  ASSUME NEW S \in SUBSET Nat, S # {}
  PROVE  \E x \in S : \A y \in S : x <= y
<1>1. IsWellFoundedOn(OpToRel(<, Nat), Nat)
  BY NatLessThanWellFounded
<1>2. PICK x \in S : \A y \in S : ~(<<y, x>> \in OpToRel(<, Nat))
  BY <1>1, WFMin
<1>3. \A y \in S : ~(y < x)
  BY <1>2 DEF OpToRel
<1> QED
  BY <1>3

LEMMA MinFacts ==
  ASSUME NEW S \in SUBSET Nat, S # {}
  PROVE  Min(S) \in S /\ \A y \in S : Min(S) <= y
BY LeastNatural DEF Min

\* A set that can be put in increasing order.
Enumerable(S) == \E s \in [1..Cardinality(S) -> S] : Increasing(s)

\* Every set of line numbers up to some bound can be put in order.
LEMMA OrderExists ==
  ASSUME NEW n \in Nat, NEW S \in SUBSET (1..n)
  PROVE  IsFiniteSet(S) /\ Enumerable(S)
<1> DEFINE Bad == {k \in Nat : \E T \in SUBSET (1..k) : ~Enumerable(T)}
<1>1. ASSUME NEW k \in Nat, NEW T \in SUBSET (1..k)
      PROVE  IsFiniteSet(T) /\ Cardinality(T) \in Nat
  <2>1. IsFiniteSet(1..k)
    BY FS_Interval
  <2> QED
    BY <2>1, FS_Subset, FS_CardinalityType
<1>2. CASE Bad = {}
  BY <1>1, <1>2
<1>3. CASE Bad # {}
  <2>1. PICK k \in Bad : \A j \in Bad : k <= j
    BY <1>3, LeastNatural
  <2>2. PICK T \in SUBSET (1..k) : ~Enumerable(T)
    BY <2>1
  <2>3. CASE k = 0 \/ k \notin T
    <3>1. CASE k = 0
      <4>1. T = {} /\ Cardinality(T) = 0
        <5>1. 1..k = {}
          BY <3>1
        <5> QED
          BY <2>2, <5>1, FS_EmptySet
      <4>2. <<>> \in [1..0 -> {}] /\ Increasing(<<>>)
        BY DEF Increasing
      <4> QED
        BY <2>2, <4>1, <4>2 DEF Enumerable
    <3>2. CASE k # 0
      <4>1. k - 1 \in Nat /\ T \in SUBSET (1..(k - 1)) /\ ~(k <= k - 1)
        BY <2>1, <2>3, <3>2
      <4> QED
        BY <2>1, <2>2, <4>1
    <3> QED
      BY <3>1, <3>2
  <2>4. CASE k # 0 /\ k \in T
    <3> DEFINE U == T \ {k}
               m == Cardinality(U)
    <3>1. k - 1 \in Nat /\ U \in SUBSET (1..(k - 1)) /\ ~(k <= k - 1)
      BY <2>1, <2>4
    <3>2. Enumerable(U)
      BY <2>1, <3>1
    <3>3. m \in Nat /\ Cardinality(T) = m + 1
      <4>1. IsFiniteSet(T) /\ IsFiniteSet(U) /\ Cardinality(T) \in Nat /\ m \in Nat
        BY <1>1, <2>1, <3>1
      <4>2. m = Cardinality(T) - 1
        BY <2>4, <4>1, FS_RemoveElement
      <4> QED
        BY <4>1, <4>2
    <3>4. PICK u \in [1..m -> U] : Increasing(u)
      BY <3>2 DEF Enumerable
    <3>5. \A i \in 1..m : u[i] \in T /\ u[i] \in Nat /\ u[i] < k
      <4>1. k \in Nat
        BY <2>1
      <4>2. ASSUME NEW x \in U
            PROVE  x \in T /\ x \in Nat /\ x < k
        <5>1. x \in T /\ x \in 1..(k - 1)
          BY <3>1
        <5> QED
          BY <4>1, <5>1
      <4> HIDE DEF U
      <4> QED
        BY <3>4, <4>2
    <3> DEFINE t == [i \in 1..(m + 1) |-> IF i = m + 1 THEN k ELSE u[i]]
    <3>6. t \in [1..(m + 1) -> T]
      <4>1. \A i \in 1..(m + 1) : i # m + 1 => i \in 1..m
        BY <3>3
      <4> QED
        BY <2>4, <3>5, <4>1
    <3>7. ASSUME NEW i \in 1..(m + 1), NEW j \in 1..(m + 1), i < j
          PROVE  t[i] < t[j]
      <4>1. i \in 1..m /\ u[i] < k
        <5>1. i \in 1..m
          BY <3>3, <3>7
        <5> QED
          BY <3>5, <5>1
      <4>2. CASE j = m + 1
        BY <3>3, <4>1, <4>2
      <4>3. CASE j # m + 1
        <5>1. j \in 1..m
          BY <3>3, <4>3
        <5>2. u[i] < u[j]
          BY <3>4, <3>7, <4>1, <5>1 DEF Increasing
        <5> QED
          BY <3>3, <4>1, <4>3, <5>1, <5>2
      <4> QED
        BY <4>2, <4>3
    <3> HIDE DEF t
    <3>8. Increasing(t)
      BY <3>6, <3>7 DEF Increasing
    <3> QED
      BY <2>2, <3>3, <3>6, <3>8 DEF Enumerable
  <2> QED
    BY <2>3, <2>4
<1> QED
  BY <1>2, <1>3

\* The lines of a set in order are its members, each once.
LEMMA InOrderFacts ==
  ASSUME NEW n \in Nat, NEW S \in SUBSET (1..n)
  PROVE  InOrder(S) \in Seq(Nat) /\ ToSet(InOrder(S)) = S /\ Increasing(InOrder(S))
<1> DEFINE s == InOrder(S)
           m == Cardinality(S)
<1>1. IsFiniteSet(S) /\ m \in Nat
  BY OrderExists, FS_CardinalityType
<1>2. s \in [1..m -> S] /\ Increasing(s)
  BY OrderExists DEF Enumerable, InOrder
<1> HIDE DEF s
<1>3. \A i \in 1..m : s[i] \in Nat
  <2>1. \A x \in S : x \in Nat
    OBVIOUS
  <2> QED
    BY <1>2, <2>1
<1>4. s \in Injection(1..m, S)
  <2>1. ASSUME NEW i \in 1..m, NEW j \in 1..m, s[i] = s[j]
        PROVE  i = j
    <3>1. s[i] \in Nat /\ ~(s[i] < s[j]) /\ ~(s[j] < s[i])
      BY <1>3, <2>1
    <3>2. ~(i < j) /\ ~(j < i)
      BY <1>2, <3>1 DEF Increasing
    <3> QED
      BY <1>1, <3>2
  <2> QED
    BY <1>2, <2>1 DEF Injection, IsInjective
<1>5. Cardinality(1..m) = m
  BY <1>1, FS_Interval
<1>6. s \in Surjection(1..m, S)
  BY <1>1, <1>4, <1>5, FS_Injection
<1>7. s \in Seq(Nat) /\ DOMAIN s = 1..m
  <2>1. s \in [1..m -> Nat]
    BY <1>2, <1>3
  <2> QED
    BY <1>1, <2>1
<1>8. ToSet(s) = S
  BY <1>2, <1>6, <1>7 DEF ToSet, Surjection
<1> QED
  BY <1>2, <1>7, <1>8 DEF s

-----------------------------------------------------------------------------
(* One call of clientReadyRead *)

\* It stops after a line that does not parse, or after the last line.
LEMMA StopsAfterFacts ==
  ASSUME ServerType, BufferSound, NEW c \in Clients,
         NEW n \in Nat, arrived[c] <= n, n <= Len(sent[c])
  PROVE  LET k == StopsAfter(c, n)
         IN  /\ k \in Nat /\ read[c] <= k /\ k <= n
             /\ k < n => k > 0 /\ sent[c][k] = "invalid"
<1> DEFINE invalid == {i \in (read[c] + 1)..n : sent[c][i] = "invalid"}
<1>1. read[c] \in Nat /\ read[c] <= n
  BY DEF ServerType, BufferSound
<1>2. CASE invalid = {}
  BY <1>1, <1>2 DEF StopsAfter
<1>3. CASE invalid # {}
  <2>1. invalid \in SUBSET Nat
    BY <1>1
  <2>2. StopsAfter(c, n) = Min(invalid)
    BY <1>3 DEF StopsAfter
  <2>3. Min(invalid) \in invalid
    BY <1>3, <2>1, MinFacts
  <2> QED
    BY <1>1, <2>2, <2>3
<1> QED
  BY <1>2, <1>3

\* What it passes on is the requests among the lines it goes through, in order.
LEMMA RequestsFacts ==
  ASSUME NEW c \in Clients, NEW i \in Nat, NEW k \in Nat
  PROVE  LET s == Requests(c, (i + 1)..k)
         IN  s \in Seq(Nat) /\ ToSet(s) = RequestsIn(c, (i + 1)..k) /\ Increasing(s)
<1>1. RequestsIn(c, (i + 1)..k) \in SUBSET (1..k)
  BY DEF RequestsIn
<1> QED
  BY <1>1, InOrderFacts DEF Requests

LEMMA ReadyRead ==
  ASSUME ServerType, BufferSound, NEW c \in Clients, NEW n \in 0..MaxLines, ClientReadyRead(c, n)
  PROVE  \E k \in Nat :
           /\ n \in Nat /\ arrived[c] <= n /\ n <= Len(sent[c])
           /\ read[c] <= k /\ k <= n
           /\ k < n => k > 0 /\ sent[c][k] = "invalid"
           /\ arrived' = [arrived EXCEPT ![c] = n]
           /\ read' = [read EXCEPT ![c] = k]
           /\ received' = [received EXCEPT ![c] = received[c] \o Requests(c, (read[c] + 1)..k)]
           /\ UNCHANGED <<connected, sent>>
<1>1. n \in Nat /\ arrived[c] <= n /\ n <= Len(sent[c])
  BY MaxLinesAssumption, LenProperties DEF ClientReadyRead, ServerType
<1> DEFINE k == StopsAfter(c, n)
<1>2. /\ k \in Nat /\ read[c] <= k /\ k <= n
      /\ k < n => k > 0 /\ sent[c][k] = "invalid"
  BY <1>1, StopsAfterFacts
<1>3. /\ arrived' = [arrived EXCEPT ![c] = n]
      /\ read' = [read EXCEPT ![c] = k]
      /\ received' = [received EXCEPT ![c] = received[c] \o Requests(c, (read[c] + 1)..k)]
      /\ UNCHANGED <<connected, sent>>
  BY DEF ClientReadyRead
<1> HIDE DEF k
<1> QED
  BY <1>1, <1>2, <1>3

-----------------------------------------------------------------------------
(* The buffer *)

LEMMA ServerInit == Init => ServerType /\ BufferSound /\ WaitSound
<1>1. <<>> \in Seq(Lines) /\ <<>> \in Seq(Nat) /\ Len(<<>>) = 0
  OBVIOUS
<1> QED
  BY <1>1 DEF Init, ServerType, BufferSound, WaitSound

\* What the client appends comes after what was read and what arrived.
LEMMA SendKeeps ==
  ASSUME ServerType, BufferSound, WaitSound, NEW c \in Clients, NEW line \in Lines, Send(c, line)
  PROVE  ServerType' /\ BufferSound' /\ WaitSound'
<1>1. /\ Append(sent[c], line) \in Seq(Lines)
      /\ Len(sent[c]) \in Nat /\ Len(Append(sent[c], line)) = Len(sent[c]) + 1
      /\ \A i \in 1..Len(sent[c]) : Append(sent[c], line)[i] = sent[c][i]
  BY AppendProperties, LenProperties DEF ServerType
<1>2. sent' = [sent EXCEPT ![c] = Append(sent[c], line)] /\ UNCHANGED <<connected, arrived, read, received>>
  BY DEF Send
<1>3. ServerType'
  BY <1>1, <1>2 DEF ServerType
<1>4. ASSUME NEW d \in Clients
      PROVE  /\ arrived[d] <= Len(sent'[d])
             /\ (0 < read[d] /\ read[d] < arrived[d]) => sent'[d][read[d]] = sent[d][read[d]]
  <2>1. /\ read[d] \in Nat /\ arrived[d] \in Nat /\ Len(sent[d]) \in Nat
        /\ read[d] <= arrived[d] /\ arrived[d] <= Len(sent[d])
    BY LenProperties DEF ServerType, BufferSound
  <2>2. CASE d = c
    <3>1. sent'[d] = Append(sent[c], line)
      BY <1>2, <2>2 DEF ServerType
    <3> QED
      BY <1>1, <2>1, <2>2, <3>1
  <2>3. CASE d # c
    <3>1. sent'[d] = sent[d]
      BY <1>2, <2>3 DEF ServerType
    <3> QED
      BY <2>1, <3>1
  <2> QED
    BY <2>2, <2>3
<1>5. BufferSound'
  BY <1>2, <1>4 DEF BufferSound
<1>6. WaitSound'
  BY <1>2, <1>4 DEF WaitSound
<1> QED
  BY <1>3, <1>5, <1>6

LEMMA ReadKeeps ==
  ASSUME ServerType, BufferSound, WaitSound, NEW c \in Clients, NEW n \in 0..MaxLines,
         ClientReadyRead(c, n)
  PROVE  ServerType' /\ BufferSound' /\ WaitSound'
<1>1. PICK k \in Nat :
        /\ n \in Nat /\ arrived[c] <= n /\ n <= Len(sent[c])
        /\ read[c] <= k /\ k <= n
        /\ k < n => k > 0 /\ sent[c][k] = "invalid"
        /\ arrived' = [arrived EXCEPT ![c] = n]
        /\ read' = [read EXCEPT ![c] = k]
        /\ received' = [received EXCEPT ![c] = received[c] \o Requests(c, (read[c] + 1)..k)]
        /\ UNCHANGED <<connected, sent>>
  BY ReadyRead
<1>2. received[c] \o Requests(c, (read[c] + 1)..k) \in Seq(Nat)
  <2>1. read[c] \in Nat /\ received[c] \in Seq(Nat)
    BY DEF ServerType
  <2> QED
    BY <1>1, <2>1, RequestsFacts, ConcatProperties
<1>3. ServerType'
  BY <1>1, <1>2 DEF ServerType
<1>4. \A d \in Clients : /\ read'[d] = IF d = c THEN k ELSE read[d]
                         /\ arrived'[d] = IF d = c THEN n ELSE arrived[d]
  BY <1>1 DEF ServerType
<1>5. BufferSound'
  BY <1>1, <1>4 DEF BufferSound
<1>6. WaitSound'
  BY <1>1, <1>4 DEF WaitSound
<1> QED
  BY <1>3, <1>5, <1>6

LEMMA ServerStep ==
  ServerType /\ BufferSound /\ WaitSound /\ [Next]_vars => ServerType' /\ BufferSound' /\ WaitSound'
<1> SUFFICES ASSUME ServerType, BufferSound, WaitSound, [Next]_vars
             PROVE  ServerType' /\ BufferSound' /\ WaitSound'
  OBVIOUS
<1>1. ASSUME NEW c \in Clients, Connect(c) \/ ClientDisconnected(c)
      PROVE  connected' \subseteq Clients /\ UNCHANGED <<sent, arrived, read, received>>
  BY <1>1 DEF Connect, ClientDisconnected, ServerType
<1>2. CASE connected' \subseteq Clients /\ UNCHANGED <<sent, arrived, read, received>>
  BY <1>2 DEF ServerType, BufferSound, WaitSound
<1>3. CASE UNCHANGED vars
  BY <1>3 DEF ServerType, BufferSound, WaitSound, vars
<1> QED
  BY <1>1, <1>2, <1>3, SendKeeps, ReadKeeps DEF Next

LEMMA ServerInvariant == Spec => [](ServerType /\ BufferSound /\ WaitSound)
BY ServerInit, ServerStep, PTL DEF Spec

\* Lines wait in the read buffer only behind a line that did not parse
\* (clientReadyRead returns there, and reads every complete line otherwise).
THEOREM LinesWaitBehindInvalid == Spec => []WaitOnlyBehindInvalid
<1>1. ServerType /\ BufferSound /\ WaitSound => WaitOnlyBehindInvalid
  BY DEF ServerType, WaitSound, WaitOnlyBehindInvalid
<1> QED
  BY <1>1, ServerInvariant, PTL

-----------------------------------------------------------------------------
(* The order of the requests *)

\* Requests after those that were passed on go behind them.
LEMMA JoinInOrder ==
  ASSUME NEW s \in Seq(Nat), NEW t \in Seq(Nat), NEW k \in Nat,
         Increasing(s), Increasing(t),
         \A x \in ToSet(s) : x <= k, \A x \in ToSet(t) : x > k
  PROVE  Increasing(s \o t) /\ ToSet(s \o t) = ToSet(s) \cup ToSet(t)
<1> DEFINE st == s \o t
           ls == Len(s)
           lt == Len(t)
<1>1. /\ ls \in Nat /\ DOMAIN s = 1..ls /\ lt \in Nat /\ DOMAIN t = 1..lt
      /\ st \in Seq(Nat) /\ Len(st) = ls + lt /\ DOMAIN st = 1..(ls + lt)
  BY LenProperties, ConcatProperties
<1>2. /\ \A i \in 1..ls : st[i] = s[i] /\ s[i] \in ToSet(s) /\ s[i] \in Nat
      /\ \A i \in 1..lt : st[ls + i] = t[i] /\ t[i] \in ToSet(t) /\ t[i] \in Nat
  <2>1. \A i \in 1..(ls + lt) : st[i] = IF i <= ls THEN s[i] ELSE t[i - ls]
    BY ConcatProperties
  <2>2. \A i \in 1..ls : i \in 1..(ls + lt) /\ i <= ls
    BY <1>1
  <2>3. \A i \in 1..lt : ls + i \in 1..(ls + lt) /\ ~(ls + i <= ls) /\ (ls + i) - ls = i
    BY <1>1
  <2>4. /\ \A i \in 1..ls : s[i] \in ToSet(s) /\ s[i] \in Nat
        /\ \A i \in 1..lt : t[i] \in ToSet(t) /\ t[i] \in Nat
    BY <1>1, ElementOfSeq DEF ToSet
  <2> HIDE DEF st, ls, lt
  <2> QED
    BY <2>1, <2>2, <2>3, <2>4
<1> HIDE DEF st, ls, lt
<1>3. ASSUME NEW i \in 1..(ls + lt), i \notin 1..ls
      PROVE  i - ls \in 1..lt /\ i = ls + (i - ls)
  BY <1>1, <1>3
<1>4. ASSUME NEW i \in 1..(ls + lt), NEW j \in 1..(ls + lt), i < j
      PROVE  st[i] < st[j]
  <2>1. CASE j \in 1..ls
    <3>1. i \in 1..ls
      BY <1>1, <1>4, <2>1
    <3> QED
      BY <1>1, <1>2, <1>4, <2>1, <3>1 DEF Increasing
  <2>2. CASE j \notin 1..ls /\ i \in 1..ls
    <3>1. st[j] \in ToSet(t) /\ st[j] \in Nat
      BY <1>2, <1>3, <2>2
    <3>2. st[i] \in ToSet(s) /\ st[i] \in Nat
      BY <1>2, <2>2
    <3> QED
      BY <3>1, <3>2
  <2>3. CASE i \notin 1..ls
    <3>1. j \notin 1..ls
      BY <1>1, <1>4, <2>3
    <3>2. i - ls \in 1..lt /\ j - ls \in 1..lt /\ i - ls < j - ls
      BY <1>1, <1>3, <1>4, <2>3, <3>1
    <3>3. t[i - ls] < t[j - ls]
      BY <1>1, <3>2 DEF Increasing
    <3>4. st[i] = t[i - ls] /\ st[j] = t[j - ls]
      BY <1>2, <1>3, <2>3, <3>1, <3>2
    <3> QED
      BY <3>3, <3>4
  <2> QED
    BY <2>1, <2>2, <2>3
<1>5. Increasing(st)
  BY <1>1, <1>4 DEF Increasing
<1>6. ToSet(st) \subseteq ToSet(s) \cup ToSet(t)
  <2> SUFFICES ASSUME NEW i \in 1..(ls + lt)
               PROVE  st[i] \in ToSet(s) \cup ToSet(t)
    BY <1>1 DEF ToSet
  <2> QED
    BY <1>2, <1>3
<1>7. ToSet(s) \cup ToSet(t) \subseteq ToSet(st)
  <2>1. ASSUME NEW i \in 1..ls
        PROVE  s[i] \in ToSet(st)
    <3>1. i \in DOMAIN st /\ st[i] = s[i]
      BY <1>1, <1>2
    <3> QED
      BY <3>1 DEF ToSet
  <2>2. ASSUME NEW i \in 1..lt
        PROVE  t[i] \in ToSet(st)
    <3>1. ls + i \in DOMAIN st /\ st[ls + i] = t[i]
      BY <1>1, <1>2
    <3> QED
      BY <3>1 DEF ToSet
  <2>3. \A x \in ToSet(s) : \E i \in 1..ls : x = s[i]
    BY <1>1 DEF ToSet
  <2>4. \A x \in ToSet(t) : \E i \in 1..lt : x = t[i]
    BY <1>1 DEF ToSet
  <2> QED
    BY <2>1, <2>2, <2>3, <2>4
<1> QED
  BY <1>5, <1>6, <1>7 DEF st

LEMMA HandledInit == Init => HandledInOrder
BY DEF Init, HandledInOrder, RequestsIn, Increasing, ToSet

LEMMA ReadInOrder ==
  ASSUME ServerType, BufferSound, HandledInOrder, NEW c \in Clients, NEW n \in 0..MaxLines,
         ClientReadyRead(c, n)
  PROVE  HandledInOrder'
<1>1. PICK k \in Nat :
        /\ read[c] <= k
        /\ read' = [read EXCEPT ![c] = k]
        /\ received' = [received EXCEPT ![c] = received[c] \o Requests(c, (read[c] + 1)..k)]
        /\ UNCHANGED sent
  BY ReadyRead
<1>2. read[c] \in Nat /\ received[c] \in Seq(Nat)
  BY DEF ServerType
<1> DEFINE s == received[c]
           t == Requests(c, (read[c] + 1)..k)
<1>3. ToSet(s) = RequestsIn(c, 1..read[c]) /\ Increasing(s)
  BY DEF HandledInOrder
<1>4. t \in Seq(Nat) /\ ToSet(t) = RequestsIn(c, (read[c] + 1)..k) /\ Increasing(t)
  BY <1>1, <1>2, RequestsFacts
<1>5. /\ \A x \in ToSet(s) : x <= read[c]
      /\ \A x \in ToSet(t) : x > read[c]
  BY <1>2, <1>3, <1>4 DEF RequestsIn
<1> HIDE DEF s, t
<1>6. Increasing(s \o t) /\ ToSet(s \o t) = ToSet(s) \cup ToSet(t)
  BY <1>2, <1>3, <1>4, <1>5, JoinInOrder DEF s
<1>7. 1..read[c] \cup (read[c] + 1)..k = 1..k
  BY <1>1, <1>2
<1>8. ToSet(s \o t) = RequestsIn(c, 1..k)
  BY <1>3, <1>4, <1>6, <1>7 DEF RequestsIn
<1>9. ASSUME NEW d \in Clients
      PROVE  ToSet(received'[d]) = RequestsIn(d, 1..read[d])' /\ Increasing(received'[d])
  <2>1. CASE d = c
    <3>1. received'[d] = s \o t /\ read'[d] = k /\ sent' = sent
      BY <1>1, <2>1 DEF ServerType, s, t
    <3> QED
      BY <1>6, <1>8, <2>1, <3>1 DEF RequestsIn
  <2>2. CASE d # c
    <3>1. received'[d] = received[d] /\ read'[d] = read[d] /\ sent' = sent
      BY <1>1, <2>2 DEF ServerType
    <3> QED
      BY <3>1 DEF HandledInOrder, RequestsIn
  <2> QED
    BY <2>1, <2>2
<1> QED
  BY <1>9 DEF HandledInOrder

LEMMA SendInOrder ==
  ASSUME ServerType, BufferSound, HandledInOrder, NEW c \in Clients, NEW line \in Lines,
         Send(c, line)
  PROVE  HandledInOrder'
<1>1. sent' = [sent EXCEPT ![c] = Append(sent[c], line)] /\ UNCHANGED <<read, received>>
  BY DEF Send
<1>2. ASSUME NEW d \in Clients
      PROVE  RequestsIn(d, 1..read[d])' = RequestsIn(d, 1..read[d])
  <2>1. /\ read[d] \in Nat /\ read[d] <= Len(sent[d]) /\ Len(sent[d]) \in Nat
        /\ sent[d] \in Seq(Lines)
    BY LenProperties DEF ServerType, BufferSound
  <2>2. \A i \in 1..Len(sent[d]) : sent'[d][i] = sent[d][i]
    BY <1>1, <2>1, AppendProperties DEF ServerType
  <2> QED
    BY <1>1, <2>1, <2>2 DEF RequestsIn
<1> QED
  BY <1>1, <1>2 DEF HandledInOrder

LEMMA HandledStep ==
  ServerType /\ BufferSound /\ HandledInOrder /\ [Next]_vars => HandledInOrder'
<1> SUFFICES ASSUME ServerType, BufferSound, HandledInOrder, [Next]_vars
             PROVE  HandledInOrder'
  OBVIOUS
<1>1. CASE UNCHANGED <<sent, read, received>>
  BY <1>1 DEF HandledInOrder, RequestsIn
<1>2. ASSUME NEW c \in Clients, Connect(c) \/ ClientDisconnected(c)
      PROVE  UNCHANGED <<sent, read, received>>
  BY <1>2 DEF Connect, ClientDisconnected
<1> QED
  BY <1>1, <1>2, SendInOrder, ReadInOrder DEF Next, vars

\* The requests of a client are handled in the order it sent them, each once,
\* and none that is still in the buffer (clientReadyRead, jsonReceived).
THEOREM RequestsStayInOrder == Spec => []HandledInOrder
BY ServerInvariant, HandledInit, HandledStep, PTL DEF Spec
=============================================================================
