---------------------------- MODULE ProdLogProofs ----------------------------
(***************************************************************************)
(* Proofs of the properties of ProdLog, for every length of the history,   *)
(* every number of messages after an alert and every clock.  The           *)
(* strengthenings speak of the file that is being written: it ends with    *)
(* the last message and holds the messages of the history, and it is open  *)
(* for as many messages as any alert written to it still waits for.        *)
(***************************************************************************)
EXTENDS ProdLog, SequenceTheorems, TLAPS

(* Inductive invariants *)

Alerts == [at : Nat, file : Seconds]

LogType ==
  /\ logHistory \in Seq(Nat)
  /\ remaining \in Nat
  /\ file \in Seconds \cup {NoFile}
  /\ disk \in [Seconds -> Seq(Nat)]
  /\ now \in Seconds
  /\ last \in Nat
  /\ alerts \subseteq Alerts

\* The messages up to n, as many of them as the history holds.
Latest(s, n) ==
  /\ Len(s) = IF n < History THEN n ELSE History
  /\ \A i \in 1..Len(s) : s[i] = n - Len(s) + i

HistorySound == Latest(logHistory, last)

\* A sequence that ends with the last message.
EndsWithLast(s) == s # <<>> /\ s[Len(s)] = last

\* A file that is being written ends with the last message.
FilesSound ==
  /\ FilesContiguous
  /\ Active /\ file # NoFile => EndsWithLast(disk[file])

\* Of the messages up to k, the sequence holds the History - 1 before message n
\* and the Future after it.
Holds(s, n, k) ==
  \A m \in 1..k : (m + History > n /\ m <= n + Future) => m \in ToSet(s)

\* An alert's file has all it is to have, or it is open for the rest of it.
Served(a) ==
  \/ a.at + Future <= last
  \/ file = a.file /\ a.at + Future <= last + remaining

\* A file that is being written holds what an alert logged now would need of
\* it, and what every alert that was written to it needs.
AlertsSound ==
  /\ remaining <= Future
  /\ Active /\ file # NoFile => Holds(disk[file], last, last)
  /\ \A a \in alerts : a.at <= last /\ Served(a) /\ Holds(disk[a.file], a.at, last)

-----------------------------------------------------------------------------
(* Sequences *)

\* What Append does, in the words of the properties.
LEMMA AppendFacts ==
  ASSUME NEW s \in Seq(Nat), NEW n \in Nat
  PROVE  /\ Append(s, n) \in Seq(Nat) /\ Append(s, n) # <<>>
         /\ Len(Append(s, n)) = Len(s) + 1
         /\ \A i \in 1..Len(s) : Append(s, n)[i] = s[i]
         /\ Append(s, n)[Len(s) + 1] = n
         /\ ToSet(s) \subseteq ToSet(Append(s, n)) /\ n \in ToSet(Append(s, n))
<1>1. /\ Append(s, n) \in Seq(Nat) /\ Append(s, n) # <<>>
      /\ Len(Append(s, n)) = Len(s) + 1
      /\ \A i \in 1..Len(s) : Append(s, n)[i] = s[i]
      /\ Append(s, n)[Len(s) + 1] = n
  BY AppendProperties
<1>2. Len(s) \in Nat /\ DOMAIN s = 1..Len(s)
  BY LenProperties
<1>3. DOMAIN Append(s, n) = 1..(Len(s) + 1)
  BY <1>1, LenProperties
<1>4. ToSet(s) \subseteq ToSet(Append(s, n))
  <2> SUFFICES ASSUME NEW i \in 1..Len(s)
               PROVE  s[i] \in ToSet(Append(s, n))
    BY <1>2 DEF ToSet
  <2>1. i \in DOMAIN Append(s, n) /\ Append(s, n)[i] = s[i]
    BY <1>1, <1>2, <1>3
  <2> QED
    BY <2>1 DEF ToSet
<1>5. n \in ToSet(Append(s, n))
  <2>1. Len(s) + 1 \in DOMAIN Append(s, n)
    BY <1>2, <1>3
  <2> QED
    BY <1>1, <2>1 DEF ToSet
<1> QED
  BY <1>1, <1>4, <1>5

\* A sequence is a prefix of itself and of itself with one more message.
LEMMA AppendedPrefix ==
  ASSUME NEW s \in Seq(Nat), NEW n \in Nat
  PROVE  IsPrefix(s, s) /\ IsPrefix(s, Append(s, n))
<1> DEFINE t == Append(s, n)
<1>1. Len(s) \in Nat /\ Len(t) = Len(s) + 1
  BY LenProperties, AppendFacts
<1>2. \A i \in 1..Len(s) : s[i] \in Nat /\ t[i] = s[i]
  BY ElementOfSeq, AppendFacts
<1> HIDE DEF t
<1>3. /\ SubSeq(s, 1, Len(s)) \in Seq(Nat) /\ SubSeq(t, 1, Len(s)) \in Seq(Nat)
      /\ Len(SubSeq(s, 1, Len(s))) = Len(SubSeq(t, 1, Len(s)))
      /\ Len(SubSeq(s, 1, Len(s))) = Len(s)
      /\ \A i \in 1..Len(s) : SubSeq(s, 1, Len(s))[i] = SubSeq(t, 1, Len(s))[i]
  <2>1. /\ SubSeq(s, 1, Len(s)) \in Seq(Nat)
        /\ Len(SubSeq(s, 1, Len(s))) = IF 1 <= Len(s) THEN Len(s) - 1 + 1 ELSE 0
        /\ \A i \in 1..(Len(s) - 1 + 1) : SubSeq(s, 1, Len(s))[i] = s[1 + i - 1]
    BY <1>1, <1>2, SubSeqProperties
  <2>2. /\ SubSeq(t, 1, Len(s)) \in Seq(Nat)
        /\ Len(SubSeq(t, 1, Len(s))) = IF 1 <= Len(s) THEN Len(s) - 1 + 1 ELSE 0
        /\ \A i \in 1..(Len(s) - 1 + 1) : SubSeq(t, 1, Len(s))[i] = t[1 + i - 1]
    BY <1>1, <1>2, SubSeqProperties
  <2>3. Len(s) - 1 + 1 = Len(s) /\ \A i \in 1..Len(s) : 1 + i - 1 = i
    BY <1>1
  <2> QED
    BY <1>1, <1>2, <2>1, <2>2, <2>3
<1>4. SubSeq(s, 1, Len(s)) = SubSeq(t, 1, Len(s))
  BY <1>3, SeqEqual
<1> QED
  BY <1>1, <1>4 DEF IsPrefix, t

-----------------------------------------------------------------------------
(* The history *)

\* The deque holds the messages before the one that is pushed, as many of them
\* as it may, and then that one.
LEMMA PushedFacts ==
  ASSUME LogType, HistorySound
  PROVE  LET s == Pushed(last + 1)
         IN  s \in Seq(Nat) /\ s # <<>> /\ Latest(s, last + 1)
<1>0. last \in Nat /\ logHistory \in Seq(Nat) /\ History \in Nat \ {0}
  BY HistoryAssumption DEF LogType
<1> DEFINE longer == Append(logHistory, last + 1)
<1>1. /\ Len(logHistory) \in Nat /\ DOMAIN logHistory = 1..Len(logHistory)
      /\ Len(logHistory) = IF last < History THEN last ELSE History
      /\ \A i \in 1..Len(logHistory) : logHistory[i] = last - Len(logHistory) + i
  BY <1>0, LenProperties DEF HistorySound, Latest
<1>2. /\ longer \in Seq(Nat) /\ longer # <<>>
      /\ Len(longer) = Len(logHistory) + 1
      /\ \A i \in 1..Len(longer) : longer[i] = (last + 1) - Len(longer) + i
  <2>1. /\ longer \in Seq(Nat) /\ longer # <<>>
        /\ Len(longer) = Len(logHistory) + 1
        /\ \A i \in 1..Len(logHistory) : longer[i] = logHistory[i]
        /\ longer[Len(logHistory) + 1] = last + 1
    BY <1>0, AppendFacts
  <2> HIDE DEF longer
  <2>2. ASSUME NEW i \in 1..Len(longer)
        PROVE  longer[i] = (last + 1) - Len(longer) + i
    <3>1. CASE i \in 1..Len(logHistory)
      <4>1. longer[i] = last - Len(logHistory) + i
        BY <1>1, <2>1, <3>1
      <4>2. last - Len(logHistory) + i = (last + 1) - (Len(logHistory) + 1) + i
        BY <1>0, <1>1
      <4> QED
        BY <2>1, <4>1, <4>2
    <3>2. CASE i = Len(logHistory) + 1
      BY <1>0, <1>1, <2>1, <3>2
    <3> QED
      BY <1>0, <1>1, <2>1, <3>1, <3>2
  <2> QED
    BY <2>1, <2>2
<1> HIDE DEF longer
<1>3. CASE Len(longer) > History
  <2>1. Pushed(last + 1) = Tail(longer)
    BY <1>3 DEF Pushed, longer
  <2>2. /\ Tail(longer) \in Seq(Nat)
        /\ Len(Tail(longer)) = Len(longer) - 1
        /\ \A i \in 1..Len(Tail(longer)) : Tail(longer)[i] = longer[i + 1]
    BY <1>2, HeadTailProperties
  <2>3. Len(Tail(longer)) = History /\ ~(last + 1 < History) /\ Len(longer) = History + 1
    BY <1>0, <1>1, <1>2, <1>3, <2>2
  <2>4. ASSUME NEW i \in 1..Len(Tail(longer))
        PROVE  Tail(longer)[i] = (last + 1) - Len(Tail(longer)) + i
    <3>1. i + 1 \in 1..Len(longer) /\ Tail(longer)[i] = longer[i + 1]
      BY <1>0, <2>2, <2>3
    <3>2. longer[i + 1] = (last + 1) - Len(longer) + (i + 1)
      BY <1>2, <3>1
    <3>3. (last + 1) - (History + 1) + (i + 1) = (last + 1) - History + i
      BY <1>0, <2>3
    <3> QED
      BY <2>3, <3>1, <3>2, <3>3
  <2>5. Tail(longer) # <<>>
    BY <1>0, <2>2, <2>3, EmptySeq
  <2> QED
    BY <2>1, <2>2, <2>3, <2>4, <2>5 DEF Latest
<1>4. CASE ~(Len(longer) > History)
  <2>1. Pushed(last + 1) = longer
    BY <1>4 DEF Pushed, longer
  <2>2. Len(longer) = IF last + 1 < History THEN last + 1 ELSE History
    BY <1>0, <1>1, <1>2, <1>4
  <2> QED
    BY <1>2, <2>1, <2>2 DEF Latest
<1> QED
  BY <1>3, <1>4

LEMMA HistoryInit == Init => HistorySound
<1>1. Len(<<>>) = 0
  OBVIOUS
<1>2. Latest(<<>>, 0)
  BY <1>1, HistoryAssumption DEF Latest
<1> QED
  BY <1>2 DEF Init, HistorySound

LEMMA HistoryStep == LogType /\ HistorySound /\ [Next]_vars => HistorySound'
<1> SUFFICES ASSUME LogType, HistorySound, [Next]_vars
             PROVE  HistorySound'
  OBVIOUS
<1>1. CASE ProdLog
  <2>1. last' = last + 1 /\ logHistory' = Pushed(last + 1)
    BY <1>1 DEF ProdLog
  <2> QED
    BY <2>1, PushedFacts DEF HistorySound
<1>2. CASE UNCHANGED <<logHistory, last>>
  BY <1>2 DEF HistorySound
<1> QED
  BY <1>1, <1>2 DEF Next, Tick, vars

-----------------------------------------------------------------------------
(* Types *)

\* Writing the message appends it to the file that is being written, and to no
\* other.
LEMMA WrittenFacts ==
  ASSUME LogType, NEW n \in Nat
  PROVE  /\ Written(n) \in [Seconds -> Seq(Nat)]
         /\ \A s \in Seconds :
              Written(n)[s] = IF Active /\ s = file THEN Append(disk[s], n) ELSE disk[s]
<1>1. disk \in [Seconds -> Seq(Nat)] /\ file \in Seconds \cup {NoFile} /\ NoFile \notin Seconds
  BY MessagesAssumption DEF LogType
<1>2. CASE Active /\ file # NoFile
  <2>1. Written(n) = [disk EXCEPT ![file] = Append(disk[file], n)]
    BY <1>2 DEF Written
  <2>2. Append(disk[file], n) \in Seq(Nat)
    BY <1>1, <1>2, AppendFacts
  <2> QED
    BY <1>1, <1>2, <2>1, <2>2
<1>3. CASE ~(Active /\ file # NoFile)
  <2>1. Written(n) = disk
    BY <1>3 DEF Written
  <2> QED
    BY <1>1, <1>3, <2>1
<1> QED
  BY <1>2, <1>3

\* The four ways a message is logged.
LEMMA LogCases ==
  ASSUME ProdLog
  PROVE  \/ Log(last + 1)
         \/ AlertAgain(last + 1)
         \/ Alert(last + 1) /\ file' = now /\ disk' = PutHistory(last + 1)
            /\ alerts' = {a \in alerts : a.file # now} \cup {[at |-> last + 1, file |-> now]}
         \/ Alert(last + 1) /\ file' = NoFile /\ disk' = Written(last + 1) /\ UNCHANGED alerts
<1>1. last' = last + 1 /\ (Log(last') \/ AlertAgain(last') \/ Alert(last'))
  BY DEF ProdLog
<1>2. Log(last + 1) \/ AlertAgain(last + 1) \/ Alert(last + 1)
  BY <1>1
<1> QED
  BY <1>2 DEF Alert

LEMMA TypeInit == Init => LogType
<1>1. <<>> \in Seq(Nat)
  OBVIOUS
<1> QED
  BY <1>1 DEF Init, LogType

LEMMA TypeStep == LogType /\ HistorySound /\ [Next]_vars => LogType'
<1> SUFFICES ASSUME LogType, HistorySound, [Next]_vars
             PROVE  LogType'
  OBVIOUS
<1>1. CASE ProdLog
  <2> DEFINE n == last + 1
  <2>1. last' = n /\ n \in Nat /\ now' = now /\ logHistory' = Pushed(n)
    BY <1>1 DEF ProdLog, LogType
  <2>2. Pushed(n) \in Seq(Nat) /\ Written(n) \in [Seconds -> Seq(Nat)]
    BY <2>1, PushedFacts, WrittenFacts
  <2>3. Counted \in Nat /\ Future \in Nat
    BY HistoryAssumption DEF LogType, Counted, Active
  <2>4. \A s \in {now} \cup ({file} \ {NoFile}) : [at |-> n, file |-> s] \in Alerts
    BY <2>1 DEF LogType, Alerts
  <2> HIDE DEF n
  <2>5. CASE Log(n)
    BY <2>1, <2>2, <2>3, <2>5 DEF Log, LogType
  <2>6. CASE AlertAgain(n)
    BY <2>1, <2>2, <2>3, <2>4, <2>6 DEF AlertAgain, LogType
  <2>7. CASE /\ Alert(n) /\ file' = now /\ disk' = PutHistory(n)
             /\ alerts' = {a \in alerts : a.file # now} \cup {[at |-> n, file |-> now]}
    <3>1. PutHistory(n) \in [Seconds -> Seq(Nat)]
      BY <2>2 DEF PutHistory
    <3> QED
      BY <2>1, <2>2, <2>3, <2>4, <2>7, <3>1 DEF Alert, LogType
  <2>8. CASE Alert(n) /\ file' = NoFile /\ disk' = Written(n) /\ UNCHANGED alerts
    BY <2>1, <2>2, <2>3, <2>8 DEF Alert, LogType
  <2> QED
    BY <1>1, <2>5, <2>6, <2>7, <2>8, LogCases DEF n
<1>2. CASE Tick \/ UNCHANGED vars
  BY <1>2 DEF Tick, LogType, vars
<1> QED
  BY <1>1, <1>2 DEF Next

LEMMA HistoryInvariant == Spec => [](LogType /\ HistorySound)
BY TypeInit, TypeStep, HistoryInit, HistoryStep, PTL DEF Spec

\* The history is the messages logged last (prodLog pushes at the back and pops
\* at the front).
THEOREM HistoryKeepsLatest == Spec => []HistoryIsLatest
<1>1. LogType /\ HistorySound => HistoryIsLatest
  BY LenProperties DEF LogType, HistorySound, Latest, HistoryIsLatest
<1> QED
  BY <1>1, HistoryInvariant, PTL

-----------------------------------------------------------------------------
(* Files *)

\* What a step may do to a file: nothing; append the message, if it is the one
\* that is being written; or put the history in it, if it is the one that an
\* alert opens.
LEMMA FileSteps ==
  ASSUME LogType, ProdLog, NEW s \in Seconds
  PROVE  \/ disk'[s] = IF Active /\ s = file THEN Append(disk[s], last + 1) ELSE disk[s]
         \/ s = now /\ file' = now /\ disk'[s] = Pushed(last + 1)
            /\ \A a \in alerts' : a.file = s => a = [at |-> last + 1, file |-> now]
<1> DEFINE n == last + 1
<1>1. n \in Nat
  BY DEF LogType
<1>2. ASSUME disk' = Written(n)
      PROVE  disk'[s] = IF Active /\ s = file THEN Append(disk[s], n) ELSE disk[s]
  BY <1>1, <1>2, WrittenFacts
<1>3. CASE Log(n) \/ AlertAgain(n)
  BY <1>2, <1>3 DEF Log, AlertAgain
<1>4. CASE /\ Alert(n) /\ file' = now /\ disk' = PutHistory(n)
           /\ alerts' = {a \in alerts : a.file # now} \cup {[at |-> n, file |-> now]}
  <2>1. /\ disk'[s] = IF s = now THEN Pushed(n) ELSE Written(n)[s]
    BY <1>1, <1>4, WrittenFacts DEF PutHistory
  <2>2. CASE s = now
    <3>1. \A a \in alerts' : a.file = s => a = [at |-> last + 1, file |-> now]
      BY <1>4, <2>2
    <3> QED
      BY <1>4, <2>1, <2>2, <3>1
  <2>3. CASE s # now
    BY <1>1, <2>1, <2>3, WrittenFacts
  <2> QED
    BY <2>2, <2>3
<1>5. CASE Alert(n) /\ file' = NoFile /\ disk' = Written(n) /\ UNCHANGED alerts
  BY <1>2, <1>5
<1> QED
  BY <1>3, <1>4, <1>5, LogCases

\* A file that is being written after the message got it.
LEMMA StillWritten ==
  ASSUME LogType, ProdLog, Active', file' # NoFile
  PROVE  \/ Active /\ file' = file /\ file # NoFile /\ disk'[file] = Append(disk[file], last + 1)
         \/ file' = now /\ disk'[now] = Pushed(last + 1)
<1> DEFINE n == last + 1
<1>1. n \in Nat /\ remaining \in Nat
  BY DEF LogType
<1>2. ASSUME disk' = Written(n), Active, file # NoFile
      PROVE  disk'[file] = Append(disk[file], n)
  BY <1>1, <1>2, WrittenFacts DEF LogType
<1>3. CASE Log(n)
  <2>1. Active /\ file' = file
    BY <1>1, <1>3 DEF Log, Active, Counted
  <2> QED
    BY <1>2, <1>3, <2>1 DEF Log
<1>4. CASE AlertAgain(n)
  <2>1. Active /\ file' = file
    BY <1>1, <1>4 DEF AlertAgain, Active, Counted
  <2> QED
    BY <1>2, <1>4, <2>1 DEF AlertAgain
<1>5. CASE /\ Alert(n) /\ file' = now /\ disk' = PutHistory(n)
           /\ alerts' = {a \in alerts : a.file # now} \cup {[at |-> n, file |-> now]}
  <2>1. disk'[now] = Pushed(n)
    BY <1>1, <1>5, WrittenFacts DEF PutHistory, LogType
  <2> QED
    BY <1>5, <2>1
<1> QED
  BY <1>3, <1>4, <1>5, LogCases

\* The messages of the history come one after the other.
LEMMA LatestContiguous ==
  ASSUME NEW s \in Seq(Nat), NEW n \in Nat, s # <<>>, Latest(s, n)
  PROVE  s[Len(s)] = n /\ \A i \in 2..Len(s) : s[i] = s[i - 1] + 1
<1>1. Len(s) \in Nat \ {0}
  BY EmptySeq
<1>2. \A i \in 1..Len(s) : s[i] = n - Len(s) + i
  BY DEF Latest
<1>3. s[Len(s)] = n
  BY <1>1, <1>2
<1>4. ASSUME NEW i \in 2..Len(s)
      PROVE  s[i] = s[i - 1] + 1
  <2>1. i \in 1..Len(s) /\ i - 1 \in 1..Len(s)
    BY <1>1
  <2>2. s[i] = n - Len(s) + i /\ s[i - 1] = n - Len(s) + (i - 1)
    BY <1>2, <2>1
  <2> QED
    BY <1>1, <2>2
<1> QED
  BY <1>3, <1>4

\* The next message goes on where a file that ends with the last one stopped.
LEMMA AppendContiguous ==
  ASSUME NEW s \in Seq(Nat), NEW n \in Nat, s # <<>>, s[Len(s)] = n,
         \A i \in 2..Len(s) : s[i] = s[i - 1] + 1
  PROVE  LET t == Append(s, n + 1)
         IN  t # <<>> /\ t[Len(t)] = n + 1 /\ \A i \in 2..Len(t) : t[i] = t[i - 1] + 1
<1> DEFINE t == Append(s, n + 1)
<1>1. Len(s) \in Nat \ {0}
  BY EmptySeq
<1>2. /\ t # <<>> /\ Len(t) = Len(s) + 1
      /\ \A i \in 1..Len(s) : t[i] = s[i]
      /\ t[Len(s) + 1] = n + 1
  <2>1. n + 1 \in Nat
    OBVIOUS
  <2> QED
    BY <2>1, AppendFacts
<1> HIDE DEF t
<1>3. ASSUME NEW i \in 2..Len(t)
      PROVE  t[i] = t[i - 1] + 1
  <2>1. CASE i = Len(s) + 1
    <3>1. i - 1 = Len(s) /\ Len(s) \in 1..Len(s)
      BY <1>1, <2>1
    <3> QED
      BY <1>2, <2>1, <3>1
  <2>2. CASE i # Len(s) + 1
    <3>1. i \in 2..Len(s) /\ i \in 1..Len(s) /\ i - 1 \in 1..Len(s)
      BY <1>1, <1>2, <2>2
    <3> QED
      BY <1>2, <3>1
  <2> QED
    BY <2>1, <2>2
<1> QED
  BY <1>2, <1>3 DEF t

LEMMA FilesInit == Init => FilesSound
BY DEF Init, FilesSound, FilesContiguous, Active

LEMMA FilesStep == LogType /\ HistorySound /\ FilesSound /\ [Next]_vars => FilesSound'
<1> SUFFICES ASSUME LogType, HistorySound, FilesSound, [Next]_vars
             PROVE  FilesSound'
  OBVIOUS
<1>1. CASE ProdLog
  <2> DEFINE n == last + 1
  <2>1. n \in Nat /\ last \in Nat /\ last' = n /\ \A s \in Seconds : disk[s] \in Seq(Nat)
    BY <1>1 DEF LogType, ProdLog
  <2>2. LET s == Pushed(n)
        IN  s # <<>> /\ s[Len(s)] = n /\ \A i \in 2..Len(s) : s[i] = s[i - 1] + 1
    BY <2>1, PushedFacts, LatestContiguous
  <2>3. ASSUME Active, file # NoFile
        PROVE  LET s == Append(disk[file], n)
               IN  s # <<>> /\ s[Len(s)] = n /\ \A i \in 2..Len(s) : s[i] = s[i - 1] + 1
    <3>1. file \in Seconds /\ disk[file] # <<>> /\ disk[file][Len(disk[file])] = last
      BY <2>3 DEF LogType, FilesSound, EndsWithLast
    <3>2. \A i \in 2..Len(disk[file]) : disk[file][i] = disk[file][i - 1] + 1
      BY <3>1 DEF FilesSound, FilesContiguous
    <3> QED
      BY <2>1, <3>1, <3>2, AppendContiguous
  <2>4. ASSUME NEW s \in Seconds
        PROVE  \A i \in 2..Len(disk'[s]) : disk'[s][i] = disk'[s][i - 1] + 1
    <3>1. \/ disk'[s] = disk[s]
          \/ Active /\ s = file /\ disk'[s] = Append(disk[s], n)
          \/ disk'[s] = Pushed(n)
      BY <1>1, FileSteps
    <3>2. CASE disk'[s] = disk[s]
      BY <3>2 DEF FilesSound, FilesContiguous
    <3>3. CASE Active /\ s = file /\ disk'[s] = Append(disk[s], n)
      BY <2>3, <3>3, MessagesAssumption
    <3>4. CASE disk'[s] = Pushed(n)
      BY <2>2, <3>4
    <3> QED
      BY <3>1, <3>2, <3>3, <3>4
  <2>5. ASSUME Active', file' # NoFile
        PROVE  disk'[file'] # <<>> /\ disk'[file'][Len(disk'[file'])] = n
    BY <1>1, <2>2, <2>3, <2>5, StillWritten
  <2> HIDE DEF n
  <2> QED
    BY <2>1, <2>4, <2>5 DEF FilesSound, FilesContiguous, EndsWithLast
<1>2. CASE UNCHANGED <<remaining, file, disk, last>>
  BY <1>2 DEF FilesSound, FilesContiguous, EndsWithLast, Active
<1> QED
  BY <1>1, <1>2 DEF Next, Tick, vars

\* A file holds messages in the order they were logged, none missing and none
\* twice, however alerts and the closing of earlier files interleave (prodLog,
\* prodInit).
THEOREM FilesHaveNoGaps == Spec => []FilesContiguous
<1>1. Spec => []FilesSound
  BY HistoryInvariant, FilesInit, FilesStep, PTL DEF Spec
<1>2. FilesSound => FilesContiguous
  BY DEF FilesSound
<1> QED
  BY <1>1, <1>2, PTL

\* A file keeps what was written to it, unless an alert opens another of the
\* same second in its place (prodInit).
THEOREM FilesKeepContents == Spec => FilesOnlyGrow
<1>1. LogType /\ HistorySound /\ [Next]_vars =>
        [\A s \in Seconds :
           IsPrefix(disk[s], disk'[s]) \/ (s = now /\ disk'[s] = logHistory')]_vars
  <2> SUFFICES ASSUME LogType, [Next]_vars, NEW s \in Seconds
               PROVE  IsPrefix(disk[s], disk'[s]) \/ (s = now /\ disk'[s] = logHistory')
    OBVIOUS
  <2>1. disk[s] \in Seq(Nat) /\ last + 1 \in Nat
    BY DEF LogType
  <2>2. IsPrefix(disk[s], disk[s]) /\ IsPrefix(disk[s], Append(disk[s], last + 1))
    BY <2>1, AppendedPrefix
  <2>3. CASE ProdLog
    <3>1. logHistory' = Pushed(last + 1)
      BY <2>3 DEF ProdLog
    <3> QED
      BY <2>2, <2>3, <3>1, FileSteps
  <2>4. CASE UNCHANGED disk
    BY <2>2, <2>4
  <2> QED
    BY <2>3, <2>4 DEF Next, Tick, vars
<1> QED
  BY <1>1, HistoryInvariant, PTL DEF Spec, FilesOnlyGrow

-----------------------------------------------------------------------------
(* Alerts *)

\* The history holds what an alert needs of the messages before it.
LEMMA HistoryHolds ==
  ASSUME NEW s \in Seq(Nat), NEW n \in Nat, Latest(s, n)
  PROVE  Holds(s, n, n)
<1> SUFFICES ASSUME NEW m \in 1..n, m + History > n
             PROVE  m \in ToSet(s)
  BY DEF Holds
<1>1. Len(s) \in Nat /\ DOMAIN s = 1..Len(s)
  BY LenProperties
<1>2. /\ Len(s) = IF n < History THEN n ELSE History
      /\ \A i \in 1..Len(s) : s[i] = n - Len(s) + i
  BY DEF Latest
<1> DEFINE i == m - n + Len(s)
<1>3. i \in 1..Len(s) /\ n - Len(s) + i = m
  BY <1>1, <1>2, HistoryAssumption
<1> HIDE DEF i
<1>4. s[i] = m /\ i \in DOMAIN s
  BY <1>1, <1>2, <1>3
<1> QED
  BY <1>4 DEF ToSet

\* A file that went on without losing anything still holds what it held; and
\* what the next message adds to what an alert needs, if it was appended or is
\* none of it.
LEMMA HoldsOn ==
  ASSUME NEW s, NEW t, NEW n \in Nat, NEW k \in Nat, Holds(s, n, k),
         ToSet(s) \subseteq ToSet(t), k + 1 \in ToSet(t) \/ n + Future <= k
  PROVE  Holds(t, n, k + 1)
<1> SUFFICES ASSUME NEW m \in 1..(k + 1), m + History > n, m <= n + Future
             PROVE  m \in ToSet(t)
  BY DEF Holds
<1>1. CASE m \in 1..k
  BY <1>1 DEF Holds
<1>2. CASE m = k + 1
  BY <1>2, HistoryAssumption
<1> QED
  BY <1>1, <1>2

\* A file that holds what an alert logged now would need holds what the alert
\* needs that comes next, once this is appended.
LEMMA HoldsNext ==
  ASSUME NEW s, NEW t, NEW k \in Nat, Holds(s, k, k),
         ToSet(s) \subseteq ToSet(t), k + 1 \in ToSet(t)
  PROVE  Holds(t, k + 1, k + 1)
<1> SUFFICES ASSUME NEW m \in 1..(k + 1), m + History > k + 1
             PROVE  m \in ToSet(t)
  BY DEF Holds
<1>1. CASE m \in 1..k
  <2>1. m + History > k /\ m <= k + Future
    BY <1>1, HistoryAssumption
  <2> QED
    BY <1>1, <2>1 DEF Holds
<1>2. CASE m = k + 1
  BY <1>2
<1> QED
  BY <1>1, <1>2

LEMMA AlertsInit == Init => AlertsSound
BY HistoryAssumption DEF Init, AlertsSound, Active

\* An alert that was written before, and that the message does not overwrite.
LEMMA OldAlert ==
  ASSUME LogType, AlertsSound, ProdLog, NEW a \in alerts,
         disk'[a.file] = IF Active /\ a.file = file THEN Append(disk[a.file], last + 1)
                         ELSE disk[a.file]
  PROVE  a.at <= last' /\ Served(a)' /\ Holds(disk'[a.file], a.at, last')
<1> DEFINE n == last + 1
<1>1. /\ last \in Nat /\ remaining \in Nat /\ last' = n
      /\ a.at \in Nat /\ a.file \in Seconds /\ disk[a.file] \in Seq(Nat)
      /\ file \in Seconds \cup {NoFile} /\ History \in Nat \ {0} /\ Future \in Nat
  BY HistoryAssumption DEF LogType, Alerts, ProdLog
<1>2. remaining <= Future /\ a.at <= last /\ Served(a) /\ Holds(disk[a.file], a.at, last)
  BY DEF AlertsSound
<1>3. a.at + Future <= last \/ (Active /\ file = a.file)
  BY <1>1, <1>2 DEF Served, Active
<1>4. ToSet(disk[a.file]) \subseteq ToSet(disk'[a.file])
  BY <1>1, AppendFacts
<1>5. CASE Active /\ file = a.file
  <2>1. n \in ToSet(disk'[a.file])
    BY <1>1, <1>5, AppendFacts
  <2> QED
    <3>1. Holds(disk'[a.file], a.at, n)
      BY <1>1, <1>2, <1>4, <2>1, HoldsOn
    <3>2. a.at + Future <= n \/ (file' = a.file /\ a.at + Future <= n + remaining')
      <4>1. a.at + Future <= last + remaining \/ a.at + Future <= last
        BY <1>2 DEF Served
      <4>2. CASE Log(n)
        <5>1. remaining' = remaining - 1 /\ (remaining' # 0 => file' = file)
          BY <1>1, <1>5, <4>2 DEF Log, Counted, Active
        <5> QED
          BY <1>1, <1>5, <4>1, <5>1
      <4>3. CASE AlertAgain(n)
        BY <1>1, <1>2, <1>5, <4>3 DEF AlertAgain
      <4>4. CASE Alert(n)
        <5>1. remaining <= 1
          BY <1>1, <4>4 DEF Alert, Counted, Active
        <5> QED
          BY <1>1, <4>1, <5>1
      <4> QED
        BY <4>2, <4>3, <4>4, LogCases
    <3> QED
      BY <1>1, <1>2, <3>1, <3>2 DEF Served
<1>6. CASE a.at + Future <= last
  <2>1. Holds(disk'[a.file], a.at, n)
    BY <1>1, <1>2, <1>4, <1>6, HoldsOn
  <2>2. a.at + Future <= n /\ a.at <= n
    BY <1>1, <1>2, <1>6
  <2> QED
    BY <1>1, <2>1, <2>2 DEF Served
<1> QED
  BY <1>3, <1>5, <1>6

\* The alert that the message is, if it was written.
LEMMA NewAlert ==
  ASSUME LogType, HistorySound, AlertsSound, ProdLog, NEW a \in alerts', a \notin alerts
  PROVE  a.at <= last' /\ Served(a)' /\ Holds(disk'[a.file], a.at, last')
<1> DEFINE n == last + 1
<1>1. /\ last \in Nat /\ remaining \in Nat /\ n \in Nat /\ last' = n /\ Future \in Nat
      /\ file \in Seconds \cup {NoFile} /\ disk \in [Seconds -> Seq(Nat)]
  BY HistoryAssumption DEF LogType, ProdLog
<1>2. ASSUME a.at = n, file' = a.file, remaining' = Future
      PROVE  a.at <= last' /\ Served(a)'
  BY <1>1, <1>2 DEF Served
<1>3. CASE AlertAgain(n)
  <2>1. /\ file # NoFile /\ a = [at |-> n, file |-> file] /\ Active
        /\ file' = file /\ remaining' = Future /\ disk' = Written(n)
    BY <1>1, <1>3 DEF AlertAgain, Counted, Active
  <2>2. disk'[file] = Append(disk[file], n) /\ disk[file] \in Seq(Nat)
    BY <1>1, <2>1, WrittenFacts
  <2>3. Holds(disk[file], last, last)
    BY <2>1 DEF AlertsSound
  <2>4. Holds(disk'[file], n, n)
    BY <1>1, <2>2, <2>3, AppendFacts, HoldsNext
  <2> QED
    BY <1>1, <1>2, <2>1, <2>4
<1>4. CASE /\ Alert(n) /\ file' = now /\ disk' = PutHistory(n)
           /\ alerts' = {b \in alerts : b.file # now} \cup {[at |-> n, file |-> now]}
  <2>1. a = [at |-> n, file |-> now] /\ remaining' = Future
    BY <1>4 DEF Alert
  <2>2. disk'[now] = Pushed(n)
    BY <1>1, <1>4, WrittenFacts DEF PutHistory, LogType
  <2>3. Holds(disk'[now], n, n)
    BY <1>1, <2>2, PushedFacts, HistoryHolds
  <2> QED
    BY <1>1, <1>2, <1>4, <2>1, <2>3
<1> QED
  BY <1>3, <1>4, LogCases DEF Log

LEMMA AlertsStep == LogType /\ HistorySound /\ AlertsSound /\ [Next]_vars => AlertsSound'
<1> SUFFICES ASSUME LogType, HistorySound, AlertsSound, [Next]_vars
             PROVE  AlertsSound'
  OBVIOUS
<1>1. CASE ProdLog
  <2> DEFINE n == last + 1
  <2>1. last' = n /\ n \in Nat /\ last \in Nat /\ remaining \in Nat /\ disk \in [Seconds -> Seq(Nat)]
    BY <1>1 DEF LogType, ProdLog
  <2>2. remaining' <= Future
    <3>1. Counted <= Future /\ Future <= Future
      BY <2>1, HistoryAssumption DEF AlertsSound, Counted, Active
    <3> QED
      BY <1>1, <3>1, LogCases DEF Log, AlertAgain, Alert
  <2>3. ASSUME Active', file' # NoFile
        PROVE  Holds(disk'[file'], n, n)
    <3>1. CASE Active /\ file' = file /\ file # NoFile /\ disk'[file] = Append(disk[file], n)
      <4>1. Holds(disk[file], last, last) /\ disk[file] \in Seq(Nat)
        BY <2>1, <3>1 DEF AlertsSound, LogType
      <4> QED
        BY <2>1, <3>1, <4>1, AppendFacts, HoldsNext
    <3>2. CASE file' = now /\ disk'[now] = Pushed(n)
      BY <2>1, <3>2, PushedFacts, HistoryHolds
    <3> QED
      BY <1>1, <2>3, <3>1, <3>2, StillWritten
  <2>4. ASSUME NEW a \in alerts'
        PROVE  a.at <= last' /\ Served(a)' /\ Holds(disk'[a.file], a.at, last')
    <3>1. CASE a \in alerts
      <4>1. a.file \in Seconds /\ a.at <= last
        BY <3>1 DEF LogType, Alerts, AlertsSound
      <4>2. a # [at |-> n, file |-> now]
        <5>1. CASE a = [at |-> n, file |-> now]
          BY <2>1, <4>1, <5>1
        <5> QED
          BY <5>1
      <4>3. disk'[a.file] = IF Active /\ a.file = file THEN Append(disk[a.file], n)
                            ELSE disk[a.file]
        BY <1>1, <4>1, <4>2, FileSteps
      <4> QED
        BY <1>1, <3>1, <4>3, OldAlert
    <3>2. CASE a \notin alerts
      BY <1>1, <3>2, NewAlert
    <3> QED
      BY <3>1, <3>2
  <2> HIDE DEF n
  <2> QED
    BY <2>1, <2>2, <2>3, <2>4 DEF AlertsSound
<1>2. CASE UNCHANGED <<remaining, file, disk, last, alerts>>
  BY <1>2 DEF AlertsSound, Served, Holds, Active
<1> QED
  BY <1>1, <1>2 DEF Next, Tick, vars

\* The file an alert was written to holds, as far as they were logged, the
\* Future messages after it and the History - 1 messages before it, also for an
\* alert amid the messages after another one (prodLog, prodInit).  The document
\* promises History messages before it: the alert itself is the last of them.
THEOREM AlertsKeepNeighbours == Spec => []NeighboursStored
<1>1. Spec => []AlertsSound
  BY HistoryInvariant, AlertsInit, AlertsStep, PTL DEF Spec
<1>2. AlertsSound => NeighboursStored
  BY DEF AlertsSound, Holds, NeighboursStored
<1> QED
  BY <1>1, <1>2, PTL
=============================================================================
