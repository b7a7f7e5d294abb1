------------------------------- MODULE ProdLog -------------------------------
(***************************************************************************)
(* Production logging (class Logger, logging.cpp): the last messages are   *)
(* kept, and when an alert is logged they are written to a file, followed  *)
(* by the messages that come after the alert.                              *)
(*                                                                         *)
(* A message is its number; messages less important than loglevel leave no *)
(* trace and have none.  What matters of the level of the others is        *)
(* whether it reaches detectLevel.  detectLevel is taken to be no less     *)
(* important than loglevel, as in DEFAULT_CONFIG (main.cpp:52-59).         *)
(***************************************************************************)
EXTENDS Naturals, Sequences, SequencesExt

CONSTANTS
  History,   (* production_logging.history, messages kept                  *)
  Future,    (* production_logging.future, messages after an alert         *)
  Seconds,   (* a file is named by the second it is opened in              *)
  NoFile,    (* prod.file is nullptr                                       *)
  Messages   (* bound: how many messages are logged                        *)

\* With history 0 the code reads the back of an empty deque.
ASSUME HistoryAssumption == History \in Nat \ {0} /\ Future \in Nat
ASSUME MessagesAssumption == Messages \in Nat /\ Seconds \subseteq Nat /\ NoFile \notin Seconds

VARIABLES
  logHistory,  (* the last messages                                        *)
  remaining,   (* prod.remaining                                           *)
  file,        (* prod.file, as the name of the file                       *)
  disk,        (* per name, what is in the file                            *)
  now,         (* the clock                                                *)
  last,        (* number of the last message                               *)
  alerts       (* the alerts written, each with the name of its file       *)

vars == <<logHistory, remaining, file, disk, now, last, alerts>>

Active == remaining > 0

Init ==
  /\ logHistory = <<>> /\ remaining = 0 /\ file = NoFile
  /\ disk = [s \in Seconds |-> <<>>]
  /\ now \in Seconds /\ \A s \in Seconds : now <= s
  /\ last = 0 /\ alerts = {}

\* Mutant: pop_back for pop_front.
PushedWithinLimit(n) == IF Len(logHistory) = History THEN logHistory ELSE Append(logHistory, n)
\* The deque of prodLog with message n.
Pushed(n) ==
  LET longer == Append(logHistory, n)
  IN  IF Len(longer) > History THEN Tail(longer) ELSE longer

\* Mutant: the file is opened for each message.
WrittenAfresh(n) == IF Active /\ file # NoFile THEN [disk EXCEPT ![file] = <<n>>] ELSE disk
\* Mutant: the last of the remaining messages closes the file unwritten.
WrittenButLast(n) ==
  IF remaining > 1 /\ file # NoFile THEN [disk EXCEPT ![file] = Append(@, n)] ELSE disk
\* The disk once the message was written to the file that is open, if any.
Written(n) == IF Active /\ file # NoFile THEN [disk EXCEPT ![file] = Append(@, n)] ELSE disk

\* What the message leaves of the messages to write.
Counted == IF Active THEN remaining - 1 ELSE 0

\* A message less important than detectLevel.
Log(n) ==
  /\ disk' = Written(n)
  /\ remaining' = Counted
  /\ file' = IF Active /\ Counted = 0 THEN NoFile ELSE file
  /\ UNCHANGED alerts

\* An alert while a file is being written: it is written as any message and
\* the count starts again.
AlertAgain(n) ==
  /\ Counted > 0
  /\ disk' = Written(n)
  /\ remaining' = Future
  /\ alerts' = alerts \cup {[at |-> n, file |-> s] : s \in {file} \ {NoFile}}
  /\ UNCHANGED file

\* Mutant: the file is appended to.
PutHistoryAtEnd(n) == [Written(n) EXCEPT ![now] = @ \o Pushed(n)]
\* prodInit: a file of the current second is opened, which empties the one
\* that had this name, and gets the history, the alert included.
PutHistory(n) == [Written(n) EXCEPT ![now] = Pushed(n)]

\* An alert with no file being written; the file may not open.
Alert(n) ==
  /\ Counted = 0
  /\ remaining' = Future
  /\ \/ /\ file' = now
        /\ disk' = PutHistory(n)
        /\ alerts' = {a \in alerts : a.file # now} \cup {[at |-> n, file |-> now]}
     \/ file' = NoFile /\ disk' = Written(n) /\ UNCHANGED alerts

ProdLog ==
  /\ last < Messages
  /\ last' = last + 1
  /\ logHistory' = Pushed(last')
  /\ Log(last') \/ AlertAgain(last') \/ Alert(last')
  /\ UNCHANGED now

Tick ==
  /\ \E s \in Seconds : now < s /\ now' = s
  /\ UNCHANGED <<logHistory, remaining, file, disk, last, alerts>>

Next == ProdLog \/ Tick

Spec == Init /\ [][Next]_vars

-----------------------------------------------------------------------------
(* Properties *)

\* The history is the messages logged last.
HistoryIsLatest ==
  \A i \in DOMAIN logHistory : logHistory[i] = last - Len(logHistory) + i

\* A file holds messages in the order they were logged, none missing and none
\* twice, however alerts and the closing of earlier files interleave.
FilesContiguous ==
  \A s \in Seconds : \A i \in 2..Len(disk[s]) : disk[s][i] = disk[s][i - 1] + 1

\* The file an alert was written to holds, as far as they were logged, the
\* Future messages after it and the History - 1 messages before it; an alert
\* amid the messages after another one prolongs the file.  That is one message
\* less before it than doc.mtb-daemon.json.md:83-84 promises ("`history` sets how
\* many messages before the alert message are stored"): the alert takes a place
\* of the history (logging.cpp:65-68) before the history is written.
NeighboursStored ==
  \A a \in alerts :
    \A n \in 1..last :
      (n + History > a.at /\ n <= a.at + Future) => n \in ToSet(disk[a.file])

\* A file keeps what was written to it, unless an alert opens another of the
\* same second in its place.
FilesOnlyGrow ==
  [][\A s \in Seconds :
       IsPrefix(disk[s], disk'[s]) \/ (s = now /\ disk'[s] = logHistory')]_vars
=============================================================================
