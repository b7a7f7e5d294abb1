----------------------------- MODULE DaemonServer -----------------------------
(***************************************************************************)
(* How DaemonServer (server.cpp) cuts what a client sends into requests.   *)
(* Lines travel in segments of any number of lines; readyRead is signalled *)
(* once per segment, also for one that completes no line, and one call of  *)
(* clientReadyRead handles the complete lines of the read buffer until the *)
(* first that is not JSON.  A line is its position in what was sent.       *)
(***************************************************************************)
EXTENDS Naturals, Sequences, SequencesExt, FiniteSetsExt

CONSTANTS
  Clients,    (* the connections                                           *)
  MaxLines    (* bound: how many lines a client sends                      *)

ASSUME MaxLinesAssumption == MaxLines \in Nat

\* A request; an empty line or an object without "command", which is not
\* answered; a line that does not parse.
Lines == {"request", "ping", "invalid"}

VARIABLES
  connected,  (* DaemonServer::clients                                     *)
  sent,       (* per client, the lines it sent                             *)
  arrived,    (* per client, how many of them reached the read buffer      *)
  read,       (* per client, how many of them left the read buffer         *)
  received    (* per client, positions of the requests passed to the slot  *)
              (* of jsonReceived, in this order                            *)

vars == <<connected, sent, arrived, read, received>>

Init ==
  /\ connected = {}
  /\ sent = [c \in Clients |-> <<>>]
  /\ arrived = [c \in Clients |-> 0] /\ read = [c \in Clients |-> 0]
  /\ received = [c \in Clients |-> <<>>]

\* serverNewConnection
Connect(c) ==
  /\ c \notin connected /\ sent[c] = <<>>
  /\ connected' = connected \cup {c}
  /\ UNCHANGED <<sent, arrived, read, received>>

\* The client's side.
Send(c, line) ==
  /\ c \in connected /\ Len(sent[c]) < MaxLines
  /\ sent' = [sent EXCEPT ![c] = Append(@, line)]
  /\ UNCHANGED <<connected, arrived, read, received>>

\* Mutant: if for while.
OneLine(c, n) == IF read[c] < n THEN read[c] + 1 ELSE n

\* The line clientReadyRead stops after, n lines having arrived.
StopsAfter(c, n) ==
  LET invalid == {i \in (read[c] + 1)..n : sent[c][i] = "invalid"}
  IN  IF invalid = {} THEN n ELSE Min(invalid)

\* The requests among the lines, and the order in which the loop reaches them.
RequestsIn(c, lines) == {i \in lines : sent[c][i] = "request"}

Increasing(s) == \A i, j \in DOMAIN s : i < j => s[i] < s[j]
InOrder(set)  == CHOOSE s \in [1..Cardinality(set) -> set] : Increasing(s)

Requests(c, lines) == InOrder(RequestsIn(c, lines))

\* Mutant: the buffer is emptied first, and the lines after an invalid one go
\* with it.
BufferEmptied(c, n) ==
  /\ c \in connected
  /\ n \in arrived[c]..Len(sent[c]) /\ arrived[c] < Len(sent[c])
  /\ arrived' = [arrived EXCEPT ![c] = n]
  /\ read' = [read EXCEPT ![c] = n]
  /\ received' = [received EXCEPT ![c] = @ \o Requests(c, (read[c] + 1)..StopsAfter(c, n))]
  /\ UNCHANGED <<connected, sent>>

\* clientReadyRead, after a segment with the lines up to n, or with a part of
\* the next one.
ClientReadyRead(c, n) ==
  /\ c \in connected
  /\ n \in arrived[c]..Len(sent[c]) /\ arrived[c] < Len(sent[c])
  /\ arrived' = [arrived EXCEPT ![c] = n]
  /\ read' = [read EXCEPT ![c] = StopsAfter(c, n)]
  /\ received' = [received EXCEPT ![c] = @ \o Requests(c, (read[c] + 1)..StopsAfter(c, n))]
  /\ UNCHANGED <<connected, sent>>

\* clientDisconnected: what is still in the buffer or on the way is lost.
ClientDisconnected(c) ==
  /\ c \in connected
  /\ connected' = connected \ {c}
  /\ UNCHANGED <<sent, arrived, read, received>>

Next ==
  \E c \in Clients :
    \/ Connect(c)
    \/ \E line \in Lines : Send(c, line)
    \/ \E n \in 0..MaxLines : ClientReadyRead(c, n)
    \/ ClientDisconnected(c)

\* TCP delivers what was sent while the connection lasts, some lines at a
\* time, and the event loop then calls the slot.
Delivery ==
  \A c \in Clients : WF_vars(\E n \in 1..MaxLines : arrived[c] < n /\ ClientReadyRead(c, n))

Spec == Init /\ [][Next]_vars /\ Delivery

-----------------------------------------------------------------------------
(* Properties *)

\* The requests of a client are handled in the order it sent them, each once,
\* and none before what is still in the buffer.
HandledInOrder ==
  \A c \in Clients :
    ToSet(received[c]) = RequestsIn(c, 1..read[c]) /\ Increasing(received[c])

\* Lines wait in the buffer only behind a line that did not parse: only there
\* clientReadyRead returns with lines left, until the client sends more.
WaitOnlyBehindInvalid ==
  \A c \in connected : read[c] < arrived[c] => (read[c] > 0 /\ sent[c][read[c]] = "invalid")

\* A request not preceded by an invalid line is handled, unless the client
\* leaves: however its bytes are cut, no complete line is forgotten.
Sent(c, i)  == i \in DOMAIN sent[c] /\ \A k \in 1..i : sent[c][k] # "invalid"
RequestsHandled ==
  \A c \in Clients, i \in 1..MaxLines :
    (Sent(c, i) /\ sent[c][i] = "request") ~> (c \notin connected \/ i \in ToSet(received[c]))
=============================================================================
