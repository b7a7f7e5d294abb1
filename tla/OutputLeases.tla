----------------------------- MODULE OutputLeases -----------------------------
(***************************************************************************)
(* What a client may rely on about outputs, without modules, queues,       *)
(* pointers and procedures: an output is held by the client that changed it *)
(* last, until that client releases its outputs or leaves.  Released, an    *)
(* output goes to its rest value.  MtbDaemonLeases shows that the daemon    *)
(* implements this.                                                        *)
(***************************************************************************)
CONSTANTS Clients, Outputs, Values, Nobody, Off

VARIABLES
  connected,  (* the clients there are                                     *)
  holder,     (* per output, the client that holds it                      *)
  value,      (* per output, what it is set to                             *)
  rest        (* per output, what it is set to when it is released         *)

vars == <<connected, holder, value, rest>>

Init ==
  /\ connected = {}
  /\ holder = [o \in Outputs |-> Nobody]
  /\ value = [o \in Outputs |-> Off]
  /\ rest \in [Outputs -> Values]

Connect(c) ==
  /\ c \notin connected
  /\ connected' = connected \cup {c}
  /\ UNCHANGED <<holder, value, rest>>

\* c changes outputs, also those that others hold; it holds what it changed.
Take(c) ==
  /\ c \in connected
  /\ value' \in [Outputs -> Values]
  /\ holder' = [o \in Outputs |-> IF value'[o] # value[o] THEN c ELSE holder[o]]
  /\ UNCHANGED <<connected, rest>>

\* What c holds is put to rest.  What nobody holds may be as well; what others
\* hold stays as it is.
Freed(c) ==
  /\ c \in connected
  /\ holder' = [o \in Outputs |-> IF holder[o] = c THEN Nobody ELSE holder[o]]
  /\ value' \in [Outputs -> Values]
  /\ \A o \in Outputs :
       CASE holder[o] = c      -> value'[o] = rest[o]
         [] holder[o] = Nobody -> value'[o] \in {value[o], rest[o]}
         [] OTHER              -> value'[o] = value[o]
  /\ UNCHANGED rest

Release(c) == Freed(c) /\ UNCHANGED connected
Leave(c)   == Freed(c) /\ connected' = connected \ {c}

\* Outputs are configured: no output changes.
Configure == rest' \in [Outputs -> Values] /\ UNCHANGED <<connected, holder, value>>

Unused(outs) ==
  /\ holder' = [o \in Outputs |-> IF o \in outs THEN Nobody ELSE holder[o]]
  /\ value' = [o \in Outputs |-> IF o \in outs THEN Off ELSE value[o]]
  /\ rest' = [o \in Outputs |-> IF o \in outs THEN Off ELSE rest[o]]

\* Outputs go out of use.
Remove(outs) == Unused(outs) /\ UNCHANGED connected

\* Everything ends.
Restart == Unused(Outputs) /\ connected' = {}

Next ==
  \/ \E c \in Clients : Connect(c) \/ Take(c) \/ Release(c) \/ Leave(c)
  \/ Configure
  \/ \E outs \in SUBSET Outputs : Remove(outs)
  \/ Restart

Spec == Init /\ [][Next]_vars
=============================================================================
