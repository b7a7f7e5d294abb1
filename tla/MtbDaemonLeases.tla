--------------------------- MODULE MtbDaemonLeases ---------------------------
(***************************************************************************)
(* MtbDaemon implements OutputLeases: what the daemon keeps in its modules *)
(* as owners, wanted outputs and configurations are leases.                *)
(***************************************************************************)
EXTENDS MtbDaemonProperties

AllOutputs == Addrs \X Ports

\* An output is the pair of its module's address and its port.
HolderOf(o) == Owner(o[1], o[2])
ValueOf(o)  == IF Registered(o[1]) THEN modules[o[1]].want[o[2]] ELSE 0
RestOf(o)   == IF Registered(o[1]) /\ Configured(modules[o[1]])
               THEN modules[o[1]].config[o[2]] ELSE 0

Leases == INSTANCE OutputLeases WITH
  Clients   <- Sockets,
  Outputs   <- AllOutputs,
  Nobody    <- NoSocket,
  Off       <- 0,
  connected <- clients,
  holder    <- [o \in AllOutputs |-> HolderOf(o)],
  value     <- [o \in AllOutputs |-> ValueOf(o)],
  rest      <- [o \in AllOutputs |-> RestOf(o)]

\* Whatever requests, departures and stops come in whatever order, the daemon
\* treats outputs as leases: only the client that changes an output holds it,
\* whoever leaves or resets loses exactly its own, at once and to the safe
\* values, and nothing else touches what somebody holds.
ImplementsLeases == Leases!Spec
=============================================================================
