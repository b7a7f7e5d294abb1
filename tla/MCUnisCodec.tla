----------------------------- MODULE MCUnisCodec -----------------------------
(***************************************************************************)
(* Instance of UnisCodec: the outputs at the edges of the frame's bytes,   *)
(* and one output of each kind, in and out of range; firmwares of one or   *)
(* two segments within, across and beside each other's blocks and pages.   *)
(***************************************************************************)
EXTENDS UnisCodec

MCPorts     == {7, 8, 16, 24}
MCSafePorts == {8}
MCOutputs   == {[type |-> "plain", value |-> 0], [type |-> "plain", value |-> 1],
                [type |-> "s-com", value |-> 127], [type |-> "s-com", value |-> 128],
                [type |-> "flicker", value |-> 60], [type |-> "flicker", value |-> 180],
                [type |-> "flicker", value |-> 320]}
MCDelays    == {5, 15, 20}

\* Segments of bytes that differ, numbered from first on.
MCSegment(addr, length, first) ==
  [addr |-> addr, data |-> [i \in 1..length |-> first + i]]
MCSegments(first) == {MCSegment(a, n, first) : a \in {0, 1, 3, 5}, n \in {0, 1, 2, 4, 5}}
MCFirmwares == {<<>>} \cup {<<s>> : s \in MCSegments(0)}
                 \cup {<<s, t>> : s \in MCSegments(0), t \in MCSegments(10)}
=============================================================================
