--------------------------- MODULE MCDaemonOutputs ---------------------------
(***************************************************************************)
(* Instance of MtbDaemon for who owns an output: three clients, all allowed *)
(* to write, set and release the outputs of two configured MTB-UNIS.       *)
(***************************************************************************)
EXTENDS MtbDaemonLeases, TLC

CONSTANTS c1, c2, c3

MCSockets == {c1, c2, c3}
MCPorts   == {0, 1}
MCValues  == {0, 1}
MCAddrs   == {1, 2}

\* Module 1 is safe with output 1 on, module 2 with everything off.
MCFiles == [name \in {"main"} |->
  [server  |-> "complete",
   modules |-> [a \in MCAddrs |-> [type |-> "Unis10",
                                   config |-> [p \in MCPorts |-> IF a = 1 THEN p ELSE 0]]]]]

MCRequests == [MCPorts -> MCValues \cup {Keep}]

MCCommands == {"module_set_outputs", "reset_my_outputs", "module_subscribe",
               "module_unsubscribe", "stop"}

MCLists == {Absent}

\* The clients are alike.
MCSymmetry == Permutations(MCSockets)
=============================================================================
