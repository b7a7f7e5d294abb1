--------------------------- MODULE MCDaemonClients ---------------------------
(***************************************************************************)
(* Instance of MtbDaemon for what clients are told and allowed: a client   *)
(* with and one without the right to write, and address 1, which holds a   *)
(* configured MTB-UNIS until it is deleted and created again.              *)
(***************************************************************************)
EXTENDS MtbDaemonLeases

CONSTANTS writer, reader

MCSockets == {writer, reader}
MCWriters == {writer}
MCPorts   == {0}
MCValues  == {0, 1}
MCPins    == {0}
MCAddrs   == {1}

MCFiles == [name \in {"main"} |->
  [server  |-> "complete",
   modules |-> [a \in MCAddrs |-> [type |-> "Unis10", config |-> [p \in MCPorts |-> 0]]]]]

MCTypeCodes == {"Unis10", "Rc", Invalid}
MCSafeOutputs == Configs \cup {Invalid}
MCRequests  == [MCPorts -> MCValues \cup {Keep}]
MCLists     == {Absent, Invalid, {1}}

MCCommands == {"module_subscribe", "module_unsubscribe", "my_module_subscribes",
               "topology_subscribe", "topology_unsubscribe",
               "module_set_config", "module_delete", "module_set_outputs", "reset_my_outputs",
               "module_reboot", "module_upgrade_fw", "module_beacon", "press",
               "module_set_address", "module_specific_command", "version", "module", "modules",
               "set_address", "other", "module_diag", "mtbusb"}
=============================================================================
