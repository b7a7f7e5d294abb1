---------------------------- MODULE MCDaemonConfig ----------------------------
(***************************************************************************)
(* Instance of MtbDaemon for the module registry and the configuration     *)
(* file: one client that creates, configures, deletes, uses, saves and     *)
(* loads two modules of one output each, and a process that may stop at    *)
(* any time, starting with no configuration file; two others lie about.    *)
(***************************************************************************)
EXTENDS MtbDaemonProperties

CONSTANT c1

MCSockets == {c1}
MCPorts   == {0}

MCValues == {0, 1}
MCAddrs  == {1, 2}

MCRequests == {[p \in MCPorts |-> 1]}

MCTypeCodes == {"Unis10", "Rc"}

MCCommands == {"module_set_config", "module_delete", "module_set_outputs",
               "save_config", "load_config", "stop"}

MCSaved(config) == [type |-> "Unis10", config |-> config]
MCConfig == [p \in MCPorts |-> 0]

\* No configuration yet, and two files of another origin that can be loaded: one
\* without "server", whose second module may make the load fail half way, and
\* one with a client in it that is no string.
MCFiles ==
  [name \in {"main", "bare", "bad"} |->
     CASE name = "main" -> NoFile
       [] name = "bare" -> [server |-> "missing",
                            modules |-> [a \in MCAddrs |-> MCSaved(IF a = 1 THEN MCConfig ELSE NoConfig)]]
       [] name = "bad"  -> [server |-> "malformed", modules |-> [a \in MCAddrs |-> NoEntry]]]

\* A file with one configured MTB-UNIS, for the run without any stop.
MCOneFile ==
  [name \in {"main"} |->
    [server  |-> "complete",
     modules |-> [a \in MCAddrs |-> IF a = 1 THEN MCSaved(MCConfig) ELSE NoEntry]]]

MCNoStop == MCCommands \ {"stop"}
=============================================================================
