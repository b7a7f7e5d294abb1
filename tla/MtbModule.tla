------------------------------ MODULE MtbModule ------------------------------
(***************************************************************************)
(* The module objects the daemon keeps, one per bus address: class         *)
(* MtbModule (modules/module.cpp) and its one subclass built into the      *)
(* simulator, MtbUnis (modules/unis.cpp).  An object is a record; each     *)
(* method that changes the object is an operator from the object before    *)
(* the call to the object after it.  What a method sends is worked out in  *)
(* MtbDaemon, which knows who is subscribed.                               *)
(*                                                                         *)
(* Fields that never leave their initial value between two handlers of     *)
(* this build are not kept: configWriting is set and cleared inside one    *)
(* call of jsonSetConfig, activating and activationsRemaining only change  *)
(* in mtbBusActivate, which nothing calls, and so does the bootloader flag *)
(* of busModuleInfo.  The name and the beacon are data no other step reads. *)
(*                                                                         *)
(* An operator under "Mutant" is the one after it with a plausible mistake *)
(* in it.  Nothing uses it: it shows which property notices the mistake.   *)
(***************************************************************************)
EXTENDS Naturals, Sequences, Functions

CONSTANTS
  Sockets,     (* addresses of QTcpSocket objects, reused after a delete   *)
  NoSocket,    (* nullptr                                                  *)
  NoRequest,   (* fwUpgrading without a value                              *)
  NoConfig,    (* config without a value                                   *)
  Keep,        (* a port a module_set_outputs request does not name        *)
  Ports,       (* output ports of a MTB-UNIS, 0 is the first               *)
  Values,      (* output bytes as jsonOutputToByte returns them, 0 is off  *)
  Unparsable,  (* bytes whose saved form jsonOutputToByte refuses to read  *)
  Pins         (* inputs of a MTB-UNIS                                     *)

ASSUME PortsAssumption == Ports \subseteq Nat /\ 0 \in Ports
ASSUME ValuesAssumption ==
  Values \subseteq Nat /\ 0 \in Values /\ Unparsable \subseteq Values \ {0}
ASSUME SocketsAssumption ==
  NoSocket \notin Sockets /\ NoRequest \notin Sockets /\ NoSocket # NoRequest
ASSUME KeepAssumption == Keep \notin Values

Types   == {"Uknown", "Unis10", "Rc"}
Configs == [Ports -> Values]           \* the safe value of every output
ASSUME NoConfigAssumption == NoConfig \notin Configs

Module == [cls       : {"unis", "base"},
           type      : Types,
           active    : BOOLEAN,
           rebooting : BOOLEAN,
           fw        : Sockets \cup {NoSocket, NoRequest},
           config    : Configs \cup {NoConfig},
           want      : [Ports -> Values],
           confirmed : [Ports -> Values],
           who       : [Ports -> Sockets \cup {NoSocket}],
           waiting   : Seq(Sockets \cup {NoSocket}),
           sent      : Seq(Sockets \cup {NoSocket}),
           inputs    : SUBSET Pins,
           linked    : BOOLEAN]        \* simOutputChanged reaches the panel

AllZero == [p \in Ports |-> 0]

\* newModule: the class follows the type asked for, the type field does not.
NewModule(type) ==
  [cls |-> IF type = "Unis10" THEN "unis" ELSE "base", type |-> "Uknown",
   active |-> FALSE, rebooting |-> FALSE, fw |-> NoRequest, config |-> NoConfig,
   want |-> AllZero, confirmed |-> AllZero, who |-> [p \in Ports |-> NoSocket],
   waiting |-> <<>>, sent |-> <<>>, inputs |-> {}, linked |-> FALSE]

Upgrading(m)  == m.fw # NoRequest
Configured(m) == m.config # NoConfig
Lacking(m)    == m.cls = "unis" /\ ~Configured(m)

-----------------------------------------------------------------------------
(* Outputs *)

\* Mutant: the confirmation is not recorded.
OutputsUnconfirmed(m) == [m EXCEPT !.sent = <<>>]

\* mtbBusOutputsSet: what was wanted is confirmed, the requests are answered.
OutputsSet(m) == [m EXCEPT !.confirmed = m.want, !.sent = <<>>]

\* setOutputs: with no bus in between, the confirmation is part of the call.
SetOutputs(m) == OutputsSet([m EXCEPT !.sent = m.waiting, !.waiting = <<>>])

\* Mutant: a port the request does not name counts as changed.
ChangedOrUnnamed(m, req) == {p \in Ports : req[p] # m.want[p]}

\* Ports of the request whose value differs from the one wanted so far.
Changed(m, req) == {p \in Ports : req[p] # Keep /\ req[p] # m.want[p]}

\* jsonSetOutput past its checks.  The request is not queued in waiting.
JsonSetOutput(m, c, req) ==
  LET ports  == Changed(m, req)
      wanted == [m EXCEPT !.want = [p \in Ports |-> IF p \in ports THEN req[p] ELSE m.want[p]],
                          !.who  = [p \in Ports |-> IF p \in ports THEN c ELSE m.who[p]]]
  IN  IF ports # {} /\ m.want = m.confirmed THEN SetOutputs(wanted) ELSE wanted

Owned(m, c) == {p \in Ports : m.who[p] = c}

\* Mutant: the owner is forgotten, the output keeps its value.
OutputsOfClientKept(m, c) ==
  IF m.cls # "unis" \/ ~Configured(m) THEN m
  ELSE [m EXCEPT !.who = [p \in Ports |-> IF @[p] = c THEN NoSocket ELSE @[p]]]

\* resetOutputsOfClient: does nothing without a configuration.
ResetOutputsOfClient(m, c) ==
  LET ports == Owned(m, c)
      safe  == [m EXCEPT !.want = [p \in Ports |-> IF p \in ports THEN m.config[p] ELSE m.want[p]],
                         !.who  = [p \in Ports |-> IF p \in ports THEN NoSocket ELSE m.who[p]],
                         !.waiting = Append(m.waiting, NoSocket)]
  IN  IF m.cls # "unis" \/ ~Configured(m) \/ ports = {} THEN m
      ELSE IF m.sent = <<>> THEN SetOutputs(safe) ELSE safe

\* Mutant: the outputs are reset, their owners stay.
AllOutputsResetOwned(m) ==
  IF m.cls # "unis" THEN m ELSE [m EXCEPT !.want = m.config, !.confirmed = m.config]

\* allOutputsReset of a configured module.
AllOutputsReset(m) ==
  IF m.cls # "unis" THEN m
  ELSE [m EXCEPT !.want = m.config, !.confirmed = m.config,
                 !.who  = [p \in Ports |-> NoSocket]]

\* allOutputsReset without a configuration: port 0 is cleared, then
\* config.value() throws bad_optional_access.
AllOutputsResetThrows(m) ==
  [m EXCEPT !.want = [@ EXCEPT ![0] = 0], !.confirmed = [@ EXCEPT ![0] = 0]]

\* outputSetters
OutputSetters(m) == {c \in Sockets : m.cls = "unis" /\ \E p \in Ports : m.who[p] = c}

-----------------------------------------------------------------------------
(* Configuration, reboot, firmware, inputs, sockets *)

\* MtbModule::jsonSetConfig that throws at a "name" which is no string: by then
\* the type is set.
JsonSetType(m, type) == [m EXCEPT !.type = type]

\* MtbModule::jsonSetConfig to its end, and mtbBusConfigWritten for a MtbUnis.
JsonSetConfig(m, type, config) ==
  [m EXCEPT !.type = type, !.config = IF m.cls = "unis" THEN config ELSE @]

\* reboot with mtbBusLost: fullyActivated is what would end it.
Reboot(m) == [m EXCEPT !.rebooting = TRUE, !.active = FALSE]

\* mtbBusInputsChanged
InputsChanged(m, pin, on) ==
  [m EXCEPT !.inputs = IF on THEN @ \cup {pin} ELSE @ \ {pin}]

\* Mutant: the pending upgrade keeps its requester.
ClientStays(m, c) == m

\* clientDisconnected: the socket of a pending firmware upgrade is forgotten.
ClientDisconnected(m, c) == [m EXCEPT !.fw = IF @ = c THEN NoSocket ELSE @]

-----------------------------------------------------------------------------
(* The configuration file's entry of a module *)

Entry == [type : Types, config : Configs \cup {NoConfig}]

SaveConfig(m) == [type |-> m.type, config |-> IF m.cls = "unis" THEN m.config ELSE NoConfig]

Parsable(config) == config # NoConfig /\ \A p \in Ports : config[p] \notin Unparsable

\* Mutant: every class reads the "config" of its entry.
LoadThrowsForAll(m, e) == ~Parsable(e.config)

\* loadConfig throws on a MtbUnis whose entry has no readable "config" ...
LoadThrows(m, e) == m.cls = "unis" /\ ~Parsable(e.config)

\* Mutant: MtbUnis::loadConfig does not call the base class.
LoadConfigOnly(m, e) ==
  [m EXCEPT !.config = IF m.cls = "unis" /\ Parsable(e.config) THEN e.config ELSE @]

\* ... but the base class has already taken the type and set active.
LoadConfig(m, e) ==
  [m EXCEPT !.type = e.type, !.active = TRUE,
            !.config = IF m.cls = "unis" /\ Parsable(e.config) THEN e.config ELSE @]
=============================================================================
