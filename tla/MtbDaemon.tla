------------------------------ MODULE MtbDaemon ------------------------------
(***************************************************************************)
(* DaemonCoreApplication (main.cpp): the TCP clients, the modules, who is  *)
(* subscribed to what, the panel's lamps and the configuration file.       *)
(*                                                                         *)
(* The daemon is one Qt event loop.  A handler runs to its end before the  *)
(* next event is taken, so each action is one handler with everything it   *)
(* calls; interleaving is the order in which clients' requests, clients'   *)
(* departures, presses of panel buttons and stops of the process arrive.   *)
(***************************************************************************)
EXTENDS MtbModule

CONSTANTS
  Addrs,       (* addresses of the module array in use                     *)
  NoModule,    (* nullptr in the module array                              *)
  NoEntry,     (* an address the configuration file does not mention       *)
  Names,       (* names of configuration files                             *)
  ConfigFileName, (* the one the daemon is started with                    *)
  Writable,    (* those that save_config is asked to write                 *)
  NoFile,      (* a configuration file that does not exist                 *)
  Truncated,   (* one that exists and is empty, or no JSON                 *)
  Writers,     (* sockets whose peer is in server.allowedClients           *)
  Commands,    (* the requests and happenings an instance explores         *)
  Absent,      (* a key a request does not contain                         *)
  Invalid,     (* a part of a request that fails its validation            *)
  TypeCodes,   (* "type_code" of module_set_config                         *)
  SafeOutputs, (* "config" of module_set_config                            *)
  Lists,       (* "addresses" arrays of the subscription requests          *)
  Requests,    (* "outputs" objects of module_set_outputs                  *)
  InitialFiles (* what is on the disk before the first start               *)

ASSUME AddrsAssumption   == Addrs \subseteq Nat
ASSUME WritersAssumption == Writers \subseteq Sockets
ASSUME NullsAssumption   == NoModule \notin Module /\ NoEntry \notin Entry
ASSUME InputsAssumption  ==
  /\ Absent \notin Types \cup Configs /\ Invalid \notin Types \cup Configs \cup {Absent}
  /\ TypeCodes \subseteq Types \cup {Invalid} /\ SafeOutputs \subseteq Configs \cup {Invalid}
  /\ Lists \subseteq {Absent, Invalid} \cup SUBSET Addrs
  /\ Requests \subseteq [Ports -> Values \cup {Keep}] /\ Invalid \notin Requests

\* A file has a "server" object with a usable allowedClients, the same in every
\* such file, or one that throws when the clients in it are read, or no such
\* object; and an entry per saved module, as the daemon writes them.
Servers   == {"complete", "malformed", "missing"}
Entries   == [Addrs -> Entry \cup {NoEntry}]
Documents == [server : Servers, modules : Entries]
ASSUME FilesAssumption ==
  /\ Writable \subseteq Names /\ ConfigFileName \in Writable
  /\ InitialFiles \in [Names -> Documents \cup {NoFile}]
  /\ NoFile \notin Documents /\ Truncated \notin Documents /\ NoFile # Truncated

VARIABLES
  daemon,          (* "down", "running", or "refused" to start             *)
  clients,         (* DaemonServer::clients                                *)
  modules,         (* the array of module pointers                         *)
  subscribes,      (* per address, the subscribed sockets                  *)
  topoSubscribes,  (* sockets subscribed to topology changes               *)
  writeAccess,     (* the allowed peers, as the sockets they connect from  *)
  wired,           (* the buttons' contactChanged is connected             *)
  settings,        (* the "server" of DaemonCoreApplication::config        *)
  lamps,           (* per address, the output ports the panel shows lit    *)
  files,           (* the configuration files                              *)
  answer,          (* the response of the last step, if it had a request   *)
  events           (* the events the last step sent                        *)

registry == <<modules, lamps>>
access   == <<writeAccess, wired, settings>>
subs     == <<subscribes, topoSubscribes>>
vars     == <<daemon, clients, registry, subs, access, files, answer, events>>

Statuses == {"ok", "error", "denied", "none"}
Events   == [to : Sockets, event : {"module", "outputs", "inputs", "deleted"}, addr : Addrs]

TypeOK ==
  /\ daemon \in {"down", "running", "refused"}
  /\ clients \subseteq Sockets
  /\ modules \in [Addrs -> Module \cup {NoModule}]
  /\ subscribes \in [Addrs -> SUBSET Sockets]
  /\ topoSubscribes \subseteq Sockets
  /\ writeAccess \subseteq Writers
  /\ wired \in BOOLEAN
  /\ settings \in Servers
  /\ lamps \in [Addrs -> SUBSET Ports]
  /\ files \in [Names -> Documents \cup {NoFile, Truncated}]
  /\ answer \in [by : Sockets \cup {NoSocket}, status : Statuses]
  /\ events \subseteq Events

-----------------------------------------------------------------------------
(* What is sent *)

EventsTo(S, e, a) == {[to |-> s, event |-> e, addr |-> a] : s \in S}

\* Mutant: the subscribers of the module itself are left out.
TopologyInfo(a, ignore) == EventsTo(topoSubscribes \ {ignore}, "module", a)

\* sendModuleInfo: subscribers of the topology and of the module, but one.
ModuleInfo(a, ignore) == EventsTo((topoSubscribes \cup subscribes[a]) \ {ignore}, "module", a)

\* mtbBusOutputsSet: sendOutputsChanged, then fwUpgdInit while upgrading.
\* S and T are the sockets still subscribed when it runs.
OutputsSetEvents(a, m, S, T) ==
  EventsTo(S \ Range(m.waiting), "outputs", a)
    \cup IF Upgrading(m) THEN EventsTo((S \cup T) \ {m.fw}, "module", a) ELSE {}

Answer(c, status, evs) == answer' = [by |-> c, status |-> status] /\ events' = evs
Silent(evs) == Answer(NoSocket, "none", evs)

\* simOutputChanged: the panel shows the new value of the ports.
Show(lit, m, ports, values) ==
  IF m.linked THEN (lit \ ports) \cup {p \in ports : values[p] # 0} ELSE lit

Registered(a) == modules[a] # NoModule

-----------------------------------------------------------------------------
(* clientResetOutputs *)

Setters == UNION {OutputSetters(modules[a]) : a \in {b \in Addrs : Registered(b)}}

\* The broadcast walks the modules upwards and throws at the first MtbUnis
\* without a configuration.
LackingAt(a)    == Registered(a) /\ Lacking(modules[a])
BroadcastThrows == \E a \in Addrs : LackingAt(a)
Reached(a)      == \A b \in Addrs : LackingAt(b) => a <= b

\* Mutants: the limit of clientResetOutputs is off by one, the sole setter is
\* not compared with the client.
ManySetters == \E x, y, z \in Setters : x # y /\ x # z /\ y # z
AnySoleSetter(c) == \E x \in Setters : Setters = {x}

SeveralSetters == \E x, y \in Setters : x # y
SoleSetter(c)  == Setters = {c}
ResetThrows(c) == SoleSetter(c) /\ BroadcastThrows

\* The module at address a, and its lamps, after clientResetOutputs(c).
ModuleAfterReset(a, c) ==
  IF SeveralSetters THEN ResetOutputsOfClient(modules[a], c)
  ELSE IF ~SoleSetter(c) \/ ~Reached(a) THEN modules[a]
  ELSE IF LackingAt(a) THEN AllOutputsResetThrows(modules[a])
  ELSE AllOutputsReset(modules[a])

PortsReset(a, c) ==
  IF ~Registered(a) \/ modules[a].cls # "unis" \/ ~Configured(modules[a]) THEN {}
  ELSE IF SeveralSetters THEN Owned(modules[a], c)
  ELSE IF SoleSetter(c) /\ Reached(a) THEN Ports ELSE {}

ModulesAfterReset(c) ==
  [a \in Addrs |-> IF Registered(a) THEN ModuleAfterReset(a, c) ELSE NoModule]

\* Mutant: the broadcast does not reach the panel.
LampsAfterOwnReset(c) ==
  [a \in Addrs |-> IF PortsReset(a, c) = {} \/ SoleSetter(c) THEN lamps[a]
                   ELSE Show(lamps[a], modules[a], PortsReset(a, c), modules[a].config)]

LampsAfterReset(c) ==
  [a \in Addrs |-> IF PortsReset(a, c) = {} THEN lamps[a]
                   ELSE Show(lamps[a], modules[a], PortsReset(a, c), modules[a].config)]

\* Mutants: the broadcast is not announced; the events go to those subscribed
\* before the client was forgotten.
ResetEventsOwn(c, S, T) ==
  UNION {IF SeveralSetters THEN OutputsSetEvents(a, modules[a], S[a], T) ELSE {} :
           a \in {b \in Addrs : PortsReset(b, c) # {}}}
ResetEventsEarly(c, S, T) ==
  UNION {EventsTo(subscribes[a], "outputs", a) : a \in {b \in Addrs : PortsReset(b, c) # {}}}

ResetEvents(c, S, T) ==
  UNION {IF SeveralSetters THEN OutputsSetEvents(a, modules[a], S[a], T)
         ELSE EventsTo(S[a], "outputs", a) : a \in {b \in Addrs : PortsReset(b, c) # {}}}

-----------------------------------------------------------------------------
(* The configuration file *)

\* loadConfig of the entries f at address a: a mismatch of types ignores one.
Target(f, a)  == IF Registered(a) THEN modules[a] ELSE NewModule(f[a].type)
\* Mutant: the types are not compared.
AppliesToAnyType(f, a) == f[a] # NoEntry
Applies(f, a) == f[a] # NoEntry /\ (Registered(a) => modules[a].type = f[a].type)
Fails(f, a)   == Applies(f, a) /\ LoadThrows(Target(f, a), f[a])

\* Modules are loaded upwards until one throws; a new one is connected to the
\* panel after its own load.
ModuleAfterLoad(f, a) ==
  LET m == LoadConfig(Target(f, a), f[a])
  IN  IF ~Applies(f, a) \/ (\E b \in Addrs : b < a /\ Fails(f, b)) THEN modules[a]
      ELSE IF Fails(f, a) \/ Registered(a) THEN m ELSE [m EXCEPT !.linked = TRUE]

LoadFails(f) == \E a \in Addrs : Fails(f, a)

Readable(name) == files[name] \in Documents

\* loadConfig returns without a throw.
Loads(name) ==
  Readable(name) /\ ~LoadFails(files[name].modules) /\ files[name].server = "complete"

\* saveConfig writes the configuration as it was loaded, with the modules of now.
Saved == [server  |-> settings,
          modules |-> [a \in Addrs |->
                        IF Registered(a) THEN SaveConfig(modules[a]) ELSE NoEntry]]

-----------------------------------------------------------------------------
(* The process *)

\* Everything but the files is lost; the panel window is gone with its lamps.
Offline ==
  /\ clients' = {} /\ subscribes' = [a \in Addrs |-> {}] /\ topoSubscribes' = {}
  /\ modules' = [a \in Addrs |-> NoModule] /\ lamps' = [a \in Addrs |-> {}]
  /\ writeAccess' = {} /\ wired' = FALSE /\ settings' = "missing"
  /\ Silent({})

Init ==
  /\ daemon = "down" /\ clients = {} /\ topoSubscribes = {}
  /\ subscribes = [a \in Addrs |-> {}]
  /\ modules = [a \in Addrs |-> NoModule] /\ lamps = [a \in Addrs |-> {}]
  /\ writeAccess = {} /\ wired = FALSE /\ settings = "missing"
  /\ files = InitialFiles
  /\ answer = [by |-> NoSocket, status |-> "none"] /\ events = {}

\* Quit or killed between two handlers.
Stop ==
  /\ daemon = "running" /\ "stop" \in Commands
  /\ daemon' = "down" /\ Offline
  /\ UNCHANGED files

\* The default configuration, as it is written.
DefaultConfig == [server |-> "complete", modules |-> [a \in Addrs |-> NoEntry]]
FileMissing   == files[ConfigFileName] = NoFile

\* Constructor, no file: the default configuration is taken and written, and
\* loadConfig never came to allowedClients or to the buttons.
FirstStart ==
  /\ daemon # "running" /\ FileMissing
  /\ daemon' = "running" /\ settings' = DefaultConfig.server
  /\ files' = [files EXCEPT ![ConfigFileName] = DefaultConfig]
  /\ Silent({})
  /\ UNCHANGED <<clients, registry, subs, writeAccess, wired>>

\* Constructor, the file loads.  The buttons are connected here, and once more
\* by every later load that comes so far: each contact is then signalled that
\* many times, which changes no input twice and sends the same event again.
\* wired and the set events do not count them.
StartLoaded ==
  /\ daemon # "running" /\ Loads(ConfigFileName)
  /\ daemon' = "running" /\ settings' = files[ConfigFileName].server
  /\ modules' = [a \in Addrs |-> ModuleAfterLoad(files[ConfigFileName].modules, a)]
  /\ writeAccess' = Writers /\ wired' = TRUE
  /\ Silent({})
  /\ UNCHANGED <<clients, lamps, subs, files>>

\* Constructor, a JsonParseError ends in StartupError::ConfigLoad: of a module,
\* of the "server" section or of the file as a whole.
StartRefused ==
  /\ daemon # "running" /\ ~FileMissing /\ ~Loads(ConfigFileName)
  /\ daemon' = "refused"
  /\ Silent({})
  /\ UNCHANGED <<clients, registry, subs, access, files>>

\* Constructor, the server cannot listen: StartupError::ServerStart, after the
\* default configuration was written if there was none.
StartWithoutServer ==
  /\ daemon # "running" /\ (FileMissing \/ Loads(ConfigFileName))
  /\ daemon' = "down"
  /\ files' = IF FileMissing THEN [files EXCEPT ![ConfigFileName] = DefaultConfig] ELSE files
  /\ Silent({})
  /\ UNCHANGED <<clients, registry, subs, access>>

-----------------------------------------------------------------------------
(* Connections *)

Connect(c) ==
  /\ daemon = "running" /\ c \notin clients
  /\ clients' = clients \cup {c}
  /\ Silent({})
  /\ UNCHANGED <<daemon, registry, subs, access, files>>

\* serverClientDisconnected: the socket is forgotten everywhere but in
\* whoSetOutput, then its outputs are reset.
Disconnect(c) ==
  /\ daemon = "running" /\ c \in clients /\ ~ResetThrows(c)
  /\ clients' = clients \ {c}
  /\ subscribes' = [a \in Addrs |-> subscribes[a] \ {c}]
  /\ topoSubscribes' = topoSubscribes \ {c}
  /\ modules' = [a \in Addrs |->
       IF Registered(a) THEN ClientDisconnected(ModulesAfterReset(c)[a], c) ELSE NoModule]
  /\ lamps' = LampsAfterReset(c)
  /\ Silent(ResetEvents(c, subscribes', topoSubscribes'))
  /\ UNCHANGED <<daemon, access, files>>

\* Nothing catches the exception of the broadcast here: std::terminate.
DisconnectTerminates(c) ==
  /\ daemon = "running" /\ c \in clients /\ ResetThrows(c)
  /\ daemon' = "down" /\ Offline
  /\ UNCHANGED files

-----------------------------------------------------------------------------
(* Requests: serverReceived picks the handler by the command *)

Serve(c, command) == daemon = "running" /\ c \in clients /\ command \in Commands

\* The handler answers and changes nothing.
JustAnswer(c, status) == Answer(c, status, {}) /\ UNCHANGED <<registry, subs, access, files>>

Denied(c)  == c \notin writeAccess /\ JustAnswer(c, "denied")
Allowed(c) == c \in writeAccess

\* The generic module_* path: the module first, then the right to write.
Refused(c, a) ==
  \/ ~Registered(a) /\ JustAnswer(c, "error")
  \/ Registered(a) /\ Denied(c)
\* Mutant: the right to write is not asked for.
AcceptedFromAnyone(c, a) == Registered(a)
Accepted(c, a) == Registered(a) /\ Allowed(c)

\* The handler replaces the object at address a and nothing else.
Replace(a, m) ==
  /\ modules' = [modules EXCEPT ![a] = m]
  /\ UNCHANGED <<lamps, subs, access, files>>

\* module_subscribe: without a list, every address but 0.  A list with an
\* address that is not one changes nothing.
ModuleSubscribe(c, list) ==
  /\ Serve(c, "module_subscribe")
  /\ \/ list = Invalid /\ JustAnswer(c, "error")
     \/ /\ list # Invalid
        /\ LET S == IF list = Absent THEN Addrs \ {0} ELSE list
           IN  subscribes' = [a \in Addrs |-> subscribes[a] \cup IF a \in S THEN {c} ELSE {}]
        /\ Answer(c, "ok", {})
        /\ UNCHANGED <<registry, topoSubscribes, access, files>>

ModuleUnsubscribe(c, list) ==
  /\ Serve(c, "module_unsubscribe")
  /\ \/ list = Invalid /\ JustAnswer(c, "error")
     \/ /\ list # Invalid
        /\ LET S == IF list = Absent THEN Addrs ELSE list
           IN  subscribes' = [a \in Addrs |-> subscribes[a] \ IF a \in S THEN {c} ELSE {}]
        /\ Answer(c, "ok", {})
        /\ UNCHANGED <<registry, topoSubscribes, access, files>>

\* my_module_subscribes: with a list it replaces the subscriptions.
MyModuleSubscribes(c, list) ==
  /\ Serve(c, "my_module_subscribes")
  /\ \/ list = Invalid /\ JustAnswer(c, "error")
     \/ list = Absent /\ JustAnswer(c, "ok")
     \/ /\ list \notin {Invalid, Absent}
        /\ subscribes' = [a \in Addrs |-> (subscribes[a] \ {c}) \cup IF a \in list THEN {c} ELSE {}]
        /\ Answer(c, "ok", {})
        /\ UNCHANGED <<registry, topoSubscribes, access, files>>

TopoSubscribe(c) ==
  /\ Serve(c, "topology_subscribe")
  /\ topoSubscribes' = topoSubscribes \cup {c}
  /\ Answer(c, "ok", {})
  /\ UNCHANGED <<registry, subscribes, access, files>>

TopoUnsubscribe(c) ==
  /\ Serve(c, "topology_unsubscribe")
  /\ topoSubscribes' = topoSubscribes \ {c}
  /\ Answer(c, "ok", {})
  /\ UNCHANGED <<registry, subscribes, access, files>>

\* save_config: to the file it names, or to the daemon's own.  The name may be
\* no string, the file not writable.
SaveConfigFile(c) ==
  /\ Serve(c, "save_config")
  /\ \/ Denied(c)
     \/ Allowed(c) /\ JustAnswer(c, "error")
     \/ /\ Allowed(c)
        /\ \E name \in Writable : files' = [files EXCEPT ![name] = Saved]
        /\ Answer(c, "ok", {})
        /\ UNCHANGED <<registry, subs, access>>

\* The process is killed after the file was opened, which truncates it, and
\* before it was written.
StopWhileSaving(c) ==
  /\ Serve(c, "save_config") /\ Allowed(c) /\ "stop" \in Commands
  /\ daemon' = "down" /\ Offline
  /\ \E name \in Writable : files' = [files EXCEPT ![name] = Truncated]

\* The end of loadConfig: the clients of "server" replace the allowed ones,
\* those before a bad one if there is one, and none do without a "server".
AllowClients(c, server) ==
  \/ server = "complete" /\ writeAccess' = Writers /\ Answer(c, "ok", {})
  \/ server = "malformed" /\ writeAccess' \in SUBSET Writers /\ Answer(c, "error", {})
  \/ server = "missing" /\ writeAccess' = writeAccess /\ Answer(c, "error", {})

\* loadConfig of a file while running.  The configuration is replaced first; a
\* module that throws leaves those before it loaded, and the access list and
\* the buttons as they were.
LoadNamed(c, name) ==
  /\ Allowed(c) /\ Readable(name)
  /\ settings' = files[name].server
  /\ modules' = [a \in Addrs |-> ModuleAfterLoad(files[name].modules, a)]
  /\ IF LoadFails(files[name].modules)
     THEN UNCHANGED <<writeAccess, wired>> /\ Answer(c, "error", {})
     ELSE wired' = TRUE /\ AllowClients(c, files[name].server)
  /\ UNCHANGED <<lamps, subs, files>>

\* load_config: of the file it names, or of the daemon's own.  It may not exist,
\* or be no JSON.
LoadConfigFile(c) ==
  /\ Serve(c, "load_config")
  /\ \/ Denied(c)
     \/ Allowed(c) /\ JustAnswer(c, "error")
     \/ \E name \in Names : LoadNamed(c, name)

\* Mutant: an active module is deleted as well.
ModuleDeleteAny(c, a) ==
  /\ Serve(c, "module_delete")
  /\ \/ ~Registered(a) /\ JustAnswer(c, "error")
     \/ /\ Registered(a)
        /\ Replace(a, NoModule)
        /\ Answer(c, "ok", EventsTo((topoSubscribes \cup subscribes[a]) \ {c}, "deleted", a))

\* module_delete: any client may, if the module is not active.
ModuleDelete(c, a) ==
  /\ Serve(c, "module_delete")
  /\ \/ (Registered(a) => modules[a].active) /\ JustAnswer(c, "error")
     \/ /\ Registered(a) /\ ~modules[a].active
        /\ Replace(a, NoModule)
        /\ Answer(c, "ok", EventsTo((topoSubscribes \cup subscribes[a]) \ {c}, "deleted", a))

\* module_set_config: creates the module before anything else of the request is
\* validated, and changes its type before the name is.
ModuleSetConfig(c, a, type, config, name) ==
  /\ Serve(c, "module_set_config")
  /\ \/ Denied(c)
     \/ /\ Allowed(c) /\ (type = Invalid \/ (type = Absent /\ ~Registered(a)))
        /\ JustAnswer(c, "error")
     \/ /\ Allowed(c) /\ type # Invalid /\ (Registered(a) \/ type # Absent)
        /\ LET m      == IF Registered(a) THEN modules[a] ELSE NewModule(type)
               asked  == IF type = Absent THEN m.type ELSE type
               unread == m.cls = "unis" /\ (Upgrading(m) \/ config = Invalid)
               new    == JsonSetConfig(m, asked, IF config = Absent THEN AllZero ELSE config)
           IN  \/ /\ m.active /\ asked # m.type
                  /\ JustAnswer(c, "error")
               \/ /\ m.active => asked = m.type
                  /\ unread
                  /\ Replace(a, m) /\ Answer(c, "error", {})
               \/ /\ m.active => asked = m.type
                  /\ ~unread /\ name = Invalid
                  /\ Replace(a, JsonSetType(m, asked)) /\ Answer(c, "error", {})
               \/ /\ m.active => asked = m.type
                  /\ ~unread /\ name # Invalid /\ m.cls = "base"
                  /\ Replace(a, new) /\ Answer(c, "none", {})
               \/ /\ m.active => asked = m.type
                  /\ ~unread /\ name # Invalid /\ m.cls = "unis"
                  /\ Replace(a, new) /\ Answer(c, "ok", ModuleInfo(a, c))

\* Mutant: the firmware upgrade is not looked at.
SettableWhenActive(m) == m.cls = "unis" /\ m.active
\* jsonSetOutput's checks before it looks at the ports.
OutputsSettable(m) == m.cls = "unis" /\ m.active /\ ~Upgrading(m)

\* module_set_outputs: answered only when it changes nothing.
ModuleSetOutputs(c, a, req) ==
  /\ Serve(c, "module_set_outputs")
  /\ \/ Refused(c, a)
     \/ /\ Accepted(c, a) /\ (~OutputsSettable(modules[a]) \/ req = Invalid)
        /\ JustAnswer(c, "error")
     \/ /\ Accepted(c, a) /\ OutputsSettable(modules[a]) /\ req # Invalid
        /\ LET m     == modules[a]
               ports == Changed(m, req)
           IN  /\ modules' = [modules EXCEPT ![a] = JsonSetOutput(m, c, req)]
               /\ lamps' = [lamps EXCEPT ![a] = Show(@, m, ports, req)]
               /\ IF ports = {} THEN Answer(c, "ok", {})
                  ELSE Answer(c, "none", OutputsSetEvents(a, m, subscribes[a], topoSubscribes))
        /\ UNCHANGED <<subs, access, files>>

\* reset_my_outputs: the exception of the broadcast is caught by
\* serverReceived, what was reset before it stays reset.
ResetMyOutputs(c) ==
  /\ Serve(c, "reset_my_outputs")
  /\ \/ Denied(c)
     \/ /\ Allowed(c)
        /\ modules' = ModulesAfterReset(c) /\ lamps' = LampsAfterReset(c)
        /\ Answer(c, IF ResetThrows(c) THEN "error" ELSE "ok",
                  ResetEvents(c, subscribes, topoSubscribes))
        /\ UNCHANGED <<subs, access, files>>

\* module_reboot: sent off, and never answered as nothing activates the module.
ModuleReboot(c, a) ==
  /\ Serve(c, "module_reboot")
  /\ \/ Refused(c, a)
     \/ Accepted(c, a) /\ modules[a].rebooting /\ JustAnswer(c, "error")
     \/ /\ Accepted(c, a) /\ ~modules[a].rebooting
        /\ Replace(a, Reboot(modules[a]))
        /\ Answer(c, "none", ModuleInfo(a, NoSocket))

\* parseFirmware does not throw.
FirmwareParses(firmware) == firmware # Invalid

\* fwUpgdInit: announced to all but the client that asked; nothing follows.
FwUpgdInit(c, a) == Answer(c, "none", ModuleInfo(a, c))

\* module_upgrade_fw: fwUpgrading is set before the firmware is parsed.
ModuleUpgradeFw(c, a, firmware) ==
  /\ Serve(c, "module_upgrade_fw")
  /\ \/ Refused(c, a)
     \/ /\ Accepted(c, a) /\ (modules[a].cls = "base" \/ Upgrading(modules[a]))
        /\ JustAnswer(c, "error")
     \/ /\ Accepted(c, a) /\ modules[a].cls = "unis" /\ ~Upgrading(modules[a])
        /\ Replace(a, [modules[a] EXCEPT !.fw = c])
        /\ IF FirmwareParses(firmware) THEN FwUpgdInit(c, a) ELSE Answer(c, "error", {})

\* module_beacon: the flag is not kept.
ModuleBeacon(c, a, valid) ==
  /\ Serve(c, "module_beacon")
  /\ \/ Refused(c, a)
     \/ Accepted(c, a) /\ JustAnswer(c, IF valid THEN "ok" ELSE "error")

\* module_set_address: acknowledged, the address stays.
ModuleSetAddress(c, a, valid) ==
  /\ Serve(c, "module_set_address")
  /\ \/ Refused(c, a)
     \/ /\ Accepted(c, a)
        /\ JustAnswer(c, IF Upgrading(modules[a]) \/ ~valid THEN "error" ELSE "ok")

\* module_specific_command: only the broadcast form is left unanswered.
SpecificCommand(c, broadcast, valid) ==
  /\ Serve(c, "module_specific_command")
  /\ \/ Denied(c)
     \/ Allowed(c) /\ ~valid /\ JustAnswer(c, "error")
     \/ Allowed(c) /\ valid /\ JustAnswer(c, IF broadcast THEN "none" ELSE "ok")

\* The same for a module, with an empty "data": data[0] of an empty vector is
\* read at a null pointer, which ends the process.
SpecificCommandEnds(c) ==
  /\ Serve(c, "module_specific_command") /\ Allowed(c)
  /\ daemon' = "down" /\ Offline
  /\ UNCHANGED files

\* Answered with no check at all; set_address changes nothing.
Version(c)      == Serve(c, "version") /\ JustAnswer(c, "ok")
ModulesQuery(c) == Serve(c, "modules") /\ JustAnswer(c, "ok")
SetAddress(c)   == Serve(c, "set_address") /\ JustAnswer(c, "ok")

\* A request without a command is a ping; the command of another is unknown.
Unserved(c, ping) == Serve(c, "other") /\ JustAnswer(c, IF ping THEN "none" ELSE "error")

\* module
ModuleQuery(c, a) ==
  Serve(c, "module") /\ JustAnswer(c, IF Registered(a) THEN "ok" ELSE "error")

\* module_diag: StrToDV never fails, and no value is ever fetched.
ModuleDiag(c, a, value) ==
  /\ Serve(c, "module_diag")
  /\ JustAnswer(c, IF Registered(a) /\ value # Invalid THEN "none" ELSE "error")

\* mtbusb: answered only when the request itself has a "mtbusb" key.
MtbUsbQuery(c, body) ==
  Serve(c, "mtbusb") /\ JustAnswer(c, IF body = Absent THEN "none" ELSE "ok")

\* simOnInputChanged: a press or release of a button on the panel.
SimOnInputChanged(a, pin, on) ==
  /\ daemon = "running" /\ "press" \in Commands /\ wired
  /\ IF Registered(a) /\ modules[a].cls = "unis" /\ modules[a].active
     THEN Replace(a, InputsChanged(modules[a], pin, on)) /\ Silent(EventsTo(subscribes[a], "inputs", a))
     ELSE Silent({}) /\ UNCHANGED <<registry, subs, access, files>>

-----------------------------------------------------------------------------
Subscribing(c) ==
  \/ \E list \in Lists : ModuleSubscribe(c, list)
  \/ \E list \in Lists : ModuleUnsubscribe(c, list)
  \/ \E list \in Lists : MyModuleSubscribes(c, list)
  \/ TopoSubscribe(c)
  \/ TopoUnsubscribe(c)

Configuring(c) ==
  \/ SaveConfigFile(c)
  \/ LoadConfigFile(c)
  \/ \E a \in Addrs : ModuleDelete(c, a)
  \/ \E a \in Addrs, type \in TypeCodes \cup {Absent},
        config \in SafeOutputs \cup {Absent}, name \in {Absent, Invalid} :
       ModuleSetConfig(c, a, type, config, name)

Operating(c) ==
  \/ \E a \in Addrs, req \in Requests \cup {Invalid} : ModuleSetOutputs(c, a, req)
  \/ ResetMyOutputs(c)
  \/ \E a \in Addrs : ModuleReboot(c, a)
  \/ \E a \in Addrs, firmware \in {Absent, Invalid} : ModuleUpgradeFw(c, a, firmware)

Asking(c) ==
  \/ \E a \in Addrs, valid \in BOOLEAN : ModuleBeacon(c, a, valid)
  \/ \E a \in Addrs, valid \in BOOLEAN : ModuleSetAddress(c, a, valid)
  \/ \E broadcast \in BOOLEAN, valid \in BOOLEAN : SpecificCommand(c, broadcast, valid)
  \/ Version(c)
  \/ ModulesQuery(c)
  \/ SetAddress(c)
  \/ \E ping \in BOOLEAN : Unserved(c, ping)
  \/ \E a \in Addrs : ModuleQuery(c, a)
  \/ \E a \in Addrs, value \in {Absent, Invalid} : ModuleDiag(c, a, value)
  \/ \E body \in {Absent, Invalid} : MtbUsbQuery(c, body)

Request(c) ==
  (Subscribing(c) \/ Configuring(c) \/ Operating(c) \/ Asking(c)) /\ UNCHANGED <<daemon, clients>>

Next ==
  \/ Stop \/ FirstStart \/ StartLoaded \/ StartRefused \/ StartWithoutServer
  \/ \E c \in Sockets : Connect(c)
  \/ \E c \in Sockets : Disconnect(c)
  \/ \E c \in Sockets : DisconnectTerminates(c)
  \/ \E c \in Sockets : StopWhileSaving(c)
  \/ \E c \in Sockets : SpecificCommandEnds(c)
  \/ \E c \in Sockets : Request(c)
  \/ /\ \E a \in Addrs, pin \in Pins, on \in BOOLEAN : SimOnInputChanged(a, pin, on)
     /\ UNCHANGED <<daemon, clients>>

Spec == Init /\ [][Next]_vars
=============================================================================
