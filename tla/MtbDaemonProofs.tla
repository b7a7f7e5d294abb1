--------------------------- MODULE MtbDaemonProofs ---------------------------
(***************************************************************************)
(* Proofs about MtbDaemon for any number of clients, modules and outputs.  *)
(* Inv is inductive; every other theorem follows from it.  The first part  *)
(* is about the operators of MtbModule: each takes a module object to a    *)
(* module object, leaves no output pending that was not pending before, and*)
(* leaves alone what the daemon's properties need it to leave alone.       *)
(***************************************************************************)
EXTENDS MtbDaemonProperties, TLAPS

-----------------------------------------------------------------------------
(* Module objects *)

\* Nothing is pending on a module object between two handlers.
Settled(m) == m.want = m.confirmed /\ m.waiting = <<>> /\ m.sent = <<>>

\* An operator that leaves alone what the configuration file and the panel
\* know of the module.
SettingsAlone(m, n) ==
  /\ n.cls = m.cls /\ n.type = m.type /\ n.active = m.active /\ n.rebooting = m.rebooting
  /\ n.config = m.config /\ n.linked = m.linked

Queue == Seq(Sockets \cup {NoSocket})

-----------------------------------------------------------------------------
(* Construction *)

\* The default configuration, and the initial outputs, have every port off.
LEMMA AllZeroType == AllZero \in Configs
BY ValuesAssumption DEF AllZero, Configs

\* newModule makes a module object with nothing pending, owned by nobody, and
\* a MtbUnis exactly for the type of one.
LEMMA NewModuleType ==
  ASSUME NEW type \in Types
  PROVE  /\ NewModule(type) \in Module
         /\ Settled(NewModule(type))
         /\ NewModule(type).fw = NoRequest
         /\ NewModule(type).cls = "unis" <=> type = "Unis10"
<1>1. <<>> \in Queue
  BY DEF Queue
<1>2. [p \in Ports |-> NoSocket] \in [Ports -> Sockets \cup {NoSocket}]
  OBVIOUS
<1>3. NewModule(type) \in Module
  BY <1>1, <1>2, AllZeroType DEF NewModule, Module, Types, Configs, Queue
<1> QED
  BY <1>3 DEF NewModule, Settled

-----------------------------------------------------------------------------
(* Outputs *)

\* The queues of a module object may be emptied.
LEMMA EmptyQueues ==
  ASSUME NEW m \in Module
  PROVE  [m EXCEPT !.waiting = <<>>] \in Module /\ [m EXCEPT !.sent = <<>>] \in Module
<1>1. <<>> \in Queue
  BY DEF Queue
<1>2. ASSUME NEW q \in Queue
      PROVE  [m EXCEPT !.waiting = q] \in Module /\ [m EXCEPT !.sent = q] \in Module
  BY DEF Module, Queue
<1> QED
  BY <1>1, <1>2

\* setOutputs confirms what is wanted, leaves nothing pending and changes
\* nothing else.
LEMMA SetOutputsType ==
  ASSUME NEW m \in Module
  PROVE  /\ SetOutputs(m) \in Module
         /\ Settled(SetOutputs(m))
         /\ SetOutputs(m).want = m.want /\ SetOutputs(m).who = m.who
         /\ SetOutputs(m).fw = m.fw
         /\ SettingsAlone(m, SetOutputs(m))
<1> DEFINE sent    == [m EXCEPT !.sent = m.waiting]
           cleared == [sent EXCEPT !.waiting = <<>>]
           done    == [cleared EXCEPT !.confirmed = cleared.want]
<1>1. sent \in Module
  BY DEF Module
<1>2. cleared \in Module
  BY <1>1, EmptyQueues
<1>3. done \in Module
  BY <1>2 DEF Module
<1>4. SetOutputs(m) = [done EXCEPT !.sent = <<>>]
  BY DEF SetOutputs, OutputsSet
<1>5. [done EXCEPT !.sent = <<>>] \in Module
  BY <1>3, EmptyQueues
<1>6. SetOutputs(m) \in Module
  BY <1>4, <1>5
<1> QED
  BY <1>6, <1>1, <1>2, <1>3, <1>4 DEF Module, Settled, SettingsAlone

\* The wanted values and the owners of a module object may be replaced by
\* others of their types.
LEMMA OutputsReplaced ==
  ASSUME NEW m \in Module,
         NEW want \in [Ports -> Values], NEW who \in [Ports -> Sockets \cup {NoSocket}]
  PROVE  [m EXCEPT !.want = want, !.who = who] \in Module
BY DEF Module

\* jsonSetOutput writes only values of the request and only the client as
\* owner, at the ports that change.
LEMMA JsonSetOutputType ==
  ASSUME NEW m \in Module, NEW c \in Sockets, NEW req \in [Ports -> Values \cup {Keep}]
  PROVE  /\ JsonSetOutput(m, c, req) \in Module
         /\ Settled(m) => Settled(JsonSetOutput(m, c, req))
         /\ JsonSetOutput(m, c, req).fw = m.fw
         /\ SettingsAlone(m, JsonSetOutput(m, c, req))
         /\ \A p \in Ports :
              /\ JsonSetOutput(m, c, req).want[p] = IF p \in Changed(m, req) THEN req[p] ELSE m.want[p]
              /\ JsonSetOutput(m, c, req).who[p] = IF p \in Changed(m, req) THEN c ELSE m.who[p]
<1> DEFINE ports  == Changed(m, req)
           want   == [p \in Ports |-> IF p \in ports THEN req[p] ELSE m.want[p]]
           who    == [p \in Ports |-> IF p \in ports THEN c ELSE m.who[p]]
           wanted == [m EXCEPT !.want = want, !.who = who]
<1>1. want \in [Ports -> Values]
  BY DEF Changed, Module
<1>2. who \in [Ports -> Sockets \cup {NoSocket}]
  BY DEF Module
<1> HIDE DEF want, who
<1>3. wanted \in Module
  BY <1>1, <1>2, OutputsReplaced
<1>4. /\ wanted.want = want /\ wanted.who = who /\ wanted.fw = m.fw
      /\ wanted.confirmed = m.confirmed /\ wanted.waiting = m.waiting /\ wanted.sent = m.sent
      /\ SettingsAlone(m, wanted)
  BY DEF Module, SettingsAlone
<1> HIDE DEF wanted
<1>5. JsonSetOutput(m, c, req) \in {wanted, SetOutputs(wanted)}
  BY DEF JsonSetOutput, wanted, want, who
<1>6. \A p \in Ports : /\ want[p] = IF p \in ports THEN req[p] ELSE m.want[p]
                       /\ who[p] = IF p \in ports THEN c ELSE m.who[p]
  BY DEF want, who
<1>7. ASSUME Settled(m) PROVE Settled(JsonSetOutput(m, c, req))
  <2>1. CASE ports = {}
    <3>1. want = m.want
      BY <2>1 DEF want, Module
    <3> QED
      BY <1>4, <1>7, <2>1, <3>1 DEF Settled, JsonSetOutput, wanted, want, who
  <2>2. CASE ports # {}
    <3>1. JsonSetOutput(m, c, req) = SetOutputs(wanted)
      BY <1>7, <2>2 DEF Settled, JsonSetOutput, wanted, want, who
    <3> QED
      BY <1>3, <3>1, SetOutputsType
  <2> QED
    BY <2>1, <2>2
<1> QED
  BY <1>3, <1>4, <1>5, <1>6, <1>7, SetOutputsType DEF SettingsAlone

\* resetOutputsOfClient gives the client's outputs, and only those, their safe
\* value and no owner.
LEMMA ResetOutputsOfClientType ==
  ASSUME NEW m \in Module, NEW c \in Sockets
  PROVE  /\ ResetOutputsOfClient(m, c) \in Module
         /\ Settled(m) => Settled(ResetOutputsOfClient(m, c))
         /\ ResetOutputsOfClient(m, c).fw = m.fw
         /\ SettingsAlone(m, ResetOutputsOfClient(m, c))
         /\ m.cls # "unis" \/ ~Configured(m) => ResetOutputsOfClient(m, c) = m
         /\ \A p \in Ports : m.who[p] # c =>
              /\ ResetOutputsOfClient(m, c).want[p] = m.want[p]
              /\ ResetOutputsOfClient(m, c).who[p] = m.who[p]
         /\ m.cls = "unis" /\ Configured(m) => \A p \in Ports : m.who[p] = c =>
              /\ ResetOutputsOfClient(m, c).want[p] = m.config[p]
              /\ ResetOutputsOfClient(m, c).who[p] = NoSocket
<1>1. CASE m.cls # "unis" \/ ~Configured(m) \/ Owned(m, c) = {}
  BY <1>1 DEF ResetOutputsOfClient, Owned, SettingsAlone
<1>2. CASE m.cls = "unis" /\ Configured(m) /\ Owned(m, c) # {}
  <2> DEFINE ports == Owned(m, c)
             want  == [p \in Ports |-> IF p \in ports THEN m.config[p] ELSE m.want[p]]
             who   == [p \in Ports |-> IF p \in ports THEN NoSocket ELSE m.who[p]]
             reset == [m EXCEPT !.want = want, !.who = who]
             safe  == [reset EXCEPT !.waiting = Append(m.waiting, NoSocket)]
  <2>1. want \in [Ports -> Values]
    BY <1>2 DEF Module, Configured, Configs
  <2>2. who \in [Ports -> Sockets \cup {NoSocket}]
    BY DEF Module
  <2>3. \A p \in Ports : /\ m.who[p] # c => want[p] = m.want[p] /\ who[p] = m.who[p]
                         /\ m.who[p] = c => want[p] = m.config[p] /\ who[p] = NoSocket
    BY DEF Owned
  <2> HIDE DEF want, who
  <2>4. reset \in Module
    BY <2>1, <2>2, OutputsReplaced
  <2>5. Append(m.waiting, NoSocket) \in Queue
    BY DEF Module, Queue
  <2>6. safe \in Module
    BY <2>4, <2>5 DEF Module, Queue
  <2>7. safe.want = want /\ safe.who = who /\ safe.fw = m.fw /\ SettingsAlone(m, safe)
    BY DEF Module, SettingsAlone
  <2>8. ResetOutputsOfClient(m, c) = IF m.sent = <<>> THEN SetOutputs(safe) ELSE safe
    BY <1>2 DEF ResetOutputsOfClient, want, who
  <2> HIDE DEF safe
  <2> QED
    BY <1>2, <2>3, <2>6, <2>7, <2>8, SetOutputsType DEF Settled, SettingsAlone
<1> QED
  BY <1>1, <1>2

\* allOutputsReset of a module that is not an unconfigured MtbUnis.
LEMMA AllOutputsResetType ==
  ASSUME NEW m \in Module, ~Lacking(m)
  PROVE  /\ AllOutputsReset(m) \in Module
         /\ Settled(m) => Settled(AllOutputsReset(m))
         /\ AllOutputsReset(m).fw = m.fw
         /\ SettingsAlone(m, AllOutputsReset(m))
         /\ m.cls # "unis" => AllOutputsReset(m) = m
         /\ m.cls = "unis" => /\ AllOutputsReset(m).want = m.config
                              /\ \A p \in Ports : AllOutputsReset(m).who[p] = NoSocket
<1>1. CASE m.cls # "unis"
  BY <1>1 DEF AllOutputsReset, SettingsAlone
<1>2. CASE m.cls = "unis"
  <2> DEFINE who == [p \in Ports |-> NoSocket]
  <2>1. who \in [Ports -> Sockets \cup {NoSocket}]
    OBVIOUS
  <2>2. m.config \in [Ports -> Values]
    BY <1>2 DEF Lacking, Configured, Module, Configs
  <2>3. \A p \in Ports : who[p] = NoSocket
    OBVIOUS
  <2>4. AllOutputsReset(m) = [m EXCEPT !.want = m.config, !.confirmed = m.config, !.who = who]
    BY <1>2 DEF AllOutputsReset
  <2> HIDE DEF who
  <2> QED
    BY <1>2, <2>1, <2>2, <2>3, <2>4 DEF Module, Settled, SettingsAlone
<1> QED
  BY <1>1, <1>2

\* allOutputsReset of an unconfigured MtbUnis: at most port 0 changes.
LEMMA AllOutputsResetThrowsType ==
  ASSUME NEW m \in Module
  PROVE  /\ AllOutputsResetThrows(m) \in Module
         /\ Settled(m) => Settled(AllOutputsResetThrows(m))
         /\ AllOutputsResetThrows(m).fw = m.fw
         /\ SettingsAlone(m, AllOutputsResetThrows(m))
         /\ AllOutputsResetThrows(m).who = m.who
         /\ \A p \in Ports : AllOutputsResetThrows(m).want[p] \in {0, m.want[p]}
<1> DEFINE want      == [m.want EXCEPT ![0] = 0]
           confirmed == [m.confirmed EXCEPT ![0] = 0]
<1>1. want \in [Ports -> Values] /\ confirmed \in [Ports -> Values]
  BY ValuesAssumption DEF Module
<1>2. m.want = m.confirmed => want = confirmed
  OBVIOUS
<1>6. \A p \in Ports : want[p] \in {0, m.want[p]}
  BY DEF Module
<1>3. AllOutputsResetThrows(m) = [m EXCEPT !.want = want, !.confirmed = confirmed]
  BY DEF AllOutputsResetThrows
<1> HIDE DEF want, confirmed
<1>4. AllOutputsResetThrows(m) \in Module
  BY <1>1, <1>3 DEF Module
<1>5. Settled(m) => Settled(AllOutputsResetThrows(m))
  BY <1>2, <1>3 DEF Module, Settled
<1> QED
  BY <1>3, <1>4, <1>5, <1>6 DEF Module, SettingsAlone

-----------------------------------------------------------------------------
(* Configuration, reboot, firmware, inputs, sockets *)

\* What a lemma says of an operator that does not touch the outputs.
OutputsAlone(m, n) ==
  /\ n \in Module
  /\ Settled(m) => Settled(n)
  /\ n.want = m.want /\ n.confirmed = m.confirmed /\ n.who = m.who /\ n.cls = m.cls

\* jsonSetConfig that fails at the name changes the type only.
LEMMA JsonSetTypeType ==
  ASSUME NEW m \in Module, NEW type \in Types
  PROVE  /\ OutputsAlone(m, JsonSetType(m, type))
         /\ JsonSetType(m, type).type = type /\ JsonSetType(m, type).fw = m.fw
         /\ JsonSetType(m, type).config = m.config
         /\ JsonSetType(m, type).active = m.active
         /\ JsonSetType(m, type).rebooting = m.rebooting
         /\ JsonSetType(m, type).linked = m.linked
BY DEF JsonSetType, OutputsAlone, Module, Settled

\* jsonSetConfig changes the type and the configuration only.
LEMMA JsonSetConfigType ==
  ASSUME NEW m \in Module, NEW type \in Types, NEW config \in Configs
  PROVE  /\ OutputsAlone(m, JsonSetConfig(m, type, config))
         /\ JsonSetConfig(m, type, config).config = IF m.cls = "unis" THEN config ELSE m.config
         /\ JsonSetConfig(m, type, config).type = type
         /\ JsonSetConfig(m, type, config).fw = m.fw
         /\ JsonSetConfig(m, type, config).active = m.active
         /\ JsonSetConfig(m, type, config).rebooting = m.rebooting
         /\ JsonSetConfig(m, type, config).linked = m.linked
BY DEF JsonSetConfig, OutputsAlone, Module, Settled

\* reboot marks the module and makes it inactive.
LEMMA RebootType ==
  ASSUME NEW m \in Module
  PROVE  /\ OutputsAlone(m, Reboot(m)) /\ Reboot(m).fw = m.fw /\ Reboot(m).rebooting
         /\ Reboot(m).type = m.type /\ Reboot(m).config = m.config /\ Reboot(m).linked = m.linked
BY DEF Reboot, OutputsAlone, Module, Settled

\* An upgrade request is recorded in fwUpgrading and nowhere else.
LEMMA UpgradeType ==
  ASSUME NEW m \in Module, NEW c \in Sockets
  PROVE  OutputsAlone(m, [m EXCEPT !.fw = c]) /\ SettingsAlone(m, [m EXCEPT !.fw = c])
BY DEF OutputsAlone, SettingsAlone, Module, Settled

\* mtbBusInputsChanged changes the inputs only.
LEMMA InputsChangedType ==
  ASSUME NEW m \in Module, NEW pin \in Pins, NEW on \in BOOLEAN
  PROVE  /\ OutputsAlone(m, InputsChanged(m, pin, on))
         /\ SettingsAlone(m, InputsChanged(m, pin, on))
         /\ InputsChanged(m, pin, on).fw = m.fw
BY DEF InputsChanged, OutputsAlone, SettingsAlone, Module, Settled

\* clientDisconnected leaves no upgrade request of the client.
LEMMA ClientDisconnectedType ==
  ASSUME NEW m \in Module, NEW c \in Sockets
  PROVE  /\ OutputsAlone(m, ClientDisconnected(m, c))
         /\ SettingsAlone(m, ClientDisconnected(m, c))
         /\ ClientDisconnected(m, c).fw \in {m.fw, NoSocket} \ {c}
BY SocketsAssumption DEF ClientDisconnected, OutputsAlone, SettingsAlone, Module, Settled

\* saveConfig writes an entry.
LEMMA SaveConfigType ==
  ASSUME NEW m \in Module
  PROVE  SaveConfig(m) \in Entry
BY DEF SaveConfig, Entry, Module

\* loadConfig takes the type and the configuration of the entry and makes the
\* module active.
LEMMA LoadConfigType ==
  ASSUME NEW m \in Module, NEW e \in Entry
  PROVE  /\ OutputsAlone(m, LoadConfig(m, e))
         /\ LoadConfig(m, e).fw = m.fw
         /\ LoadConfig(m, e).active /\ LoadConfig(m, e).type = e.type
         /\ LoadConfig(m, e).rebooting = m.rebooting /\ LoadConfig(m, e).linked = m.linked
         /\ LoadConfig(m, e).config = IF m.cls = "unis" /\ Parsable(e.config) THEN e.config ELSE m.config
BY DEF LoadConfig, OutputsAlone, Module, Settled, Entry

\* The panel may be connected to a module object.
LEMMA LinkType ==
  ASSUME NEW m \in Module
  PROVE  OutputsAlone(m, [m EXCEPT !.linked = TRUE]) /\ [m EXCEPT !.linked = TRUE].fw = m.fw
BY DEF OutputsAlone, Module, Settled

-----------------------------------------------------------------------------
(* The inductive invariant *)

\* While the process is not running nobody is connected and nothing exists.
Quiet ==
  daemon # "running" =>
    /\ clients = {}
    /\ \A a \in Addrs : modules[a] = NoModule /\ subscribes[a] = {} /\ lamps[a] = {}

\* The inductive invariant.  TypeOK alone is inductive as well; the parts are
\* proved together because each handler disturbs them in the same places.
Inv == TypeOK /\ Quiet /\ OutputsSettled /\ SocketsConnected

\* What Inv says of one element of the module array, S being the clients.
Good(m, S) ==
  \/ m = NoModule
  \/ m \in Module /\ Settled(m) /\ m.fw \in S \cup {NoSocket, NoRequest}

\* The response and the events of a step are well formed.
Spoken == answer \in [by : Sockets \cup {NoSocket}, status : Statuses] /\ events \subseteq Events

\* Who is subscribed is connected.
Subscribers(S) ==
  /\ topoSubscribes \subseteq S /\ subscribes \in [Addrs -> SUBSET S]

\* Inv in terms of the elements of the module array.
Parts ==
  /\ daemon \in {"down", "running", "refused"}
  /\ clients \subseteq Sockets
  /\ modules \in [Addrs -> Module \cup {NoModule}]
  /\ \A a \in Addrs : Good(modules[a], clients)
  /\ Subscribers(clients)
  /\ writeAccess \subseteq Writers /\ wired \in BOOLEAN /\ settings \in Servers
  /\ lamps \in [Addrs -> SUBSET Ports]
  /\ files \in [Names -> Documents \cup {NoFile, Truncated}]
  /\ Spoken
  /\ Quiet

-----------------------------------------------------------------------------
(* Lemmas *)

LEMMA InvParts == Inv <=> Parts
<1>1. ASSUME Inv
      PROVE  Subscribers(clients) /\ \A a \in Addrs : Good(modules[a], clients)
  BY <1>1 DEF Inv, TypeOK, OutputsSettled, SocketsConnected, Registered, Good, Settled, Subscribers
<1>2. ASSUME modules \in [Addrs -> Module \cup {NoModule}], clients \subseteq Sockets,
             Subscribers(clients), \A a \in Addrs : Good(modules[a], clients)
      PROVE  /\ OutputsSettled /\ SocketsConnected
             /\ subscribes \in [Addrs -> SUBSET Sockets] /\ topoSubscribes \subseteq Sockets
  <2>1. \A a \in Addrs : subscribes[a] \subseteq clients
    BY <1>2 DEF Subscribers
  <2>2. subscribes \in [Addrs -> SUBSET Sockets]
    BY <1>2 DEF Subscribers
  <2> QED
    BY <1>2, <2>1, <2>2, NullsAssumption
       DEF OutputsSettled, SocketsConnected, Registered, Good, Settled, Subscribers
<1> QED
  BY <1>1, <1>2 DEF Inv, TypeOK, Spoken, Parts

LEMMA InvPartsNext == Inv' <=> Parts'
BY InvParts, PTL

\* An event sent to sockets is an event.
LEMMA EventsToType ==
  ASSUME NEW S \in SUBSET Sockets, NEW a \in Addrs,
         NEW e \in {"module", "outputs", "inputs", "deleted"}
  PROVE  EventsTo(S, e, a) \subseteq Events
BY DEF EventsTo, Events

LEMMA ModuleInfoType ==
  ASSUME Subscribers(clients), clients \subseteq Sockets, NEW a \in Addrs, NEW ignore
  PROVE  ModuleInfo(a, ignore) \subseteq Events
<1>1. (topoSubscribes \cup subscribes[a]) \ {ignore} \in SUBSET Sockets
  BY DEF Subscribers
<1> QED
  BY <1>1, EventsToType DEF ModuleInfo

LEMMA OutputsSetEventsType ==
  ASSUME NEW a \in Addrs, NEW m, NEW S \in SUBSET Sockets, NEW T \in SUBSET Sockets
  PROVE  OutputsSetEvents(a, m, S, T) \subseteq Events
<1>1. S \ Range(m.waiting) \in SUBSET Sockets /\ (S \cup T) \ {m.fw} \in SUBSET Sockets
  OBVIOUS
<1>2. /\ EventsTo(S \ Range(m.waiting), "outputs", a) \subseteq Events
      /\ EventsTo((S \cup T) \ {m.fw}, "module", a) \subseteq Events
  BY <1>1, EventsToType
<1> QED
  BY <1>2 DEF OutputsSetEvents

LEMMA ResetEventsType ==
  ASSUME NEW c, NEW S \in [Addrs -> SUBSET Sockets], NEW T \in SUBSET Sockets
  PROVE  ResetEvents(c, S, T) \subseteq Events
<1>1. ASSUME NEW a \in Addrs
      PROVE  /\ OutputsSetEvents(a, modules[a], S[a], T) \subseteq Events
             /\ EventsTo(S[a], "outputs", a) \subseteq Events
  <2>1. S[a] \in SUBSET Sockets
    OBVIOUS
  <2> QED
    BY <2>1, OutputsSetEventsType, EventsToType
<1> QED
  BY <1>1 DEF ResetEvents

\* An answer with events is well formed.
LEMMA AnswerType ==
  ASSUME NEW c \in Sockets \cup {NoSocket}, NEW status \in Statuses,
         NEW evs \in SUBSET Events, Answer(c, status, evs)
  PROVE  Spoken'
BY DEF Answer, Spoken

LEMMA SilentType ==
  ASSUME NEW evs \in SUBSET Events, Silent(evs)
  PROVE  Spoken'
BY AnswerType DEF Silent, Statuses

-----------------------------------------------------------------------------
(* The shapes of a handler *)

\* A handler that only answers.
LEMMA JustAnswerKeeps ==
  ASSUME Inv, NEW c \in Sockets, NEW status \in Statuses, JustAnswer(c, status),
         UNCHANGED <<daemon, clients>>
  PROVE  Inv'
<1>1. Spoken'
  BY AnswerType DEF JustAnswer
<1>2. Parts
  BY InvParts
<1> QED
  BY <1>1, <1>2, InvPartsNext DEF Parts, JustAnswer, registry, subs, access, Quiet, Subscribers

\* A handler that replaces one module object.
LEMMA ReplaceKeeps ==
  ASSUME Inv, daemon = "running", UNCHANGED <<daemon, clients>>, Spoken',
         NEW a \in Addrs, NEW m, Good(m, clients), Replace(a, m)
  PROVE  Inv'
<1>1. Parts
  BY InvParts
<1>2. m \in Module \cup {NoModule}
  BY DEF Good
<1>3. modules' \in [Addrs -> Module \cup {NoModule}]
  BY <1>1, <1>2 DEF Replace, Parts
<1>4. \A b \in Addrs : Good(modules'[b], clients')
  BY <1>1 DEF Replace, Parts
<1>5. Quiet'
  BY DEF Quiet
<1>6. Subscribers(clients)'
  BY <1>1 DEF Subscribers, Replace, subs, Parts
<1> QED
  BY <1>1, <1>3, <1>4, <1>5, <1>6, InvPartsNext DEF Parts, Replace, subs, access, Good

-----------------------------------------------------------------------------
(* clientResetOutputs and the configuration file *)

\* Whatever clientResetOutputs does, the module array stays good.
LEMMA ResetKeeps ==
  ASSUME Inv, NEW c \in Sockets
  PROVE  /\ ModulesAfterReset(c) \in [Addrs -> Module \cup {NoModule}]
         /\ \A a \in Addrs : /\ Good(ModulesAfterReset(c)[a], clients)
                             /\ Registered(a) => ModulesAfterReset(c)[a] # NoModule
         /\ LampsAfterReset(c) \in [Addrs -> SUBSET Ports]
<1>1. Parts
  BY InvParts
<1>2. ASSUME NEW a \in Addrs, Registered(a)
      PROVE  Good(ModuleAfterReset(a, c), clients) /\ ModuleAfterReset(a, c) \in Module
  <2>1. modules[a] \in Module /\ Good(modules[a], clients)
    BY <1>1, <1>2 DEF Parts, Registered
  <2>2. CASE SeveralSetters
    BY <2>1, <2>2, <1>2, ResetOutputsOfClientType DEF ModuleAfterReset, Good, Registered
  <2>3. CASE ~SeveralSetters /\ (~SoleSetter(c) \/ ~Reached(a))
    BY <2>1, <2>3 DEF ModuleAfterReset
  <2>4. CASE ~SeveralSetters /\ SoleSetter(c) /\ Reached(a) /\ LackingAt(a)
    BY <2>1, <2>4, <1>2, AllOutputsResetThrowsType DEF ModuleAfterReset, Good, Registered
  <2>5. CASE ~SeveralSetters /\ SoleSetter(c) /\ Reached(a) /\ ~LackingAt(a)
    <3>1. ~Lacking(modules[a])
      BY <1>2, <2>5 DEF LackingAt
    <3> QED
      BY <2>1, <2>5, <3>1, <1>2, AllOutputsResetType DEF ModuleAfterReset, Good, Registered
  <2> QED
    BY <2>2, <2>3, <2>4, <2>5
<1>3. LampsAfterReset(c) \in [Addrs -> SUBSET Ports]
  <2>1. ASSUME NEW a \in Addrs PROVE PortsReset(a, c) \subseteq Ports
    BY DEF PortsReset, Owned
  <2>2. ASSUME NEW a \in Addrs
        PROVE  Show(lamps[a], modules[a], PortsReset(a, c), modules[a].config) \subseteq Ports
    BY <1>1, <2>1 DEF Show, Parts
  <2> QED
    BY <1>1, <2>2 DEF LampsAfterReset, Parts
<1> QED
  BY <1>2, <1>3, NullsAssumption DEF ModulesAfterReset, Good

\* Loading an entry keeps the element of the module array good, and registered.
LEMMA LoadKeeps ==
  ASSUME Inv, NEW f \in Entries, NEW a \in Addrs
  PROVE  /\ Good(ModuleAfterLoad(f, a), clients)
         /\ Registered(a) => ModuleAfterLoad(f, a) # NoModule
<1>1. Good(modules[a], clients)
  BY InvParts DEF Parts
<1>2. CASE ~Applies(f, a) \/ \E b \in Addrs : b < a /\ Fails(f, b)
  BY <1>1, <1>2 DEF ModuleAfterLoad, Registered
<1>3. CASE Applies(f, a) /\ ~\E b \in Addrs : b < a /\ Fails(f, b)
  <2> DEFINE e == f[a]
             t == Target(f, a)
             m == LoadConfig(t, e)
  <2>1. e \in Entry
    BY <1>3 DEF Entries, Applies
  <2>2. t \in Module /\ Settled(t) /\ t.fw \in clients \cup {NoSocket, NoRequest}
    BY <1>1, <2>1, NewModuleType DEF Target, Registered, Good, Entry
  <2> HIDE DEF t, e
  <2>3. m \in Module /\ Settled(m) /\ m.fw \in clients \cup {NoSocket, NoRequest}
    BY <2>1, <2>2, LoadConfigType DEF OutputsAlone
  <2> HIDE DEF m
  <2>4. /\ [m EXCEPT !.linked = TRUE] \in Module /\ Settled([m EXCEPT !.linked = TRUE])
        /\ [m EXCEPT !.linked = TRUE].fw \in clients \cup {NoSocket, NoRequest}
    BY <2>3, LinkType DEF OutputsAlone
  <2>5. ModuleAfterLoad(f, a) \in {m, [m EXCEPT !.linked = TRUE]}
    BY <1>3 DEF ModuleAfterLoad, m, t, e
  <2> QED
    BY <2>3, <2>4, <2>5, NullsAssumption DEF Good
<1> QED
  BY <1>2, <1>3

\* A readable file has entries.
LEMMA ReadableType ==
  ASSUME NEW name, Readable(name)
  PROVE  files[name].modules \in Entries /\ files[name].server \in Servers
BY DEF Readable, Documents

\* What save_config writes, and the default configuration, are files.
LEMMA SavedType ==
  ASSUME Inv
  PROVE  Saved \in Documents
<1>1. ASSUME NEW a \in Addrs, Registered(a) PROVE SaveConfig(modules[a]) \in Entry
  BY <1>1, InvParts, SaveConfigType DEF Parts, Registered
<1>2. settings \in Servers
  BY InvParts DEF Parts
<1> QED
  BY <1>1, <1>2 DEF Saved, Documents, Entries

LEMMA DefaultConfigType == DefaultConfig \in Documents
BY DEF DefaultConfig, Documents, Servers, Entries

-----------------------------------------------------------------------------
(* The process *)

LEMMA InitInv == Init => Inv
<1> SUFFICES ASSUME Init PROVE Parts
  BY InvParts
<1>1. files \in [Names -> Documents \cup {NoFile, Truncated}]
  BY FilesAssumption DEF Init
<1> QED
  BY <1>1 DEF Init, Parts, Good, Subscribers, Spoken, Quiet, Statuses, Events, Servers

\* Everything but the files is gone.
LEMMA OfflineKeeps ==
  ASSUME Inv, Offline, daemon' \in {"down", "running", "refused"},
         files' \in [Names -> Documents \cup {NoFile, Truncated}]
  PROVE  Inv'
<1>1. Spoken'
  BY SilentType DEF Offline
<1> QED
  BY <1>1, InvPartsNext DEF Offline, Parts, Good, Subscribers, Quiet, Servers

LEMMA StopKeeps == Inv /\ Stop => Inv'
BY OfflineKeeps, InvParts DEF Stop, Parts

LEMMA FirstStartKeeps == Inv /\ FirstStart => Inv'
<1> SUFFICES ASSUME Inv, FirstStart PROVE Inv'
  OBVIOUS
<1>1. Spoken'
  BY SilentType DEF FirstStart
<1>2. files' \in [Names -> Documents \cup {NoFile, Truncated}]
  BY InvParts, DefaultConfigType DEF FirstStart, Parts
<1>3. settings' \in Servers
  BY DEF FirstStart, DefaultConfig, Servers
<1> QED
  BY <1>1, <1>2, <1>3, InvParts, InvPartsNext
     DEF FirstStart, Parts, registry, subs, Quiet, Subscribers

LEMMA StartLoadedKeeps == Inv /\ StartLoaded => Inv'
<1> SUFFICES ASSUME Inv, StartLoaded PROVE Inv'
  OBVIOUS
<1>1. Spoken'
  BY SilentType DEF StartLoaded
<1> DEFINE f == files[ConfigFileName]
<1>4. f.modules \in Entries /\ f.server \in Servers
  BY ReadableType DEF StartLoaded, Loads
<1> HIDE DEF f
<1>2. \A a \in Addrs : Good(ModuleAfterLoad(f.modules, a), clients)
  BY <1>4, LoadKeeps
<1>3. modules' \in [Addrs -> Module \cup {NoModule}] /\ \A a \in Addrs : Good(modules'[a], clients')
  BY <1>2 DEF StartLoaded, Good, f
<1> QED
  BY <1>1, <1>3, <1>4, InvParts, InvPartsNext DEF StartLoaded, Parts, subs, Quiet, Subscribers, f

LEMMA StartRefusedKeeps == Inv /\ StartRefused => Inv'
<1> SUFFICES ASSUME Inv, StartRefused PROVE Inv'
  OBVIOUS
<1>1. Spoken'
  BY SilentType DEF StartRefused
<1> QED
  BY <1>1, InvParts, InvPartsNext
     DEF StartRefused, Parts, registry, subs, access, Quiet, Subscribers

LEMMA StartWithoutServerKeeps == Inv /\ StartWithoutServer => Inv'
<1> SUFFICES ASSUME Inv, StartWithoutServer PROVE Inv'
  OBVIOUS
<1>1. Spoken'
  BY SilentType DEF StartWithoutServer
<1>2. files' \in [Names -> Documents \cup {NoFile, Truncated}]
  BY InvParts, DefaultConfigType DEF StartWithoutServer, Parts
<1> QED
  BY <1>1, <1>2, InvParts, InvPartsNext
     DEF StartWithoutServer, Parts, registry, subs, access, Quiet, Subscribers

-----------------------------------------------------------------------------
(* Connections *)

LEMMA ConnectKeeps ==
  ASSUME Inv, NEW c \in Sockets, Connect(c)
  PROVE  Inv'
<1>1. Spoken'
  BY SilentType DEF Connect
<1>2. \A a \in Addrs : Good(modules[a], clients')
  BY InvParts DEF Connect, Parts, Good
<1>3. Subscribers(clients')
  BY InvParts DEF Connect, Parts, Subscribers
<1> QED
  BY <1>1, <1>2, <1>3, InvParts, InvPartsNext
     DEF Connect, Parts, registry, subs, access, Quiet, Subscribers

\* A client leaves: no subscription, no pending upgrade of it remains.
LEMMA DisconnectKeeps ==
  ASSUME Inv, NEW c \in Sockets, Disconnect(c)
  PROVE  Inv'
<1> USE DEF Disconnect
<1>1. subscribes' \in [Addrs -> SUBSET clients'] /\ topoSubscribes' \subseteq clients'
  BY InvParts DEF Parts, Subscribers
<1>2. subscribes' \in [Addrs -> SUBSET Sockets] /\ topoSubscribes' \in SUBSET Sockets
  BY <1>1, InvParts DEF Parts
<1>3. Spoken'
  BY <1>2, ResetEventsType, SilentType
<1>4. ASSUME NEW a \in Addrs PROVE Good(modules'[a], clients')
  <2>1. CASE Registered(a)
    <3> DEFINE m == ModulesAfterReset(c)[a]
    <3>1. m \in Module /\ Settled(m) /\ m.fw \in clients \cup {NoSocket, NoRequest}
      BY <2>1, ResetKeeps DEF Good
    <3>2. modules'[a] = ClientDisconnected(m, c)
      BY <2>1
    <3> HIDE DEF m
    <3> QED
      BY <3>1, <3>2, ClientDisconnectedType, InvParts DEF Good, OutputsAlone, Parts
  <2>2. CASE ~Registered(a)
    BY <2>2 DEF Good
  <2> QED
    BY <2>1, <2>2
<1>5. modules' \in [Addrs -> Module \cup {NoModule}]
  BY <1>4 DEF Good
<1>6. lamps' \in [Addrs -> SUBSET Ports]
  BY ResetKeeps
<1> QED
  BY <1>1, <1>3, <1>4, <1>5, <1>6, InvParts, InvPartsNext DEF Parts, access, Quiet, Subscribers

LEMMA DisconnectTerminatesKeeps ==
  ASSUME Inv, NEW c \in Sockets, DisconnectTerminates(c)
  PROVE  Inv'
BY OfflineKeeps, InvParts DEF DisconnectTerminates, Parts

LEMMA StopWhileSavingKeeps ==
  ASSUME Inv, NEW c \in Sockets, StopWhileSaving(c)
  PROVE  Inv'
<1>1. files' \in [Names -> Documents \cup {NoFile, Truncated}]
  BY InvParts DEF StopWhileSaving, Parts
<1> QED
  BY <1>1, OfflineKeeps DEF StopWhileSaving

LEMMA SpecificCommandEndsKeeps ==
  ASSUME Inv, NEW c \in Sockets, SpecificCommandEnds(c)
  PROVE  Inv'
BY OfflineKeeps, InvParts DEF SpecificCommandEnds, Parts

-----------------------------------------------------------------------------
(* Requests *)

\* A generic refusal only answers.
LEMMA RefusedKeeps ==
  ASSUME Inv, NEW c \in Sockets, NEW a \in Addrs, Refused(c, a) \/ Denied(c),
         UNCHANGED <<daemon, clients>>
  PROVE  Inv'
BY JustAnswerKeeps DEF Refused, Denied, Statuses

\* The requests that subscribe and unsubscribe.
LEMMA SubscribingKeeps ==
  ASSUME Inv, NEW c \in Sockets, Subscribing(c), UNCHANGED <<daemon, clients>>
  PROVE  Inv'
<1> DEFINE Rest == UNCHANGED <<registry, access, files>> /\ Answer(c, "ok", {})
<1>1. ASSUME Rest, daemon = "running", Subscribers(clients)'
      PROVE  Inv'
  <2>1. Spoken'
    BY <1>1, AnswerType DEF Statuses
  <2> QED
    BY <1>1, <2>1, InvParts, InvPartsNext DEF Parts, registry, access, Quiet
<1>2. ASSUME NEW list \in Lists, ModuleSubscribe(c, list) PROVE Inv'
  BY <1>1, <1>2, InvParts, JustAnswerKeeps
     DEF ModuleSubscribe, Serve, Parts, Subscribers, Statuses
<1>3. ASSUME NEW list \in Lists, ModuleUnsubscribe(c, list) PROVE Inv'
  BY <1>1, <1>3, InvParts, JustAnswerKeeps
     DEF ModuleUnsubscribe, Serve, Parts, Subscribers, Statuses
<1>4. ASSUME NEW list \in Lists, MyModuleSubscribes(c, list) PROVE Inv'
  BY <1>1, <1>4, InvParts, JustAnswerKeeps
     DEF MyModuleSubscribes, Serve, Parts, Subscribers, Statuses
<1>5. ASSUME TopoSubscribe(c) PROVE Inv'
  BY <1>1, <1>5, InvParts DEF TopoSubscribe, Serve, Parts, Subscribers
<1>6. ASSUME TopoUnsubscribe(c) PROVE Inv'
  BY <1>1, <1>6, InvParts DEF TopoUnsubscribe, Serve, Parts, Subscribers
<1> QED
  BY <1>2, <1>3, <1>4, <1>5, <1>6 DEF Subscribing

\* save_config and load_config.
LEMMA SaveConfigFileKeeps ==
  ASSUME Inv, NEW c \in Sockets, SaveConfigFile(c), UNCHANGED <<daemon, clients>>
  PROVE  Inv'
<1>1. CASE Denied(c) \/ JustAnswer(c, "error")
  BY <1>1, JustAnswerKeeps DEF Denied, Statuses
<1>2. CASE /\ \E name \in Writable : files' = [files EXCEPT ![name] = Saved]
           /\ Answer(c, "ok", {}) /\ UNCHANGED <<registry, subs, access>>
  <2>1. Spoken'
    BY <1>2, AnswerType DEF Statuses
  <2>2. files' \in [Names -> Documents \cup {NoFile, Truncated}]
    BY <1>2, SavedType, InvParts DEF Parts
  <2> QED
    BY <1>2, <2>1, <2>2, InvParts, InvPartsNext
       DEF Parts, registry, subs, access, Quiet, Subscribers
<1> QED
  BY <1>1, <1>2 DEF SaveConfigFile

LEMMA LoadConfigFileKeeps ==
  ASSUME Inv, NEW c \in Sockets, LoadConfigFile(c), UNCHANGED <<daemon, clients>>
  PROVE  Inv'
<1>1. CASE Denied(c) \/ JustAnswer(c, "error")
  BY <1>1, JustAnswerKeeps DEF Denied, Statuses
<1>2. ASSUME NEW name \in Names, LoadNamed(c, name) PROVE Inv'
  <2> DEFINE f == files[name]
  <2>1. f.modules \in Entries /\ f.server \in Servers
    BY <1>2, ReadableType DEF LoadNamed
  <2>2. /\ modules' = [a \in Addrs |-> ModuleAfterLoad(f.modules, a)]
        /\ settings' = f.server /\ UNCHANGED <<lamps, subs, files>>
    BY <1>2 DEF LoadNamed
  <2>3. /\ \E status \in {"ok", "error"} : Answer(c, status, {})
        /\ writeAccess' \subseteq Writers /\ wired' \in BOOLEAN
    BY <1>2, InvParts, ReadableType DEF LoadNamed, AllowClients, Parts, Servers
  <2> HIDE DEF f
  <2>4. Spoken'
    BY <2>3, AnswerType DEF Statuses
  <2>5. \A a \in Addrs : Good(modules'[a], clients')
    BY <2>1, <2>2, LoadKeeps
  <2>6. modules' \in [Addrs -> Module \cup {NoModule}]
    BY <2>2, <2>5 DEF Good
  <2> QED
    BY <2>1, <2>2, <2>3, <2>4, <2>5, <2>6, InvParts, InvPartsNext
       DEF LoadConfigFile, Serve, Parts, subs, Quiet, Subscribers
<1> QED
  BY <1>1, <1>2 DEF LoadConfigFile

\* module_delete.
LEMMA ModuleDeleteKeeps ==
  ASSUME Inv, NEW c \in Sockets, NEW a \in Addrs, ModuleDelete(c, a), UNCHANGED <<daemon, clients>>
  PROVE  Inv'
<1>1. CASE JustAnswer(c, "error")
  BY <1>1, JustAnswerKeeps DEF Statuses
<1>2. CASE /\ Replace(a, NoModule)
           /\ Answer(c, "ok", EventsTo((topoSubscribes \cup subscribes[a]) \ {c}, "deleted", a))
  <2>1. (topoSubscribes \cup subscribes[a]) \ {c} \in SUBSET Sockets
    BY InvParts DEF Parts, Subscribers
  <2>2. Spoken'
    BY <1>2, <2>1, EventsToType, AnswerType DEF Statuses
  <2> QED
    BY <1>2, <2>2, ReplaceKeeps DEF ModuleDelete, Serve, Good
<1> QED
  BY <1>1, <1>2 DEF ModuleDelete

\* module_set_config, on a module that exists or on the one it creates.
LEMMA ModuleSetConfigKeeps ==
  ASSUME Inv, NEW c \in Sockets, NEW a \in Addrs, NEW type \in TypeCodes \cup {Absent},
         NEW config \in SafeOutputs \cup {Absent}, NEW name,
         ModuleSetConfig(c, a, type, config, name), UNCHANGED <<daemon, clients>>
  PROVE  Inv'
<1> DEFINE m     == IF Registered(a) THEN modules[a] ELSE NewModule(type)
           asked == IF type = Absent THEN m.type ELSE type
           safe  == IF config = Absent THEN AllZero ELSE config
<1>1. CASE Denied(c) \/ JustAnswer(c, "error")
  BY <1>1, JustAnswerKeeps DEF Denied, Statuses
<1>2. CASE type # Invalid /\ (Registered(a) \/ type # Absent)
  <2>1. m \in Module /\ Settled(m) /\ m.fw \in clients \cup {NoSocket, NoRequest}
    BY <1>2, InvParts, NewModuleType, InputsAssumption DEF Parts, Registered, Good
  <2>2. Good(m, clients)
    BY <2>1 DEF Good
  <2>3. asked \in Types
    BY <1>2, <2>1, InputsAssumption DEF Module
  <2> HIDE DEF m
  <2>4. CASE Replace(a, m) /\ Answer(c, "error", {})
    <3>1. Spoken'
      BY <2>4, AnswerType DEF Statuses
    <3> QED
      BY <2>2, <2>4, <3>1, ReplaceKeeps DEF ModuleSetConfig, Serve
  <2>5. CASE Replace(a, JsonSetType(m, asked)) /\ Answer(c, "error", {})
    <3>1. Good(JsonSetType(m, asked), clients)
      BY <2>1, <2>3, JsonSetTypeType DEF Good, OutputsAlone
    <3>2. Spoken'
      BY <2>5, AnswerType DEF Statuses
    <3> QED
      BY <2>5, <3>1, <3>2, ReplaceKeeps DEF ModuleSetConfig, Serve
  <2>6. CASE Replace(a, JsonSetConfig(m, asked, safe)) /\ Answer(c, "none", {}) /\ m.cls = "base"
    <3>1. JsonSetConfig(m, asked, safe) = [JsonSetType(m, asked) EXCEPT !.config = m.config]
      BY <2>6 DEF JsonSetConfig, JsonSetType
    <3>2. Good(JsonSetConfig(m, asked, safe), clients)
      BY <2>1, <2>3, <3>1 DEF Good, Module, Settled, JsonSetType
    <3>3. Spoken'
      BY <2>6, AnswerType DEF Statuses
    <3> QED
      BY <2>6, <3>2, <3>3, ReplaceKeeps DEF ModuleSetConfig, Serve
  <2>7. CASE /\ Replace(a, JsonSetConfig(m, asked, safe)) /\ Answer(c, "ok", ModuleInfo(a, c))
             /\ config # Invalid
    <3>1. safe \in Configs
      BY <2>7, AllZeroType, InputsAssumption
    <3>2. Good(JsonSetConfig(m, asked, safe), clients)
      BY <2>1, <2>3, <3>1, JsonSetConfigType DEF Good, OutputsAlone
    <3>3. Spoken'
      BY <2>7, ModuleInfoType, InvParts, AnswerType DEF Parts, Statuses
    <3> QED
      BY <2>7, <3>2, <3>3, ReplaceKeeps DEF ModuleSetConfig, Serve
  <2> QED
    BY <1>1, <1>2, <2>4, <2>5, <2>6, <2>7 DEF ModuleSetConfig, m
<1> QED
  BY <1>1, <1>2 DEF ModuleSetConfig

LEMMA ConfiguringKeeps ==
  ASSUME Inv, NEW c \in Sockets, Configuring(c), UNCHANGED <<daemon, clients>>
  PROVE  Inv'
BY SaveConfigFileKeeps, LoadConfigFileKeeps, ModuleDeleteKeeps, ModuleSetConfigKeeps DEF Configuring

\* module_set_outputs.
LEMMA ModuleSetOutputsKeeps ==
  ASSUME Inv, NEW c \in Sockets, NEW a \in Addrs, NEW req \in Requests \cup {Invalid},
         ModuleSetOutputs(c, a, req), UNCHANGED <<daemon, clients>>
  PROVE  Inv'
<1>1. CASE Refused(c, a) \/ JustAnswer(c, "error")
  BY <1>1, RefusedKeeps, JustAnswerKeeps DEF Statuses
<1>2. CASE /\ Accepted(c, a) /\ req # Invalid
           /\ modules' = [modules EXCEPT ![a] = JsonSetOutput(modules[a], c, req)]
           /\ lamps' = [lamps EXCEPT ![a] = Show(@, modules[a], Changed(modules[a], req), req)]
           /\ IF Changed(modules[a], req) = {} THEN Answer(c, "ok", {})
              ELSE Answer(c, "none", OutputsSetEvents(a, modules[a], subscribes[a], topoSubscribes))
           /\ UNCHANGED <<subs, access, files>>
  <2> DEFINE n == JsonSetOutput(modules[a], c, req)
  <2>1. req \in [Ports -> Values \cup {Keep}]
    BY <1>2, InputsAssumption
  <2>2. modules[a] \in Module /\ Good(modules[a], clients)
    BY <1>2, InvParts DEF Parts, Accepted, Registered
  <2>3. n \in Module /\ Good(n, clients)
    BY <2>1, <2>2, JsonSetOutputType, NullsAssumption DEF Good
  <2> HIDE DEF n
  <2>4. modules' = [modules EXCEPT ![a] = n]
    BY <1>2 DEF n
  <2>5. /\ modules' \in [Addrs -> Module \cup {NoModule}]
        /\ \A b \in Addrs : Good(modules'[b], clients')
    BY <2>3, <2>4, InvParts DEF Parts
  <2>6. lamps' \in [Addrs -> SUBSET Ports]
    <3>1. Show(lamps[a], modules[a], Changed(modules[a], req), req) \subseteq Ports
      BY InvParts DEF Parts, Show, Changed
    <3> QED
      BY <1>2, <3>1, InvParts DEF Parts
  <2>7. subscribes[a] \in SUBSET Sockets /\ topoSubscribes \in SUBSET Sockets
    BY InvParts DEF Parts, Subscribers
  <2>8. Spoken'
    BY <1>2, <2>7, OutputsSetEventsType, AnswerType DEF Statuses
  <2>9. daemon = "running"
    BY DEF ModuleSetOutputs, Serve
  <2> QED
    BY <1>2, <2>5, <2>6, <2>8, <2>9, InvParts, InvPartsNext DEF Parts, subs, access, Quiet, Subscribers
<1> QED
  BY <1>1, <1>2 DEF ModuleSetOutputs

\* reset_my_outputs.
LEMMA ResetMyOutputsKeeps ==
  ASSUME Inv, NEW c \in Sockets, ResetMyOutputs(c), UNCHANGED <<daemon, clients>>
  PROVE  Inv'
<1>1. CASE Denied(c)
  BY <1>1, JustAnswerKeeps DEF Denied, Statuses
<1>2. CASE /\ modules' = ModulesAfterReset(c) /\ lamps' = LampsAfterReset(c)
           /\ Answer(c, IF ResetThrows(c) THEN "error" ELSE "ok",
                     ResetEvents(c, subscribes, topoSubscribes))
           /\ UNCHANGED <<subs, access, files>>
  <2>1. subscribes \in [Addrs -> SUBSET Sockets] /\ topoSubscribes \in SUBSET Sockets
    BY InvParts DEF Parts, Subscribers
  <2>2. Spoken'
    BY <1>2, <2>1, ResetEventsType, AnswerType DEF Statuses
  <2>3. daemon = "running"
    BY DEF ResetMyOutputs, Serve
  <2> QED
    BY <1>2, <2>2, <2>3, ResetKeeps, InvParts, InvPartsNext DEF Parts, subs, access, Quiet, Subscribers
<1> QED
  BY <1>1, <1>2 DEF ResetMyOutputs

\* module_reboot and module_upgrade_fw replace the object by a marked one.
LEMMA ModuleRebootKeeps ==
  ASSUME Inv, NEW c \in Sockets, NEW a \in Addrs, ModuleReboot(c, a), UNCHANGED <<daemon, clients>>
  PROVE  Inv'
<1>1. CASE Refused(c, a) \/ JustAnswer(c, "error")
  BY <1>1, RefusedKeeps, JustAnswerKeeps DEF Statuses
<1>2. CASE /\ Accepted(c, a) /\ Replace(a, Reboot(modules[a]))
           /\ Answer(c, "none", ModuleInfo(a, NoSocket))
  <2>1. modules[a] \in Module /\ Good(modules[a], clients)
    BY <1>2, InvParts DEF Parts, Accepted, Registered
  <2>2. Good(Reboot(modules[a]), clients)
    BY <2>1, RebootType, NullsAssumption DEF Good, OutputsAlone
  <2>3. Spoken'
    BY <1>2, ModuleInfoType, InvParts, AnswerType DEF Parts, Statuses
  <2> QED
    BY <1>2, <2>2, <2>3, ReplaceKeeps DEF ModuleReboot, Serve
<1> QED
  BY <1>1, <1>2 DEF ModuleReboot

LEMMA ModuleUpgradeFwKeeps ==
  ASSUME Inv, NEW c \in Sockets, NEW a \in Addrs, NEW firmware, ModuleUpgradeFw(c, a, firmware),
         UNCHANGED <<daemon, clients>>
  PROVE  Inv'
<1>1. CASE Refused(c, a) \/ JustAnswer(c, "error")
  BY <1>1, RefusedKeeps, JustAnswerKeeps DEF Statuses
<1>2. CASE /\ Accepted(c, a) /\ Replace(a, [modules[a] EXCEPT !.fw = c])
           /\ \/ Answer(c, "error", {})
              \/ Answer(c, "none", ModuleInfo(a, c))
  <2>1. modules[a] \in Module /\ Good(modules[a], clients)
    BY <1>2, InvParts DEF Parts, Accepted, Registered
  <2>2. c \in clients /\ daemon = "running"
    BY DEF ModuleUpgradeFw, Serve
  <2>3. [modules[a] EXCEPT !.fw = c].fw = c
    BY <2>1 DEF Module
  <2>4. Good([modules[a] EXCEPT !.fw = c], clients)
    BY <2>1, <2>2, <2>3, UpgradeType, NullsAssumption DEF Good, OutputsAlone
  <2>5. Spoken'
    BY <1>2, ModuleInfoType, InvParts, AnswerType DEF Parts, Statuses
  <2> QED
    BY <1>2, <2>2, <2>4, <2>5, ReplaceKeeps
<1> QED
  BY <1>1, <1>2 DEF ModuleUpgradeFw, FwUpgdInit

LEMMA OperatingKeeps ==
  ASSUME Inv, NEW c \in Sockets, Operating(c), UNCHANGED <<daemon, clients>>
  PROVE  Inv'
BY ModuleSetOutputsKeeps, ResetMyOutputsKeeps, ModuleRebootKeeps, ModuleUpgradeFwKeeps DEF Operating

\* The requests that change nothing.
LEMMA AskingKeeps ==
  ASSUME Inv, NEW c \in Sockets, Asking(c), UNCHANGED <<daemon, clients>>
  PROVE  Inv'
<1>1. ASSUME NEW a \in Addrs, Refused(c, a) PROVE Inv'
  BY <1>1, RefusedKeeps
<1>2. ASSUME NEW status \in Statuses, JustAnswer(c, status) PROVE Inv'
  BY <1>2, JustAnswerKeeps
<1>3. ASSUME NEW a \in Addrs, NEW valid \in BOOLEAN,
             ModuleBeacon(c, a, valid) \/ ModuleSetAddress(c, a, valid)
      PROVE  Inv'
  BY <1>1, <1>2, <1>3 DEF ModuleBeacon, ModuleSetAddress, Statuses
<1>4. ASSUME NEW a \in Addrs, NEW value, ModuleQuery(c, a) \/ ModuleDiag(c, a, value)
      PROVE  Inv'
  BY <1>2, <1>4 DEF ModuleQuery, ModuleDiag, Statuses
<1>5. ASSUME NEW broadcast \in BOOLEAN, NEW valid \in BOOLEAN,
             SpecificCommand(c, broadcast, valid)
      PROVE  Inv'
  BY <1>2, <1>5 DEF SpecificCommand, Denied, Statuses
<1>6. ASSUME NEW body, MtbUsbQuery(c, body) PROVE Inv'
  BY <1>2, <1>6 DEF MtbUsbQuery, Statuses
<1>7. ASSUME NEW ping, \/ Version(c) \/ ModulesQuery(c)
                       \/ SetAddress(c) \/ Unserved(c, ping)
      PROVE  Inv'
  BY <1>2, <1>7 DEF Version, ModulesQuery, SetAddress, Unserved, Statuses
<1> QED
  BY <1>3, <1>4, <1>5, <1>6, <1>7 DEF Asking

LEMMA RequestKeeps ==
  ASSUME Inv, NEW c \in Sockets, Request(c)
  PROVE  Inv'
BY SubscribingKeeps, ConfiguringKeeps, OperatingKeeps, AskingKeeps DEF Request

\* A press or release of a panel button.
LEMMA SimOnInputChangedKeeps ==
  ASSUME Inv, NEW a \in Addrs, NEW pin \in Pins, NEW on \in BOOLEAN,
         SimOnInputChanged(a, pin, on), UNCHANGED <<daemon, clients>>
  PROVE  Inv'
<1>1. CASE Silent({}) /\ UNCHANGED <<registry, subs, access, files>>
  <2>1. Spoken'
    BY <1>1, SilentType
  <2> QED
    BY <1>1, <2>1, InvParts, InvPartsNext DEF Parts, registry, subs, access, Quiet, Subscribers
<1>2. CASE /\ Registered(a) /\ Replace(a, InputsChanged(modules[a], pin, on))
           /\ Silent(EventsTo(subscribes[a], "inputs", a))
  <2>1. modules[a] \in Module /\ Good(modules[a], clients)
    BY <1>2, InvParts DEF Parts, Registered
  <2>2. Good(InputsChanged(modules[a], pin, on), clients)
    BY <2>1, InputsChangedType, NullsAssumption DEF Good, OutputsAlone
  <2>3. subscribes[a] \in SUBSET Sockets
    BY InvParts DEF Parts, Subscribers
  <2>4. Spoken'
    BY <1>2, <2>3, EventsToType, SilentType
  <2> QED
    BY <1>2, <2>2, <2>4, ReplaceKeeps DEF SimOnInputChanged
<1> QED
  BY <1>1, <1>2 DEF SimOnInputChanged

-----------------------------------------------------------------------------
(* Theorems *)

\* Every handler, and every end and start of the process, keeps Inv.
LEMMA NextKeeps == Inv /\ [Next]_vars => Inv'
<1> SUFFICES ASSUME Inv, [Next]_vars PROVE Inv'
  OBVIOUS
<1>1. CASE Next
  BY <1>1, StopKeeps, FirstStartKeeps, StartLoadedKeeps, StartRefusedKeeps,
     StartWithoutServerKeeps, ConnectKeeps,
     DisconnectKeeps, DisconnectTerminatesKeeps, StopWhileSavingKeeps,
     SpecificCommandEndsKeeps, RequestKeeps, SimOnInputChangedKeeps DEF Next
<1>2. CASE UNCHANGED vars
  BY <1>2, InvParts, InvPartsNext
     DEF vars, registry, subs, access, Parts, Quiet, Subscribers, Spoken
<1> QED
  BY <1>1, <1>2

THEOREM Invariance == Spec => []Inv
<1> QED
  BY InitInv, NextKeeps, PTL DEF Spec

\* The daemon's state has its type in every reachable state.
THEOREM TypeCorrect == Spec => []TypeOK
<1>1. Inv => TypeOK
  BY DEF Inv
<1> QED
  BY <1>1, Invariance, PTL

\* Between two handlers no output is pending: jsonSetOutput's "send" is always
\* true, and resetOutputsOfClient always sends.
THEOREM NothingPending == Spec => []OutputsSettled
<1>1. Inv => OutputsSettled
  BY DEF Inv
<1> QED
  BY <1>1, Invariance, PTL

\* No pointer to the socket of a departed client is kept as a subscriber or as
\* the requester of a firmware upgrade.
THEOREM NoDanglingSocket == Spec => []SocketsConnected
<1>1. Inv => SocketsConnected
  BY DEF Inv
<1> QED
  BY <1>1, Invariance, PTL
=============================================================================
