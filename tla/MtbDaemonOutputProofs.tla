------------------------ MODULE MtbDaemonOutputProofs ------------------------
(***************************************************************************)
(* Proofs about who owns the outputs, what they are when nobody does, and   *)
(* the panel's lamps.  An exception that leaves a handler half done breaks  *)
(* each of these, so each theorem names what must not have happened.        *)
(***************************************************************************)
EXTENDS MtbDaemonStepProofs, MtbDaemonLeases

-----------------------------------------------------------------------------
(* What handlers do to one module, exactly *)

\* clientResetOutputs puts PortsReset to rest and frees them.  Of a MTB-UNIS
\* without configuration it clears an output at most; of another module nothing.
LEMMA ResetExact ==
  ASSUME Inv, NEW c \in Sockets, NEW a \in Addrs, Registered(a)
  PROVE  /\ modules[a].cls = "unis" /\ Configured(modules[a]) => \A p \in Ports :
              /\ ModuleAfterReset(a, c).want[p] =
                   IF p \in PortsReset(a, c) THEN modules[a].config[p] ELSE modules[a].want[p]
              /\ ModuleAfterReset(a, c).who[p] =
                   IF p \in PortsReset(a, c) THEN NoSocket ELSE modules[a].who[p]
         /\ modules[a].cls # "unis" \/ ~Configured(modules[a]) =>
              /\ PortsReset(a, c) = {} /\ ModuleAfterReset(a, c).who = modules[a].who
         /\ modules[a].cls # "unis" => ModuleAfterReset(a, c) = modules[a]
         /\ LackingAt(a) => \A p \in Ports :
              ModuleAfterReset(a, c).want[p] \in {0, modules[a].want[p]}
<1> DEFINE m == modules[a]
           n == ModuleAfterReset(a, c)
<1>1. m \in Module
  BY InvParts DEF Parts, Registered
<1>2. m.cls # "unis" \/ ~Configured(m) => PortsReset(a, c) = {}
  BY DEF PortsReset
<1>3. CASE SeveralSetters
  <2>1. n = ResetOutputsOfClient(m, c)
    BY <1>3 DEF ModuleAfterReset
  <2>2. m.cls = "unis" /\ Configured(m) => PortsReset(a, c) = Owned(m, c)
    BY <1>3 DEF PortsReset
  <2> HIDE DEF n, m
  <2>3. m.cls = "unis" /\ Configured(m) => \A p \in Ports :
          /\ n.want[p] = IF p \in PortsReset(a, c) THEN m.config[p] ELSE m.want[p]
          /\ n.who[p] = IF p \in PortsReset(a, c) THEN NoSocket ELSE m.who[p]
    BY <1>1, <2>1, <2>2, ResetOutputsOfClientType DEF Owned
  <2>4. m.cls # "unis" \/ ~Configured(m) => n = m
    BY <1>1, <2>1, ResetOutputsOfClientType
  <2> QED
    BY <1>2, <2>3, <2>4 DEF n, m, LackingAt, Lacking
<1>4. CASE ~SeveralSetters /\ (~SoleSetter(c) \/ ~Reached(a))
  <2>1. n = m /\ PortsReset(a, c) = {}
    BY <1>4 DEF ModuleAfterReset, PortsReset
  <2> QED
    BY <2>1
<1>5. CASE ~SeveralSetters /\ SoleSetter(c) /\ Reached(a) /\ LackingAt(a)
  <2>1. n = AllOutputsResetThrows(m) /\ ~Configured(m) /\ m.cls = "unis"
    BY <1>5 DEF ModuleAfterReset, LackingAt, Lacking
  <2> QED
    BY <1>1, <1>2, <2>1, AllOutputsResetThrowsType
<1>6. CASE ~SeveralSetters /\ SoleSetter(c) /\ Reached(a) /\ ~LackingAt(a)
  <2>1. n = AllOutputsReset(m) /\ ~Lacking(m)
    BY <1>6 DEF ModuleAfterReset, LackingAt
  <2>2. m.cls = "unis" => PortsReset(a, c) = Ports
    BY <1>6, <2>1 DEF PortsReset, Lacking
  <2> QED
    BY <1>1, <1>2, <1>6, <2>1, <2>2, AllOutputsResetType DEF Lacking
<1> QED
  BY <1>3, <1>4, <1>5, <1>6

\* What is reset is the client's or nobody's, and all of the client's is reset
\* if its module is configured and nothing throws.
LEMMA PortsResetOwn ==
  ASSUME Inv, NEW c \in Sockets, NEW a \in RegisteredUnis, NEW p \in Ports
  PROVE  /\ p \in PortsReset(a, c) => modules[a].who[p] \in {c, NoSocket}
         /\ Configured(modules[a]) /\ modules[a].who[p] = c /\ ~ResetThrows(c) =>
              p \in PortsReset(a, c)
<1>1. a \in Addrs /\ Registered(a) /\ modules[a].cls = "unis"
      /\ modules[a].who[p] \in Sockets \cup {NoSocket}
  BY InvParts DEF Parts, RegisteredUnis, Registered, Module
<1>2. CASE SeveralSetters
  BY <1>1, <1>2 DEF PortsReset, Owned
<1>3. CASE ~SeveralSetters
  <2>1. ASSUME p \in PortsReset(a, c) PROVE modules[a].who[p] \in {c, NoSocket}
    <3>1. SoleSetter(c)
      BY <1>3, <2>1 DEF PortsReset
    <3> QED
      BY <1>1, <3>1, OwnerIsSetter DEF SoleSetter
  <2>2. ASSUME Configured(modules[a]), modules[a].who[p] = c, ~ResetThrows(c)
        PROVE  p \in PortsReset(a, c)
    <3>1. SoleSetter(c)
      BY <1>3, <2>2, OwnerIsSetter DEF SeveralSetters, SoleSetter
    <3>2. Reached(a)
      BY <2>2, <3>1 DEF ResetThrows, BroadcastThrows, Reached
    <3> QED
      BY <1>1, <1>3, <2>2, <3>1, <3>2 DEF PortsReset
  <2> QED
    BY <2>1, <2>2
<1> QED
  BY <1>2, <1>3

\* loadConfig keeps the outputs of a module, and makes one whose outputs are off
\* and free; the panel is told only of one it could configure.  When nothing
\* fails, every MTB-UNIS it loads has a configuration afterwards.
LEMMA LoadExact ==
  ASSUME Inv, NEW f \in Entries, NEW a \in Addrs, ModuleAfterLoad(f, a) # NoModule
  PROVE  /\ ModuleAfterLoad(f, a) \in Module
         /\ Registered(a) =>
              /\ ModuleAfterLoad(f, a).want = modules[a].want /\ ModuleAfterLoad(f, a).who = modules[a].who
              /\ ModuleAfterLoad(f, a).cls = modules[a].cls /\ ModuleAfterLoad(f, a).linked = modules[a].linked
              /\ Configured(modules[a]) => Configured(ModuleAfterLoad(f, a))
         /\ ~Registered(a) =>
              /\ ModuleAfterLoad(f, a).want = AllZero
              /\ \A p \in Ports : ModuleAfterLoad(f, a).who[p] = NoSocket
              /\ ModuleAfterLoad(f, a).linked => ~Lacking(ModuleAfterLoad(f, a))
         /\ ~LoadFails(f) /\ Lacking(ModuleAfterLoad(f, a)) => ModuleAfterLoad(f, a) = modules[a]
<1> DEFINE t == Target(f, a)
           e == f[a]
           n == ModuleAfterLoad(f, a)
<1>1. Registered(a) => modules[a] \in Module
  BY InvParts DEF Parts, Registered
<1>2. CASE ~Applies(f, a) \/ \E b \in Addrs : b < a /\ Fails(f, b)
  BY <1>1, <1>2 DEF ModuleAfterLoad, Registered
<1>3. CASE Applies(f, a) /\ ~\E b \in Addrs : b < a /\ Fails(f, b)
  <2>1. e \in Entry
    BY <1>3 DEF Applies, Entries
  <2>2. /\ t \in Module
        /\ Registered(a) => t = modules[a]
        /\ ~Registered(a) => /\ t.want = AllZero /\ ~t.linked /\ t.config = NoConfig
                             /\ \A p \in Ports : t.who[p] = NoSocket
    <3>1. CASE Registered(a)
      BY <1>1, <3>1 DEF Target
    <3>2. CASE ~Registered(a)
      BY <2>1, <3>2, NewModuleType DEF Target, NewModule, Entry
    <3> QED
      BY <3>1, <3>2
  <2>3. /\ \/ n = LoadConfig(t, e)
           \/ ~Registered(a) /\ ~Fails(f, a) /\ n = [LoadConfig(t, e) EXCEPT !.linked = TRUE]
        /\ ~Registered(a) /\ Fails(f, a) => n = LoadConfig(t, e)
    BY <1>3 DEF ModuleAfterLoad
  <2>4. Fails(f, a) <=> t.cls = "unis" /\ ~Parsable(e.config)
    BY <1>3 DEF Fails, LoadThrows
  <2>5. e.config # NoConfig \/ ~Parsable(e.config)
    BY DEF Parsable
  <2> HIDE DEF t, e, n
  <2> DEFINE l == LoadConfig(t, e)
  <2>6. /\ l \in Module /\ l.want = t.want /\ l.who = t.who /\ l.cls = t.cls /\ l.linked = t.linked
        /\ l.config = IF t.cls = "unis" /\ Parsable(e.config) THEN e.config ELSE t.config
    BY <2>1, <2>2, LoadConfigType DEF OutputsAlone
  <2> HIDE DEF l
  <2>7. /\ n \in Module /\ n.want = t.want /\ n.who = t.who /\ n.cls = t.cls /\ n.config = l.config
        /\ Registered(a) => n.linked = t.linked
        /\ n.linked => t.linked \/ ~Fails(f, a)
    BY <2>3, <2>6 DEF l, Module
  <2>8. ~LoadFails(f) => ~Fails(f, a)
    BY DEF LoadFails
  <2>9. ~Fails(f, a) => ~Lacking(n)
    BY <2>4, <2>5, <2>6, <2>7 DEF Lacking, Configured
  <2> QED
    BY <2>2, <2>5, <2>6, <2>7, <2>8, <2>9 DEF Configured, n
<1> QED
  BY <1>2, <1>3

\* When the process starts or ends, nothing is there afterwards but what a
\* load that did not fail made.
LEMMA TurnedChanges ==
  ASSUME Inv, Next, NEW a \in Addrs, TurnedOnOrOff
  PROVE  /\ lamps'[a] = {}
         /\ \/ modules'[a] = NoModule
            \/ /\ ~Registered(a)
               /\ \E f \in Entries : ~LoadFails(f) /\ modules'[a] = ModuleAfterLoad(f, a)
<1>1. CASE daemon' # "running"
  BY <1>1, NextKeeps DEF Inv, Quiet
<1>2. CASE daemon # "running"
  <2>1. modules[a] = NoModule /\ lamps[a] = {}
    BY <1>2 DEF Inv, Quiet
  <2>2. ~\E c \in Sockets : \/ Connect(c) \/ Disconnect(c) \/ DisconnectTerminates(c)
                           \/ StopWhileSaving(c) \/ SpecificCommandEnds(c)
    BY <1>2 DEF Connect, Disconnect, DisconnectTerminates, StopWhileSaving, SpecificCommandEnds, Serve
  <2>3. ~Stop /\ ~\E b \in Addrs, pin \in Pins, on \in BOOLEAN : SimOnInputChanged(b, pin, on)
    BY <1>2 DEF Stop, SimOnInputChanged
  <2>4. ASSUME NEW c \in Sockets, Request(c) PROVE FALSE
    BY <1>2, <2>4, RequestRuns
  <2>5. CASE FirstStart \/ StartRefused \/ StartWithoutServer
    BY <2>1, <2>5 DEF FirstStart, StartRefused, StartWithoutServer, registry
  <2>6. CASE StartLoaded
    BY <2>1, <2>6, ReadableType DEF StartLoaded, Loads, Registered
  <2> QED
    BY <2>2, <2>3, <2>4, <2>5, <2>6 DEF Next
<1> QED
  BY <1>1, <1>2 DEF TurnedOnOrOff

\* A module module_set_config makes is inactive, not on the panel, and its
\* outputs are off and free.
LEMMA MadeType ==
  ASSUME NEW a \in Addrs, NEW c \in Sockets, NEW type \in Types, MadeBy(a, c, type)
  PROVE  /\ modules'[a] \in Module /\ modules'[a].want = AllZero
         /\ \A p \in Ports : modules'[a].who[p] = NoSocket
         /\ ~modules'[a].active /\ ~modules'[a].linked
<1> DEFINE n == NewModule(type)
<1>1. /\ n \in Module /\ n.want = AllZero /\ ~n.active /\ ~n.linked
      /\ \A p \in Ports : n.who[p] = NoSocket
  BY NewModuleType DEF NewModule
<1>2. \/ modules'[a] \in {n, JsonSetType(n, type)}
      \/ \E config \in Configs : modules'[a] = JsonSetConfig(n, type, config)
  BY DEF MadeBy
<1> HIDE DEF n
<1> QED
  BY <1>1, <1>2, JsonSetTypeType, JsonSetConfigType DEF OutputsAlone
-----------------------------------------------------------------------------
(* What must not have happened *)

\* load_config fails: a MTB-UNIS without configuration is left active.
SucceedingStep ==
  \A c \in writeAccess : LoadConfigFile(c) =>
    \A name \in Names : LoadNamed(c, name) => ~LoadFails(files[name].modules)
LoadsSucceed == [][SucceedingStep]_vars

\* reset_my_outputs throws: what was reset stays reset, the rest stays owned.
CompleteStep == \A c \in writeAccess : ResetMyOutputs(c) => ~ResetThrows(c)
ResetsComplete == [][CompleteStep]_vars

\* A configured module is configured anew: its outputs stay as they are.
KeptStep ==
  \A a \in RegisteredUnis :
    Survives(a) /\ Configured(modules[a]) => modules'[a].config = modules[a].config
ConfigurationsStay == [][KeptStep]_vars

\* A module is deleted while its lamps are lit: they stay lit.
DarkStep ==
  \A a \in Addrs : Registered(a) /\ modules'[a] = NoModule /\ daemon' = "running" => lamps[a] = {}
DeletedDark == [][DarkStep]_vars

-----------------------------------------------------------------------------
(* Owners *)

\* An owner of an output is connected, and only configured modules have owners.
\* Whoever is to own an output needs an active module, so that one is configured.
Sound(m, S) ==
  /\ \A p \in Ports : m.who[p] \in S \cup {NoSocket}
  /\ m.cls # "unis" \/ ~Configured(m) => \A p \in Ports : m.who[p] = NoSocket
  /\ Lacking(m) => ~m.active
OwnersSound == \A a \in Addrs : Registered(a) => Sound(modules[a], clients)

\* An operation that leaves alone what Sound is about.
LEMMA SoundKept ==
  ASSUME NEW m, NEW n, NEW S, NEW T, S \subseteq T, Sound(m, S),
         n.who = m.who, n.cls = m.cls, n.active => m.active, Configured(m) => Configured(n)
  PROVE  Sound(n, T)
BY DEF Sound, Lacking

\* A load that does not fail keeps what OwnersSound says of an address.
LEMMA SoundLoaded ==
  ASSUME Inv, OwnersSound, NEW f \in Entries, ~LoadFails(f), NEW a \in Addrs,
         ModuleAfterLoad(f, a) # NoModule, NEW S, Registered(a) => clients \subseteq S
  PROVE  Sound(ModuleAfterLoad(f, a), S)
<1> DEFINE n == ModuleAfterLoad(f, a)
<1>1. CASE Lacking(n)
  <2>1. n = modules[a] /\ Registered(a)
    BY <1>1, LoadExact DEF Registered
  <2> QED
    BY <2>1, SoundKept DEF OwnersSound
<1>2. CASE ~Lacking(n)
  <2>1. CASE Registered(a)
    BY <1>2, <2>1, LoadExact DEF OwnersSound, Sound, Lacking
  <2>2. CASE ~Registered(a)
    BY <1>2, <2>2, LoadExact DEF Sound
  <2> QED
    BY <2>1, <2>2
<1> QED
  BY <1>1, <1>2

\* clientResetOutputs keeps what OwnersSound says, and if it does not throw the
\* client owns nothing afterwards.
LEMMA SoundReset ==
  ASSUME Inv, OwnersSound, NEW c \in Sockets, NEW a \in Addrs, Registered(a)
  PROVE  /\ Sound(ModuleAfterReset(a, c), clients)
         /\ ~ResetThrows(c) => \A p \in Ports : ModuleAfterReset(a, c).who[p] # c
<1> DEFINE m == modules[a]
           n == ModuleAfterReset(a, c)
<1>1. Sound(m, clients) /\ SettingsAlone(m, n)
  BY ResetType DEF OwnersSound
<1>2. CASE m.cls # "unis" \/ ~Configured(m)
  <2>1. n.who = m.who
    BY <1>2, ResetExact
  <2>2. Sound(n, clients)
    BY <1>1, <2>1, SoundKept DEF SettingsAlone, Configured
  <2> QED
    BY <1>1, <1>2, <2>1, <2>2, SocketsAssumption DEF Sound
<1>3. CASE m.cls = "unis" /\ Configured(m)
  <2>1. a \in RegisteredUnis
    BY <1>3 DEF RegisteredUnis
  <2>2. \A p \in Ports : n.who[p] = IF p \in PortsReset(a, c) THEN NoSocket ELSE m.who[p]
    BY <1>3, ResetExact
  <2>3. Sound(n, clients)
    BY <1>1, <1>3, <2>2 DEF Sound, SettingsAlone, Configured, Lacking
  <2>4. ASSUME ~ResetThrows(c), NEW p \in Ports PROVE n.who[p] # c
    BY <1>3, <2>1, <2>2, <2>4, PortsResetOwn, SocketsAssumption
  <2> QED
    BY <2>3, <2>4
<1> QED
  BY <1>2, <1>3

\* Connections made and lost by a step that leaves the process running.
LEMMA RunningClients ==
  ASSUME Inv, Next, daemon = "running", daemon' = "running"
  PROVE  clients \subseteq clients' \/ \E c \in Sockets : Disconnect(c)
<1>1. ~(FirstStart \/ StartLoaded \/ StartRefused \/ StartWithoutServer \/ Stop)
  BY DEF FirstStart, StartLoaded, StartRefused, StartWithoutServer, Stop
<1>2. ~\E c \in Sockets : DisconnectTerminates(c) \/ StopWhileSaving(c) \/ SpecificCommandEnds(c)
  BY DEF DisconnectTerminates, StopWhileSaving, SpecificCommandEnds
<1>3. (\E c \in Sockets : Connect(c) \/ Request(c)) => clients \subseteq clients'
  BY DEF Connect, Request
<1> QED
  BY <1>1, <1>2, <1>3 DEF Next

\* A step that neither starts nor ends the process.
LEMMA TurnedRunning ==
  ASSUME Inv, Next, ~TurnedOnOrOff
  PROVE  daemon = "running" /\ daemon' = "running"
<1>1. ASSUME NEW c \in Sockets, Request(c) PROVE daemon = "running" /\ daemon' = "running"
  BY <1>1, RequestRuns
<1> QED
  BY <1>1 DEF Next, Stop, FirstStart, StartLoaded, StartRefused, StartWithoutServer, Connect, Disconnect,
     DisconnectTerminates, StopWhileSaving, SpecificCommandEnds, Serve, Offline, Silent, Answer,
     SimOnInputChanged, TurnedOnOrOff

\* A departure changes every module there is as its own does.
LEMMA DisconnectLeaves ==
  ASSUME NEW c \in Sockets, Disconnect(c), NEW a \in Addrs, modules'[a] # NoModule
  PROVE  LeftBy(a, c)
BY DEF Disconnect, LeftBy, ModulesAfterReset

LEMMA SoundStep ==
  ASSUME Inv, OwnersSound, Next, SucceedingStep
  PROVE  OwnersSound'
<1> SUFFICES ASSUME NEW a \in Addrs, modules'[a] # NoModule PROVE Sound(modules'[a], clients')
  BY DEF OwnersSound, Registered
<1> DEFINE m == modules[a]
           n == modules'[a]
<1>1. Registered(a) => m \in Module /\ Sound(m, clients)
  BY InvParts DEF Parts, Registered, OwnersSound
<1>2. CASE TurnedOnOrOff
  BY <1>2, TurnedChanges, SoundLoaded
<1>3. ASSUME NEW c \in Sockets, Disconnect(c) PROVE Sound(n, clients')
  <2>1. /\ Registered(a) /\ n = ClientDisconnected(ModuleAfterReset(a, c), c)
        /\ clients' = clients \ {c} /\ ~ResetThrows(c)
    BY <1>3, DisconnectLeaves DEF LeftBy, Disconnect
  <2>2. SettingsAlone(m, n) /\ n.who = ModuleAfterReset(a, c).who
    BY <1>3, DisconnectLeaves, LeftType
  <2>3. SettingsAlone(m, ModuleAfterReset(a, c))
    BY <2>1, ResetType
  <2>4. Sound(ModuleAfterReset(a, c), clients) /\ \A p \in Ports : n.who[p] # c
    BY <2>1, <2>2, SoundReset
  <2> QED
    BY <2>1, <2>2, <2>3, <2>4 DEF Sound, SettingsAlone, Lacking, Configured
<1>4. ASSUME ~TurnedOnOrOff, ~\E c \in Sockets : Disconnect(c) PROVE Sound(n, clients')
  <2>1. clients \subseteq clients'
    <3>1. daemon = "running" /\ daemon' = "running"
      BY <1>4, TurnedRunning
    <3> QED
      BY <1>4, <3>1, RunningClients
  <2>2. ASSUME Registered(a), n.who = m.who, n.cls = m.cls, n.active => m.active,
               Configured(m) => Configured(n)
        PROVE  Sound(n, clients')
    BY <1>1, <2>1, <2>2, SoundKept
  <2>3. CASE Idle(a)
    BY <2>2, <2>3 DEF Idle, Registered
  <2>4. CASE PressedAt(a)
    BY <1>1, <2>2, <2>4, InputsChangedType DEF PressedAt, OutputsAlone, SettingsAlone, Configured
  <2>5. ASSUME NEW c \in Sockets, LeftBy(a, c) PROVE FALSE
    BY <1>4, <2>5 DEF LeftBy
  <2>6. ASSUME NEW c \in Sockets, ResetFor(a, c) PROVE Sound(n, clients')
    <3>1. Registered(a) /\ Sound(n, clients)
      BY <2>6, SoundReset DEF ResetFor
    <3> QED
      BY <2>1, <3>1, SoundKept
  <2>7. ASSUME NEW c \in Sockets, LoadedBy(a, c) PROVE Sound(n, clients')
    <3>1. PICK f \in Entries : ~LoadFails(f) /\ n = ModuleAfterLoad(f, a)
      BY <2>7, ReadableType DEF LoadedBy, Asked, SucceedingStep, LoadNamed
    <3> QED
      BY <2>1, <3>1, SoundLoaded
  <2>8. ASSUME NEW c \in Sockets, DeletedBy(a, c) PROVE FALSE
    BY <2>8 DEF DeletedBy
  <2>9. ASSUME NEW c \in Sockets, RebootedBy(a, c) PROVE Sound(n, clients')
    <3>1. Registered(a) /\ n = Reboot(m)
      BY <2>9 DEF RebootedBy
    <3>2. ~n.active
      BY <1>1, <3>1 DEF Reboot, Module
    <3> QED
      BY <1>1, <2>2, <3>1, <3>2, RebootType DEF OutputsAlone, Configured
  <2>10. ASSUME NEW c \in Sockets, UpgradedBy(a, c) PROVE Sound(n, clients')
    BY <1>1, <2>2, <2>10, UpgradeType DEF UpgradedBy, OutputsAlone, SettingsAlone, Configured
  <2>11. ASSUME NEW c \in Sockets, NEW type \in Types, NEW config \in Configs,
                ConfiguredBy(a, c, type, config)
         PROVE  Sound(n, clients')
    <3>1. Registered(a) /\ n = JsonSetConfig(m, type, config)
      BY <2>11 DEF ConfiguredBy
    <3>2. Configured(m) => Configured(n)
      BY <1>1, <3>1, JsonSetConfigType, NoConfigAssumption DEF Configured
    <3> QED
      BY <1>1, <2>2, <3>1, <3>2, JsonSetConfigType DEF OutputsAlone
  <2>12. ASSUME NEW c \in Sockets, NEW type \in Types, MadeBy(a, c, type)
         PROVE  Sound(n, clients')
    BY <2>12, MadeType DEF Sound
  <2>14. ASSUME NEW c \in Sockets, NEW type \in Types, RetypedBy(a, c, type)
         PROVE  Sound(n, clients')
    BY <1>1, <2>2, <2>14, JsonSetTypeType DEF RetypedBy, OutputsAlone, Configured
  <2>13. ASSUME NEW c \in Sockets, NEW req \in [Ports -> Values \cup {Keep}], SetBy(a, c, req)
         PROVE  Sound(n, clients')
    <3>1. /\ Registered(a) /\ c \in clients /\ m.cls = "unis" /\ m.active
          /\ n = JsonSetOutput(m, c, req)
      BY <2>13 DEF SetBy, Asked, OutputsSettable
    <3>2. Configured(m)
      BY <1>1, <3>1 DEF Sound, Lacking
    <3>3. SettingsAlone(m, n) /\ \A p \in Ports : n.who[p] \in {m.who[p], c}
      BY <1>1, <3>1, JsonSetOutputType
    <3> QED
      BY <1>1, <2>1, <3>1, <3>2, <3>3 DEF Sound, SettingsAlone, Lacking, Configured
  <2> QED
    BY <1>4, <2>3, <2>4, <2>5, <2>6, <2>7, <2>8, <2>9, <2>10, <2>11, <2>12, <2>13, <2>14, NextChanges
       DEF RequestedOf
<1> QED
  BY <1>2, <1>3, <1>4

LEMMA SoundStays == Spec /\ LoadsSucceed => []OwnersSound
<1>1. Init => OwnersSound
  BY DEF Init, OwnersSound, Registered
<1>2. OwnersSound /\ UNCHANGED vars => OwnersSound'
  BY DEF OwnersSound, Registered, vars, registry
<1>3. Inv /\ OwnersSound /\ [Next]_vars /\ [SucceedingStep]_vars => OwnersSound'
  BY <1>2, SoundStep
<1> QED
  BY <1>1, <1>3, Invariance, PTL DEF Spec, LoadsSucceed

\* As long as no load_config failed half way, no owner of an output is a client
\* that left, by whichever of the two ways its outputs were reset.
THEOREM OwnersStayConnected == Spec /\ LoadsSucceed => []OwnersConnected
<1>1. OwnersSound => OwnersConnected
  BY DEF OwnersSound, OwnersConnected, Owner, Sound
<1> QED
  BY <1>1, SoundStays, PTL
-----------------------------------------------------------------------------
(* What unowned outputs are *)

\* Whatever nobody owns is off, as it was at first, or at its safe value.
AtRest(m) ==
  \A p \in Ports : m.who[p] = NoSocket =>
    m.want[p] = 0 \/ (Configured(m) /\ m.want[p] = m.config[p])
OutputsAtRest == \A a \in RegisteredUnis : AtRest(modules[a])

\* An operation that touches no output keeps a module at rest unless it
\* replaces one configuration by another.
LEMMA RestKept ==
  ASSUME NEW m, NEW n, AtRest(m), n.want = m.want, n.who = m.who,
         Configured(m) => n.config = m.config
  PROVE  AtRest(n)
BY DEF AtRest, Configured

LEMMA RestOff ==
  ASSUME NEW n, n.want = AllZero
  PROVE  AtRest(n)
BY DEF AtRest, AllZero

\* clientResetOutputs brings what it frees to rest.
LEMMA RestReset ==
  ASSUME Inv, OutputsAtRest, NEW c \in Sockets, NEW a \in RegisteredUnis
  PROVE  AtRest(ModuleAfterReset(a, c))
<1> DEFINE m == modules[a]
           n == ModuleAfterReset(a, c)
<1>1. /\ a \in Addrs /\ Registered(a) /\ m.cls = "unis" /\ AtRest(m) /\ SettingsAlone(m, n)
  BY ResetType DEF RegisteredUnis, OutputsAtRest
<1>2. CASE Configured(m)
  <2>1. \A p \in Ports :
          /\ n.want[p] = IF p \in PortsReset(a, c) THEN m.config[p] ELSE m.want[p]
          /\ n.who[p] = IF p \in PortsReset(a, c) THEN NoSocket ELSE m.who[p]
    BY <1>1, <1>2, ResetExact
  <2> QED
    BY <1>1, <1>2, <2>1 DEF AtRest, SettingsAlone, Configured
<1>3. CASE ~Configured(m)
  <2>1. n.who = m.who /\ \A p \in Ports : n.want[p] \in {0, m.want[p]}
    BY <1>1, <1>3, ResetExact DEF LackingAt, Lacking
  <2> QED
    BY <1>1, <1>3, <2>1 DEF AtRest
<1> QED
  BY <1>2, <1>3

LEMMA RestStep ==
  ASSUME Inv, OutputsAtRest, Next, KeptStep
  PROVE  OutputsAtRest'
<1> SUFFICES ASSUME NEW a \in Addrs, modules'[a] # NoModule, modules'[a].cls = "unis"
             PROVE  AtRest(modules'[a])
  BY DEF OutputsAtRest, RegisteredUnis, Registered
<1> DEFINE m == modules[a]
           n == modules'[a]
<1>1. Registered(a) /\ m.cls = "unis" => m \in Module /\ a \in RegisteredUnis /\ AtRest(m)
  BY InvParts DEF Parts, Registered, RegisteredUnis, OutputsAtRest
<1>2. CASE TurnedOnOrOff
  BY <1>2, TurnedChanges, LoadExact, RestOff
<1>3. ASSUME Registered(a), m.cls = "unis", n.want = m.want, n.who = m.who PROVE AtRest(n)
  <2>1. Configured(m) => n.config = m.config
    BY <1>1, <1>3 DEF KeptStep, Survives
  <2> QED
    BY <1>1, <1>3, <2>1, RestKept
<1>4. CASE Idle(a)
  BY <1>3, <1>4 DEF Idle, Registered
<1>5. CASE PressedAt(a)
  <2>1. Registered(a) /\ m \in Module
    BY <1>5, InvParts DEF PressedAt, Parts, Registered
  <2> QED
    BY <1>3, <1>5, <2>1, InputsChangedType DEF PressedAt, OutputsAlone
<1>6. ASSUME NEW c \in Sockets, LeftBy(a, c) \/ ResetFor(a, c) PROVE AtRest(n)
  <2>1. /\ Registered(a) /\ n.want = ModuleAfterReset(a, c).want /\ n.who = ModuleAfterReset(a, c).who
        /\ SettingsAlone(m, n) /\ SettingsAlone(m, ModuleAfterReset(a, c))
    BY <1>6, LeftType, ResetType DEF LeftBy, ResetFor
  <2>2. m.cls = "unis"
    BY <2>1 DEF SettingsAlone
  <2>3. AtRest(ModuleAfterReset(a, c))
    BY <1>1, <2>1, <2>2, RestReset
  <2> QED
    BY <2>1, <2>3, RestKept DEF SettingsAlone
<1>7. ASSUME NEW c \in Sockets, LoadedBy(a, c) PROVE AtRest(n)
  <2>1. PICK f \in Entries : n = ModuleAfterLoad(f, a)
    BY <1>7, LoadedEntries
  <2>2. CASE Registered(a)
    BY <1>3, <2>1, <2>2, LoadExact
  <2>3. CASE ~Registered(a)
    BY <2>1, <2>3, LoadExact, RestOff
  <2> QED
    BY <2>2, <2>3
<1>8. ASSUME NEW c \in Sockets, DeletedBy(a, c) PROVE FALSE
  BY <1>8 DEF DeletedBy
<1>9. ASSUME NEW c \in Sockets, NEW type \in Types, MadeBy(a, c, type) PROVE AtRest(n)
  BY <1>9, MadeType, RestOff
<1>10. ASSUME NEW c \in Sockets, NEW req \in [Ports -> Values \cup {Keep}], SetBy(a, c, req)
       PROVE  AtRest(n)
  <2>1. Registered(a) /\ m.cls = "unis" /\ n = JsonSetOutput(m, c, req)
    BY <1>10 DEF SetBy, OutputsSettable
  <2>2. \A p \in Ports : \/ n.who[p] = c
                         \/ n.who[p] = m.who[p] /\ n.want[p] = m.want[p]
    BY <1>1, <2>1, JsonSetOutputType
  <2>3. n.config = m.config
    BY <1>1, <2>1, JsonSetOutputType DEF SettingsAlone
  <2> QED
    BY <1>1, <2>1, <2>2, <2>3, SocketsAssumption DEF AtRest, Configured
<1>11. ASSUME NEW c \in Sockets, RebootedBy(a, c) \/ UpgradedBy(a, c) PROVE AtRest(n)
  <2>1. Registered(a) /\ m \in Module /\ (n = Reboot(m) \/ n = [m EXCEPT !.fw = c])
    BY <1>11, InvParts DEF RebootedBy, UpgradedBy, Parts, Registered
  <2>2. OutputsAlone(m, n)
    BY <2>1, RebootType, UpgradeType
  <2> QED
    BY <1>3, <2>1, <2>2 DEF OutputsAlone
<1>12. ASSUME NEW c \in Sockets, NEW type \in Types, NEW config \in Configs,
              ConfiguredBy(a, c, type, config)
       PROVE  AtRest(n)
  <2>1. Registered(a) /\ m \in Module /\ n = JsonSetConfig(m, type, config)
    BY <1>12, InvParts DEF ConfiguredBy, Parts, Registered
  <2>2. OutputsAlone(m, n)
    BY <2>1, JsonSetConfigType
  <2> QED
    BY <1>3, <2>1, <2>2 DEF OutputsAlone
<1>13. ASSUME NEW c \in Sockets, NEW type \in Types, RetypedBy(a, c, type) PROVE AtRest(n)
  <2>1. Registered(a) /\ OutputsAlone(m, n)
    BY <1>13, JsonSetTypeType, InvParts DEF RetypedBy, Parts, Registered
  <2> QED
    BY <1>3, <2>1 DEF OutputsAlone
<1> QED
  BY <1>2, <1>4, <1>5, <1>6, <1>7, <1>8, <1>9, <1>10, <1>11, <1>12, <1>13, NextChanges DEF RequestedOf

\* As long as no configured module is given another configuration, what nobody
\* owns is off or at its safe value, though resets may throw and loads fail.
THEOREM UnownedStayAtRest == Spec /\ ConfigurationsStay => []UnownedAtRest
<1>1. Init => OutputsAtRest
  BY DEF Init, OutputsAtRest, RegisteredUnis, Registered
<1>2. OutputsAtRest /\ UNCHANGED vars => OutputsAtRest'
  BY DEF OutputsAtRest, RegisteredUnis, Registered, vars, registry
<1>3. Inv /\ OutputsAtRest /\ [Next]_vars /\ [KeptStep]_vars => OutputsAtRest'
  BY <1>2, RestStep
<1>4. OutputsAtRest => UnownedAtRest
  BY DEF OutputsAtRest, UnownedAtRest, AtRest, Owner, RegisteredUnis
<1> QED
  BY <1>1, <1>3, <1>4, Invariance, PTL DEF Spec, ConfigurationsStay
-----------------------------------------------------------------------------
(* The panel's lamps *)

\* A MTB-UNIS the panel is connected to has a configuration and its lamps; no
\* lamp of another address is lit, so the next module there finds them off.
Lit(m) == {p \in Ports : m.want[p] # 0}
OnPanel(m) == m # NoModule /\ m.cls = "unis" /\ m.linked
Shown(m, lit) == IF OnPanel(m) THEN Configured(m) /\ lit = Lit(m) ELSE lit = {}
LampsShown == \A a \in Addrs : Shown(modules[a], lamps[a])

LEMMA ShownKept ==
  ASSUME NEW m, NEW n, NEW lit, Shown(m, lit), m # NoModule, n # NoModule, n.want = m.want,
         n.cls = m.cls, n.linked = m.linked, Configured(m) => Configured(n)
  PROVE  Shown(n, lit)
BY DEF Shown, OnPanel, Lit

\* A module that shows nothing yet, as all its outputs are off.
LEMMA ShownOff ==
  ASSUME NEW n, n.want = AllZero, n.linked => ~Lacking(n)
  PROVE  Shown(n, {})
BY DEF Shown, OnPanel, Lit, AllZero, Lacking

\* Where outputs of a MTB-UNIS on the panel change, Show changes its lamps.
LEMMA ShownChanged ==
  ASSUME NEW m, NEW n, NEW lit, Shown(m, lit), m # NoModule, SettingsAlone(m, n), n # NoModule,
         m.cls = "unis", Configured(m), NEW ports \in SUBSET Ports, NEW values,
         \A p \in Ports : n.want[p] = IF p \in ports THEN values[p] ELSE m.want[p]
  PROVE  Shown(n, Show(lit, m, ports, values))
<1>1. CASE m.linked
  <2>1. lit = Lit(m)
    BY <1>1 DEF Shown, OnPanel
  <2>2. (Lit(m) \ ports) \cup {p \in ports : values[p] # 0} = Lit(n)
    BY DEF Lit
  <2> QED
    BY <1>1, <2>1, <2>2 DEF Shown, OnPanel, Show, SettingsAlone, Configured
<1>2. CASE ~m.linked
  BY <1>2 DEF Shown, OnPanel, Show, SettingsAlone
<1> QED
  BY <1>1, <1>2

\* clientResetOutputs tells the panel of each output it changes, of a module
\* the panel knows.
LEMMA ShownReset ==
  ASSUME Inv, LampsShown, NEW c \in Sockets, NEW a \in Addrs, Registered(a)
  PROVE  Shown(ModuleAfterReset(a, c), LampsAfterReset(c)[a])
<1> DEFINE m == modules[a]
           n == ModuleAfterReset(a, c)
<1>1. /\ m # NoModule /\ n # NoModule /\ SettingsAlone(m, n) /\ Shown(m, lamps[a])
  BY ResetType, NullsAssumption DEF LampsShown, Registered
<1>2. LampsAfterReset(c)[a] = IF PortsReset(a, c) = {} THEN lamps[a]
                              ELSE Show(lamps[a], m, PortsReset(a, c), m.config)
  BY DEF LampsAfterReset
<1>3. CASE m.cls = "unis" /\ Configured(m)
  <2>1. /\ PortsReset(a, c) \in SUBSET Ports
        /\ \A p \in Ports : n.want[p] = IF p \in PortsReset(a, c) THEN m.config[p] ELSE m.want[p]
    BY <1>3, ResetExact DEF PortsReset, Owned
  <2>2. Shown(n, Show(lamps[a], m, PortsReset(a, c), m.config))
    BY <1>1, <1>3, <2>1, ShownChanged
  <2>3. CASE PortsReset(a, c) = {}
    <3>1. Lit(n) = Lit(m)
      BY <2>1, <2>3 DEF Lit
    <3> QED
      BY <1>1, <1>2, <2>3, <3>1 DEF Shown, OnPanel, SettingsAlone, Configured
  <2> QED
    BY <1>2, <2>2, <2>3
<1>4. CASE m.cls # "unis" \/ ~Configured(m)
  <2>1. LampsAfterReset(c)[a] = lamps[a] /\ ~OnPanel(m)
    BY <1>1, <1>2, <1>4, ResetExact DEF Shown, OnPanel
  <2> QED
    BY <1>1, <2>1 DEF Shown, OnPanel, SettingsAlone
<1> QED
  BY <1>3, <1>4

\* loadConfig unregisters nothing.
LEMMA LoadKept ==
  ASSUME Inv, NEW f \in Entries, NEW a \in Addrs, Registered(a)
  PROVE  ModuleAfterLoad(f, a) # NoModule
<1>1. modules[a] \in Module
  BY InvParts DEF Parts, Registered
<1>2. CASE ~Applies(f, a) \/ \E b \in Addrs : b < a /\ Fails(f, b)
  BY <1>2 DEF ModuleAfterLoad, Registered
<1>3. CASE Applies(f, a) /\ ~\E b \in Addrs : b < a /\ Fails(f, b)
  <2>1. ModuleAfterLoad(f, a) = LoadConfig(modules[a], f[a]) /\ f[a] \in Entry
    BY <1>3 DEF ModuleAfterLoad, Target, Applies, Entries
  <2> QED
    BY <1>1, <2>1, LoadConfigType, NullsAssumption DEF OutputsAlone
<1> QED
  BY <1>2, <1>3

LEMMA LampsStep ==
  ASSUME Inv, LampsShown, Next, DarkStep
  PROVE  LampsShown'
<1> SUFFICES ASSUME NEW a \in Addrs PROVE Shown(modules'[a], lamps'[a])
  BY DEF LampsShown
<1> DEFINE m == modules[a]
           n == modules'[a]
<1>1. Shown(m, lamps[a]) /\ (Registered(a) => m \in Module) /\ n \in Module \cup {NoModule}
  <2>1. Inv'
    BY NextKeeps
  <2> QED
    BY <2>1, InvParts, InvPartsNext DEF LampsShown, Parts, Registered
<1>2. CASE TurnedOnOrOff
  <2>1. lamps'[a] = {}
    BY <1>2, TurnedChanges
  <2>2. CASE n = NoModule
    BY <2>1, <2>2 DEF Shown, OnPanel
  <2>3. CASE n # NoModule
    <3>1. PICK f \in Entries : ~Registered(a) /\ n = ModuleAfterLoad(f, a)
      BY <1>2, <2>3, TurnedChanges
    <3>2. n \in Module /\ n.want = AllZero /\ (n.linked => ~Lacking(n))
      BY <2>3, <3>1, LoadExact
    <3> QED
      BY <2>1, <3>2, ShownOff
  <2> QED
    BY <2>2, <2>3
<1>3. ASSUME Registered(a), OutputsAlone(m, n), LampsStay(a), n.linked = m.linked,
             Configured(m) => Configured(n)
      PROVE  Shown(n, lamps'[a])
  BY <1>1, <1>3, ShownKept, NullsAssumption DEF OutputsAlone, LampsStay, Registered
<1>4. CASE Idle(a)
  BY <1>1, <1>4 DEF Idle, LampsStay
<1>5. CASE PressedAt(a)
  BY <1>1, <1>3, <1>5, InputsChangedType DEF PressedAt, SettingsAlone, Configured
<1>6. ASSUME NEW c \in Sockets, LeftBy(a, c) \/ ResetFor(a, c) PROVE Shown(n, lamps'[a])
  <2> DEFINE r == ModuleAfterReset(a, c)
  <2>1. /\ Registered(a) /\ n \in Module /\ n.want = r.want
        /\ SettingsAlone(m, n) /\ SettingsAlone(m, r) /\ r \in Module
        /\ lamps'[a] = LampsAfterReset(c)[a]
    BY <1>6, LeftType, ResetType DEF LeftBy, ResetFor
  <2>2. Shown(r, LampsAfterReset(c)[a])
    BY <2>1, ShownReset
  <2> HIDE DEF r
  <2> QED
    BY <2>1, <2>2, ShownKept, NullsAssumption DEF SettingsAlone, Configured
<1>7. ASSUME NEW c \in Sockets, LoadedBy(a, c) PROVE Shown(n, lamps'[a])
  <2>0. lamps'[a] = lamps[a]
    BY <1>7 DEF LoadedBy, LampsStay
  <2>1. PICK f \in Entries : n = ModuleAfterLoad(f, a)
    BY <1>7, LoadedEntries
  <2>2. CASE n = NoModule
    <3>1. ~Registered(a)
      BY <2>1, <2>2, LoadKept
    <3> QED
      BY <1>1, <2>0, <2>2, <3>1 DEF Registered
  <2>3. CASE n # NoModule /\ Registered(a)
    BY <1>1, <2>0, <2>1, <2>3, LoadExact, ShownKept DEF Registered
  <2>4. CASE n # NoModule /\ ~Registered(a)
    <3>1. lamps[a] = {}
      BY <1>1, <2>4 DEF Shown, OnPanel, Registered
    <3> QED
      BY <2>0, <2>1, <2>4, <3>1, LoadExact, ShownOff
  <2> QED
    BY <2>2, <2>3, <2>4
<1>8. ASSUME NEW c \in Sockets, DeletedBy(a, c), daemon' = "running" PROVE Shown(n, lamps'[a])
  BY <1>8 DEF DeletedBy, DarkStep, LampsStay, Shown, OnPanel
<1>9. ASSUME NEW c \in Sockets, NEW type \in Types, MadeBy(a, c, type) PROVE Shown(n, lamps'[a])
  <2>1. lamps'[a] = {}
    BY <1>1, <1>9 DEF MadeBy, LampsStay, Shown, OnPanel, Registered
  <2> QED
    BY <1>9, <2>1, MadeType, ShownOff
<1>10. ASSUME NEW c \in Sockets, NEW req \in [Ports -> Values \cup {Keep}], SetBy(a, c, req)
       PROVE  Shown(n, lamps'[a])
  <2>1. /\ Registered(a) /\ m.cls = "unis" /\ n = JsonSetOutput(m, c, req)
        /\ lamps'[a] = Show(lamps[a], m, Changed(m, req), req)
    BY <1>10 DEF SetBy, OutputsSettable
  <2>2. /\ SettingsAlone(m, n) /\ n \in Module /\ Changed(m, req) \in SUBSET Ports
        /\ \A p \in Ports : n.want[p] = IF p \in Changed(m, req) THEN req[p] ELSE m.want[p]
    BY <1>1, <2>1, JsonSetOutputType DEF Changed
  <2>3. CASE Configured(m)
    BY <1>1, <2>1, <2>2, <2>3, ShownChanged, NullsAssumption DEF Registered
  <2>4. CASE ~Configured(m)
    <3>1. ~m.linked /\ ~OnPanel(n) /\ lamps[a] = {}
      BY <1>1, <2>1, <2>2, <2>4 DEF Shown, OnPanel, SettingsAlone, Registered
    <3> QED
      BY <2>1, <3>1 DEF Shown, Show
  <2> QED
    BY <2>3, <2>4
<1>11. ASSUME NEW c \in Sockets, RebootedBy(a, c) \/ UpgradedBy(a, c) PROVE Shown(n, lamps'[a])
  <2>1. Registered(a) /\ LampsStay(a) /\ (n = Reboot(m) \/ n = [m EXCEPT !.fw = c])
    BY <1>11 DEF RebootedBy, UpgradedBy
  <2>2. OutputsAlone(m, n) /\ n.linked = m.linked /\ n.config = m.config
    <3>1. CASE n = Reboot(m)
      BY <1>1, <2>1, <3>1, RebootType
    <3>2. CASE n = [m EXCEPT !.fw = c]
      BY <1>1, <2>1, <3>2, UpgradeType DEF SettingsAlone
    <3> QED
      BY <2>1, <3>1, <3>2
  <2> QED
    BY <1>3, <2>1, <2>2 DEF Configured
<1>12. ASSUME NEW c \in Sockets, NEW type \in Types, NEW config \in Configs,
              ConfiguredBy(a, c, type, config)
       PROVE  Shown(n, lamps'[a])
  <2>1. Registered(a) /\ LampsStay(a) /\ n = JsonSetConfig(m, type, config)
    BY <1>12 DEF ConfiguredBy
  <2>2. OutputsAlone(m, n) /\ n.linked = m.linked /\ (Configured(m) => Configured(n))
    BY <1>1, <2>1, JsonSetConfigType, NoConfigAssumption DEF Configured
  <2> QED
    BY <1>3, <2>1, <2>2
<1>13. ASSUME NEW c \in Sockets, NEW type \in Types, RetypedBy(a, c, type) PROVE Shown(n, lamps'[a])
  <2>1. Registered(a) /\ LampsStay(a) /\ n = JsonSetType(m, type)
    BY <1>13 DEF RetypedBy
  <2>2. OutputsAlone(m, n) /\ n.linked = m.linked /\ n.config = m.config
    BY <1>1, <2>1, JsonSetTypeType
  <2> QED
    BY <1>3, <2>1, <2>2 DEF Configured
<1> QED
  BY <1>2, <1>4, <1>5, <1>6, <1>7, <1>8, <1>9, <1>10, <1>11, <1>12, <1>13, NextChanges, TurnedRunning
     DEF RequestedOf

\* As long as no module is deleted while one of its lamps is lit, the panel
\* shows the outputs of the modules it is connected to.
THEOREM LampsStayTrue == Spec /\ DeletedDark => []LampsShowOutputs
<1>1. Init => LampsShown
  BY DEF Init, LampsShown, Shown, OnPanel
<1>2. LampsShown /\ UNCHANGED vars => LampsShown'
  BY DEF LampsShown, vars, registry
<1>3. Inv /\ LampsShown /\ [Next]_vars /\ [DarkStep]_vars => LampsShown'
  BY <1>2, LampsStep
<1>4. LampsShown => LampsShowOutputs
  BY DEF LampsShown, LampsShowOutputs, Shown, OnPanel, Lit, RegisteredUnis, Registered
<1> QED
  BY <1>1, <1>3, <1>4, Invariance, PTL DEF Spec, DeletedDark
-----------------------------------------------------------------------------
(* Outputs are leases *)

\* The mapping gives every output a holder, a value and a rest value.
LeasesTyped ==
  \A o \in AllOutputs :
    HolderOf(o) \in Sockets \cup {NoSocket} /\ ValueOf(o) \in Values /\ RestOf(o) \in Values

LEMMA LeaseTypes == Inv => LeasesTyped
<1> SUFFICES ASSUME Inv, NEW o \in AllOutputs
             PROVE  /\ HolderOf(o) \in Sockets \cup {NoSocket}
                    /\ ValueOf(o) \in Values /\ RestOf(o) \in Values
  BY DEF LeasesTyped
<1>1. o[1] \in Addrs /\ o[2] \in Ports
  BY DEF AllOutputs
<1>2. CASE Registered(o[1])
  <2>1. modules[o[1]] \in Module
    BY <1>1, <1>2, InvParts DEF Parts, Registered
  <2> QED
    BY <1>1, <1>2, <2>1, ValuesAssumption
       DEF HolderOf, Owner, ValueOf, RestOf, Module, Configured, Configs
<1>3. CASE ~Registered(o[1])
  BY <1>3, ValuesAssumption DEF HolderOf, Owner, ValueOf, RestOf
<1> QED
  BY <1>2, <1>3

LEMMA LeaseTypesNext == Inv' => LeasesTyped'
BY LeaseTypes, PTL

\* The step leaves the outputs of an address alone.
StillAt(a) ==
  \A p \in Ports : Owner(a, p)' = Owner(a, p) /\ ValueOf(<<a, p>>)' = ValueOf(<<a, p>>)

LEMMA IdleStill ==
  ASSUME NEW a \in Addrs, Idle(a)
  PROVE  StillAt(a) /\ \A p \in Ports : RestOf(<<a, p>>)' = RestOf(<<a, p>>)
BY DEF Idle, StillAt, Owner, ValueOf, RestOf, Registered

\* A module that is made has the outputs an address without module has.
LEMMA FreshStill ==
  ASSUME NEW a \in Addrs, ~Registered(a), modules'[a] # NoModule => modules'[a].want = AllZero,
         modules'[a] # NoModule => \A p \in Ports : modules'[a].who[p] = NoSocket
  PROVE  StillAt(a)
BY DEF StillAt, Owner, ValueOf, Registered, AllZero

\* A module that stays has its outputs.
LEMMA SameStill ==
  ASSUME NEW a \in Addrs, Registered(a), modules'[a] # NoModule,
         modules'[a].want = modules[a].want, modules'[a].who = modules[a].who
  PROVE  StillAt(a)
BY DEF StillAt, Owner, ValueOf, Registered

\* A step that leaves every output alone configures outputs at most.
LEMMA StillConfigures ==
  ASSUME Inv', clients' = clients, \A a \in Addrs : StillAt(a)
  PROVE  Leases!Configure
<1>1. \A o \in AllOutputs : HolderOf(o)' = HolderOf(o) /\ ValueOf(o)' = ValueOf(o)
  BY DEF AllOutputs, StillAt, HolderOf
<1>2. \A o \in AllOutputs : RestOf(o)' \in Values
  BY LeaseTypesNext DEF LeasesTyped
<1> QED
  BY <1>1, <1>2 DEF Leases!Configure

\* The end of the process ends every lease.
LEMMA OfflineRestarts ==
  ASSUME clients' = {}, \A a \in Addrs : modules'[a] = NoModule
  PROVE  Leases!Restart
<1>1. \A o \in AllOutputs : HolderOf(o)' = NoSocket /\ ValueOf(o)' = 0 /\ RestOf(o)' = 0
  BY DEF AllOutputs, HolderOf, Owner, ValueOf, RestOf, Registered
<1> QED
  BY <1>1 DEF Leases!Restart, Leases!Unused

\* A reset that does not throw frees the client's outputs, and puts to rest
\* nothing that another client holds.
LEMMA ResetFrees ==
  ASSUME Inv, Inv', OwnersSound, NEW c \in Sockets, c \in clients, ~ResetThrows(c),
         \A a \in Addrs : Registered(a) =>
           /\ modules'[a] # NoModule /\ SettingsAlone(modules[a], modules'[a])
           /\ modules'[a].want = ModuleAfterReset(a, c).want
           /\ modules'[a].who = ModuleAfterReset(a, c).who,
         \A a \in Addrs : ~Registered(a) => modules'[a] = NoModule
  PROVE  Leases!Freed(c)
<1>1. ASSUME NEW o \in AllOutputs
      PROVE  /\ RestOf(o)' = RestOf(o)
             /\ HolderOf(o) = c => HolderOf(o)' = NoSocket /\ ValueOf(o)' = RestOf(o)
             /\ HolderOf(o) # c => HolderOf(o)' = HolderOf(o)
             /\ HolderOf(o) = NoSocket => ValueOf(o)' \in {ValueOf(o), RestOf(o)}
             /\ HolderOf(o) \notin {c, NoSocket} => ValueOf(o)' = ValueOf(o)
  <2> DEFINE a == o[1]
             p == o[2]
             m == modules[a]
             r == ModuleAfterReset(a, c)
  <2>1. a \in Addrs /\ p \in Ports /\ o = <<a, p>>
    BY DEF AllOutputs
  <2> HIDE DEF a, p
  <2>2. CASE ~Registered(a)
    <3>1. modules'[a] = NoModule
      BY <2>1, <2>2
    <3> QED
      BY <2>1, <2>2, <3>1, SocketsAssumption DEF HolderOf, Owner, ValueOf, RestOf, Registered
  <2>3. CASE Registered(a)
    <3>1. /\ HolderOf(o) = m.who[p] /\ ValueOf(o) = m.want[p]
          /\ RestOf(o) = IF Configured(m) THEN m.config[p] ELSE 0
      BY <2>1, <2>3 DEF HolderOf, Owner, ValueOf, RestOf
    <3>2. /\ modules'[a] # NoModule /\ SettingsAlone(m, modules'[a])
          /\ modules'[a].want = r.want /\ modules'[a].who = r.who
      BY <2>1, <2>3
    <3>3. HolderOf(o)' = r.who[p] /\ ValueOf(o)' = r.want[p] /\ RestOf(o)' = RestOf(o)
      BY <2>1, <2>3, <3>2
         DEF HolderOf, Owner, ValueOf, RestOf, Registered, SettingsAlone, Configured
    <3>4. Sound(m, clients) /\ m \in Module
      BY <2>1, <2>3, InvParts DEF OwnersSound, Parts, Registered
    <3>5. CASE m.cls = "unis" /\ Configured(m)
      <4>1. a \in RegisteredUnis
        BY <2>1, <2>3, <3>5 DEF RegisteredUnis
      <4>2. /\ r.want[p] = IF p \in PortsReset(a, c) THEN m.config[p] ELSE m.want[p]
            /\ r.who[p] = IF p \in PortsReset(a, c) THEN NoSocket ELSE m.who[p]
        BY <2>1, <2>3, <3>5, ResetExact
      <4>3. /\ p \in PortsReset(a, c) => m.who[p] \in {c, NoSocket}
            /\ m.who[p] = c => p \in PortsReset(a, c)
        BY <2>1, <3>5, <4>1, PortsResetOwn
      <4> QED
        BY <3>1, <3>3, <3>5, <4>2, <4>3
    <3>6. CASE m.cls # "unis" \/ ~Configured(m)
      <4>1. m.who[p] = NoSocket /\ r.who = m.who
        BY <2>1, <2>3, <3>4, <3>6, ResetExact DEF Sound
      <4>2. r.want[p] \in {m.want[p], IF Configured(m) THEN m.config[p] ELSE 0}
        BY <2>1, <2>3, ResetType
      <4> QED
        BY <3>1, <3>3, <4>1, <4>2, SocketsAssumption
    <3> QED
      BY <3>5, <3>6
  <2> QED
    BY <2>2, <2>3
<1>2. \A o \in AllOutputs : ValueOf(o)' \in Values
  BY LeaseTypesNext DEF LeasesTyped
<1> QED
  BY <1>1, <1>2 DEF Leases!Freed

\* The start of the process makes modules whose outputs are off and free.
LEMMA StartConfigures ==
  ASSUME Inv, Inv', FirstStart \/ StartLoaded \/ StartRefused \/ StartWithoutServer
  PROVE  Leases!Configure
<1>1. Next /\ TurnedOnOrOff /\ clients' = clients
  BY DEF Next, FirstStart, StartLoaded, StartRefused, StartWithoutServer, TurnedOnOrOff, Silent, Answer
<1>2. daemon # "running"
  BY DEF FirstStart, StartLoaded, StartRefused, StartWithoutServer
<1>3. ASSUME NEW a \in Addrs PROVE StillAt(a)
  <2>1. ~Registered(a)
    BY <1>2 DEF Inv, Quiet, Registered
  <2>2. modules'[a] = NoModule \/ \E f \in Entries : modules'[a] = ModuleAfterLoad(f, a)
    BY <1>1, TurnedChanges
  <2> QED
    BY <2>1, <2>2, LoadExact, FreshStill
<1> QED
  BY <1>1, <1>3, StillConfigures

\* Setting outputs makes the client hold those that change.
LEMMA SetTakes ==
  ASSUME Inv, Inv', NEW c \in clients, clients' = clients,
         \A a \in Addrs : Idle(a) \/ \E req \in [Ports -> Values \cup {Keep}] : SetBy(a, c, req)
  PROVE  Leases!Take(c)
<1>1. c \in Sockets
  BY InvParts DEF Parts
<1>2. ASSUME NEW o \in AllOutputs
      PROVE  /\ RestOf(o)' = RestOf(o)
             /\ HolderOf(o)' = IF ValueOf(o)' # ValueOf(o) THEN c ELSE HolderOf(o)
  <2> DEFINE a == o[1]
             p == o[2]
             m == modules[a]
             n == modules'[a]
  <2>1. a \in Addrs /\ p \in Ports /\ o = <<a, p>>
    BY DEF AllOutputs
  <2> HIDE DEF a, p
  <2>2. CASE Idle(a)
    BY <2>1, <2>2, IdleStill DEF StillAt, HolderOf
  <2>3. ASSUME NEW req \in [Ports -> Values \cup {Keep}], SetBy(a, c, req)
        PROVE  /\ RestOf(o)' = RestOf(o)
               /\ HolderOf(o)' = IF ValueOf(o)' # ValueOf(o) THEN c ELSE HolderOf(o)
    <3>1. Registered(a) /\ n = JsonSetOutput(m, c, req) /\ m \in Module
      BY <2>1, <2>3, InvParts DEF SetBy, Parts, Registered
    <3>2. /\ n \in Module /\ SettingsAlone(m, n)
          /\ n.want[p] = IF p \in Changed(m, req) THEN req[p] ELSE m.want[p]
          /\ n.who[p] = IF p \in Changed(m, req) THEN c ELSE m.who[p]
      BY <1>1, <2>1, <3>1, JsonSetOutputType
    <3>3. p \in Changed(m, req) => req[p] # m.want[p]
      BY DEF Changed
    <3>4. n # NoModule
      BY <3>2, NullsAssumption
    <3> QED
      BY <2>1, <3>1, <3>2, <3>3, <3>4
         DEF HolderOf, Owner, ValueOf, RestOf, Registered, SettingsAlone, Configured
  <2> QED
    BY <2>1, <2>2, <2>3
<1>3. \A o \in AllOutputs : ValueOf(o)' \in Values
  BY LeaseTypesNext DEF LeasesTyped
<1> QED
  BY <1>2, <1>3 DEF Leases!Take

\* The outputs of a deleted module go out of use.
LEMMA DeleteRemoves ==
  ASSUME clients' = clients, NEW c \in Sockets, \A a \in Addrs : Idle(a) \/ DeletedBy(a, c)
  PROVE  \E outs \in SUBSET AllOutputs : Leases!Remove(outs)
<1> DEFINE outs == {o \in AllOutputs : modules'[o[1]] = NoModule}
<1>1. ASSUME NEW o \in AllOutputs
      PROVE  /\ o \in outs => HolderOf(o)' = NoSocket /\ ValueOf(o)' = 0 /\ RestOf(o)' = 0
             /\ o \notin outs => /\ HolderOf(o)' = HolderOf(o) /\ ValueOf(o)' = ValueOf(o)
                                 /\ RestOf(o)' = RestOf(o)
  <2>1. o[1] \in Addrs /\ o[2] \in Ports /\ o = <<o[1], o[2]>>
    BY DEF AllOutputs
  <2>2. CASE o \in outs
    BY <2>1, <2>2 DEF HolderOf, Owner, ValueOf, RestOf, Registered
  <2>3. CASE o \notin outs
    <3>1. modules'[o[1]] = modules[o[1]]
      BY <2>1, <2>3 DEF DeletedBy, Idle
    <3> QED
      BY <3>1, <2>3 DEF HolderOf, Owner, ValueOf, RestOf, Registered
  <2> QED
    BY <2>2, <2>3
<1>2. outs \in SUBSET AllOutputs
  OBVIOUS
<1> HIDE DEF outs
<1>3. Leases!Remove(outs)
  BY <1>1 DEF Leases!Remove, Leases!Unused
<1> QED
  BY <1>2, <1>3

\* A request that takes, releases or removes nothing configures at most.
LEMMA QuietRequest ==
  ASSUME Inv, Inv', NEW c \in Sockets, clients' = clients,
         \A a \in Addrs :
           \/ Idle(a) \/ LoadedBy(a, c) \/ RebootedBy(a, c) \/ UpgradedBy(a, c)
           \/ \E type \in Types, config \in Configs : ConfiguredBy(a, c, type, config)
           \/ \E type \in Types : MadeBy(a, c, type) \/ RetypedBy(a, c, type)
  PROVE  Leases!Configure
<1>1. ASSUME NEW a \in Addrs PROVE StillAt(a)
  <2> DEFINE m == modules[a]
             n == modules'[a]
  <2>1. Registered(a) => m \in Module
    BY InvParts DEF Parts, Registered
  <2>2. CASE Idle(a)
    BY <2>2, IdleStill
  <2>3. CASE LoadedBy(a, c)
    <3>1. PICK f \in Entries : n = ModuleAfterLoad(f, a)
      BY <2>3, LoadedEntries
    <3>2. CASE Registered(a)
      BY <3>1, <3>2, LoadKept, LoadExact, SameStill
    <3>3. CASE ~Registered(a)
      BY <3>1, <3>3, LoadExact, FreshStill
    <3> QED
      BY <3>2, <3>3
  <2>4. ASSUME Registered(a), OutputsAlone(m, n) PROVE StillAt(a)
    BY <2>4, SameStill, NullsAssumption DEF OutputsAlone
  <2>5. CASE RebootedBy(a, c)
    BY <2>1, <2>4, <2>5, RebootType DEF RebootedBy
  <2>6. CASE UpgradedBy(a, c)
    BY <2>1, <2>4, <2>6, UpgradeType DEF UpgradedBy
  <2>7. ASSUME NEW type \in Types, NEW config \in Configs, ConfiguredBy(a, c, type, config)
        PROVE  StillAt(a)
    BY <2>1, <2>4, <2>7, JsonSetConfigType DEF ConfiguredBy
  <2>8. ASSUME NEW type \in Types, MadeBy(a, c, type) PROVE StillAt(a)
    BY <2>8, MadeType, FreshStill DEF MadeBy
  <2>9. ASSUME NEW type \in Types, RetypedBy(a, c, type) PROVE StillAt(a)
    BY <2>1, <2>4, <2>9, JsonSetTypeType DEF RetypedBy
  <2> QED
    BY <2>2, <2>3, <2>5, <2>6, <2>7, <2>8, <2>9
<1> QED
  BY <1>1, StillConfigures

LEMMA RequestLeases ==
  ASSUME Inv, Inv', OwnersSound, CompleteStep, NEW c \in Sockets, Request(c)
  PROVE  Leases!Next
<1>1. clients' = clients
  BY DEF Request
<1>2. Leases!Configure => Leases!Next
  BY DEF Leases!Next
<1>3. CASE Subscribing(c) \/ Asking(c)
  BY <1>1, <1>2, <1>3, SubscribingIdle, AskingIdle, QuietRequest
<1>4. CASE SaveConfigFile(c)
  <2>1. \A a \in Addrs : Idle(a)
    BY <1>4, RefusedIdle, JustAnswerIdle DEF SaveConfigFile, Idle, LampsStay, registry
  <2> QED
    BY <1>1, <1>2, <2>1, QuietRequest
<1>5. CASE LoadConfigFile(c)
  BY <1>1, <1>2, <1>5, LoadConfigFileChanges, QuietRequest
<1>6. ASSUME NEW b \in Addrs, ModuleDelete(c, b) PROVE Leases!Next
  <2>1. \E outs \in SUBSET AllOutputs : Leases!Remove(outs)
    BY <1>1, <1>6, ModuleDeleteChanges, DeleteRemoves
  <2> QED
    BY <2>1 DEF Leases!Next
<1>7. ASSUME NEW b \in Addrs, NEW type \in TypeCodes \cup {Absent},
             NEW config \in SafeOutputs \cup {Absent}, NEW name \in {Absent, Invalid},
             ModuleSetConfig(c, b, type, config, name)
      PROVE  Leases!Next
  BY <1>1, <1>2, <1>7, ModuleSetConfigChanges, QuietRequest
<1>8. ASSUME NEW b \in Addrs, NEW req \in Requests \cup {Invalid}, ModuleSetOutputs(c, b, req)
      PROVE  Leases!Next
  <2>1. c \in clients
    BY <1>8 DEF ModuleSetOutputs, Serve
  <2>2. Leases!Take(c)
    BY <1>1, <1>8, <2>1, ModuleSetOutputsChanges, SetTakes
  <2> QED
    BY <2>2 DEF Leases!Next
<1>9. CASE ResetMyOutputs(c)
  <2>1. CASE Denied(c)
    <3>1. \A a \in Addrs : Idle(a)
      BY <2>1, RefusedIdle
    <3> QED
      BY <1>1, <1>2, <3>1, QuietRequest
  <2>2. CASE ~Denied(c)
    <3>1. c \in clients /\ c \in writeAccess
      BY <1>9, <2>2 DEF ResetMyOutputs, Serve, Allowed
    <3>2. ~ResetThrows(c)
      BY <1>9, <3>1 DEF CompleteStep
    <3>3. ASSUME NEW a \in Addrs, Registered(a)
          PROVE  modules'[a] = ModuleAfterReset(a, c) /\ modules'[a] # NoModule
                 /\ SettingsAlone(modules[a], modules'[a])
      BY <1>9, <2>2, <3>3, ResetMyOutputsChanges, ResetType, NullsAssumption DEF ResetFor
    <3>4. \A a \in Addrs : ~Registered(a) => modules'[a] = NoModule
      BY <1>9, <2>2, ResetMyOutputsChanges DEF Idle, Registered
    <3>5. Leases!Freed(c)
      BY <3>1, <3>2, <3>3, <3>4, ResetFrees
    <3> QED
      BY <1>1, <3>5 DEF Leases!Release, Leases!Next
  <2> QED
    BY <2>1, <2>2
<1>10. ASSUME NEW b \in Addrs, ModuleReboot(c, b) PROVE Leases!Next
  BY <1>1, <1>2, <1>10, ModuleRebootChanges, QuietRequest
<1>11. ASSUME NEW b \in Addrs, NEW firmware, ModuleUpgradeFw(c, b, firmware) PROVE Leases!Next
  BY <1>1, <1>2, <1>11, ModuleUpgradeFwChanges, QuietRequest
<1> QED
  BY <1>3, <1>4, <1>5, <1>6, <1>7, <1>8, <1>9, <1>10, <1>11 DEF Request, Configuring, Operating

\* Every step of the daemon is a step of the leases.
LEMMA StepLeases ==
  ASSUME Inv, OwnersSound, CompleteStep, Next
  PROVE  Leases!Next
<1>1. Inv'
  BY NextKeeps
<1>2. CASE FirstStart \/ StartLoaded \/ StartRefused \/ StartWithoutServer
  BY <1>1, <1>2, StartConfigures DEF Leases!Next
<1>3. ASSUME NEW c \in Sockets, DisconnectTerminates(c) \/ StopWhileSaving(c) \/ SpecificCommandEnds(c)
      PROVE  Leases!Next
  BY <1>3, OfflineRestarts
     DEF DisconnectTerminates, StopWhileSaving, SpecificCommandEnds, Offline, Leases!Next
<1>4. CASE Stop
  BY <1>4, OfflineRestarts DEF Stop, Offline, Leases!Next
<1>5. ASSUME NEW c \in Sockets, Connect(c) PROVE Leases!Next
  <2>1. \A o \in AllOutputs : /\ HolderOf(o)' = HolderOf(o) /\ ValueOf(o)' = ValueOf(o)
                              /\ RestOf(o)' = RestOf(o)
    BY <1>5 DEF Connect, registry, HolderOf, Owner, ValueOf, RestOf, Registered
  <2>2. Leases!Connect(c)
    BY <1>5, <2>1 DEF Leases!Connect, Connect
  <2> QED
    BY <2>2 DEF Leases!Next
<1>6. ASSUME NEW c \in Sockets, Disconnect(c) PROVE Leases!Next
  <2>1. c \in clients /\ ~ResetThrows(c) /\ clients' = clients \ {c}
    BY <1>6 DEF Disconnect
  <2>2. ASSUME NEW a \in Addrs, Registered(a)
        PROVE  /\ modules'[a] # NoModule /\ SettingsAlone(modules[a], modules'[a])
               /\ modules'[a].want = ModuleAfterReset(a, c).want
               /\ modules'[a].who = ModuleAfterReset(a, c).who
    <3>1. LeftBy(a, c)
      BY <1>6, <2>2 DEF LeftBy, Disconnect, ModulesAfterReset
    <3> QED
      BY <3>1, LeftType, NullsAssumption
  <2>3. \A a \in Addrs : ~Registered(a) => modules'[a] = NoModule
    BY <1>6 DEF Disconnect
  <2>4. Leases!Freed(c)
    BY <1>1, <2>1, <2>2, <2>3, ResetFrees
  <2> QED
    BY <2>1, <2>4 DEF Leases!Leave, Leases!Next
<1>7. ASSUME NEW c \in Sockets, Request(c) PROVE Leases!Next
  BY <1>1, <1>7, RequestLeases
<1>8. ASSUME NEW b \in Addrs, NEW pin \in Pins, NEW on \in BOOLEAN, SimOnInputChanged(b, pin, on),
             UNCHANGED <<daemon, clients>>
      PROVE  Leases!Next
  <2>1. ASSUME NEW a \in Addrs PROVE StillAt(a)
    <3>1. CASE Idle(a)
      BY <3>1, IdleStill
    <3>2. ASSUME ~Idle(a)
          PROVE  Registered(a) /\ modules'[a] = InputsChanged(modules[a], pin, on)
      BY <1>8, <3>2, ReplaceOther DEF SimOnInputChanged, registry, Idle, LampsStay
    <3>3. CASE ~Idle(a)
      <4>1. modules[a] \in Module
        BY <3>2, <3>3, InvParts DEF Parts, Registered
      <4> QED
        BY <3>2, <3>3, <4>1, InputsChangedType, SameStill, NullsAssumption DEF OutputsAlone
    <3> QED
      BY <3>1, <3>3
  <2> QED
    BY <1>1, <1>8, <2>1, StillConfigures DEF Leases!Next
<1> QED
  BY <1>2, <1>3, <1>4, <1>5, <1>6, <1>7, <1>8 DEF Next

\* The daemon implements the leases, whatever clients request in whatever order
\* and whenever the process stops, as long as no load_config fails half way and
\* no reset_my_outputs throws.
THEOREM DaemonImplementsLeases == Spec /\ LoadsSucceed /\ ResetsComplete => ImplementsLeases
<1>1. Init => Leases!Init
  <2> SUFFICES ASSUME Init PROVE Leases!Init
    OBVIOUS
  <2>1. \A o \in AllOutputs : HolderOf(o) = NoSocket /\ ValueOf(o) = 0 /\ RestOf(o) = 0
    BY DEF Init, AllOutputs, HolderOf, Owner, ValueOf, RestOf, Registered
  <2> QED
    BY <2>1, ValuesAssumption DEF Leases!Init, Init
<1>2. UNCHANGED vars => UNCHANGED Leases!vars
  BY DEF vars, registry, Leases!vars, HolderOf, Owner, ValueOf, RestOf, Registered
<1>3. Inv /\ OwnersSound /\ [CompleteStep]_vars /\ [Next]_vars => [Leases!Next]_(Leases!vars)
  BY <1>2, StepLeases
<1> QED
  BY <1>1, <1>3, Invariance, SoundStays, PTL
     DEF Spec, ResetsComplete, ImplementsLeases, Leases!Spec

-----------------------------------------------------------------------------
(* Modules that stay as the file has them *)

\* Nobody loads, configures or deletes modules while the process runs.
FixedModules == Commands \cap {"load_config", "module_set_config", "module_delete"} = {}

\* Then a running process keeps every module with its class and configuration.
LEMMA FixedChanges ==
  ASSUME FixedModules, Inv, Next, ~TurnedOnOrOff, NEW a \in Addrs
  PROVE  \/ ~Registered(a) /\ modules'[a] = NoModule
         \/ /\ Registered(a) /\ modules'[a] # NoModule
            /\ modules'[a].cls = modules[a].cls /\ modules'[a].config = modules[a].config
<1> DEFINE Stays == \/ ~Registered(a) /\ modules'[a] = NoModule
                    \/ /\ Registered(a) /\ modules'[a] # NoModule
                       /\ modules'[a].cls = modules[a].cls /\ modules'[a].config = modules[a].config
<1>1. Registered(a) => modules[a] \in Module
  BY InvParts DEF Parts, Registered
<1>2. Idle(a) => Stays
  BY DEF Idle, Registered
<1>3. ASSUME Registered(a), modules'[a] \in Module, SettingsAlone(modules[a], modules'[a])
      PROVE  Stays
  BY <1>3, NullsAssumption DEF SettingsAlone
<1>4. CASE PressedAt(a)
  BY <1>1, <1>3, <1>4, InputsChangedType DEF PressedAt, OutputsAlone
<1>5. ASSUME NEW c \in Sockets, LeftBy(a, c) \/ ResetFor(a, c) PROVE Stays
  <2>1. Registered(a) /\ modules'[a] \in Module /\ SettingsAlone(modules[a], modules'[a])
    BY <1>5, LeftType, ResetType DEF LeftBy, ResetFor
  <2> QED
    BY <1>3, <2>1
<1>6. ASSUME NEW c \in Sockets, NEW req \in [Ports -> Values \cup {Keep}], SetBy(a, c, req)
      PROVE  Stays
  BY <1>1, <1>3, <1>6, JsonSetOutputType DEF SetBy
<1>7. ASSUME NEW c \in Sockets, RebootedBy(a, c) PROVE Stays
  BY <1>1, <1>7, RebootType, NullsAssumption DEF RebootedBy, OutputsAlone
<1>8. ASSUME NEW c \in Sockets, UpgradedBy(a, c) PROVE Stays
  BY <1>1, <1>3, <1>8, UpgradeType DEF UpgradedBy, OutputsAlone
<1>9. ASSUME NEW c \in Sockets, Request(c) PROVE Stays
  <2>1. ~LoadConfigFile(c) /\ ~\E b \in Addrs : ModuleDelete(c, b)
    BY DEF FixedModules, LoadConfigFile, ModuleDelete, Serve
  <2>2. ASSUME NEW b \in Addrs, NEW type, NEW config, NEW name,
               ModuleSetConfig(c, b, type, config, name)
        PROVE  FALSE
    BY <2>2 DEF FixedModules, ModuleSetConfig, Serve
  <2>3. SaveConfigFile(c) => Idle(a)
    BY RefusedIdle, JustAnswerIdle DEF SaveConfigFile, Idle, LampsStay, registry
  <2>4. ASSUME Operating(c) PROVE Stays
    <3>1. ASSUME NEW b \in Addrs, NEW req \in Requests \cup {Invalid}, ModuleSetOutputs(c, b, req)
          PROVE  Stays
      BY <1>2, <1>6, <3>1, ModuleSetOutputsChanges
    <3>2. ResetMyOutputs(c) => Stays
      BY <1>2, <1>5, ResetMyOutputsChanges
    <3>3. ASSUME NEW b \in Addrs, ModuleReboot(c, b) PROVE Stays
      BY <1>2, <1>7, <3>3, ModuleRebootChanges
    <3>4. ASSUME NEW b \in Addrs, NEW firmware, ModuleUpgradeFw(c, b, firmware) PROVE Stays
      BY <1>2, <1>8, <3>4, ModuleUpgradeFwChanges
    <3> QED
      BY <2>4, <3>1, <3>2, <3>3, <3>4 DEF Operating
  <2> QED
    BY <1>2, <1>9, <2>1, <2>2, <2>3, <2>4, SubscribingIdle, AskingIdle DEF Request, Configuring
<1>10. ASSUME NEW c \in Sockets, Connect(c) PROVE Stays
  BY <1>10 DEF Connect, registry, Registered
<1>11. ASSUME NEW c \in Sockets, Disconnect(c) PROVE Stays
  BY <1>5, <1>11, DisconnectLeaves DEF Disconnect, LeftBy, ModulesAfterReset
<1>12. ASSUME NEW b \in Addrs, NEW pin \in Pins, NEW on \in BOOLEAN, SimOnInputChanged(b, pin, on)
       PROVE  Stays
  <2>1. \/ Idle(a)
        \/ Registered(a) /\ modules'[a] = InputsChanged(modules[a], pin, on)
    BY <1>12, ReplaceOther DEF SimOnInputChanged, registry, Idle, LampsStay
  <2> QED
    BY <1>1, <1>2, <1>3, <2>1, InputsChangedType DEF OutputsAlone
<1>13. daemon = "running" /\ daemon' = "running"
  BY TurnedRunning
<1> HIDE DEF Stays
<1>14. Stays
  BY <1>9, <1>10, <1>11, <1>12, <1>13 DEF Next, Stop, FirstStart, StartLoaded, StartRefused,
     StartWithoutServer, DisconnectTerminates, StopWhileSaving, SpecificCommandEnds
<1> QED
  BY <1>14 DEF Stays

\* The conditions of the theorems above hold, with no assumption on the order of
\* requests, departures and stops: none of them excludes what it is about.
THEOREM FixedModulesSafe ==
  ASSUME FixedModules
  PROVE  Spec => /\ []OwnersConnected /\ []UnownedAtRest /\ []LampsShowOutputs
                 /\ ImplementsLeases
<1>1. SucceedingStep
  BY DEF FixedModules, SucceedingStep, LoadConfigFile, Serve
<1>2. ASSUME Inv, Next PROVE KeptStep /\ DarkStep
  <2>1. CASE TurnedOnOrOff
    BY <1>2, <2>1, TurnedChanges, NextKeeps
       DEF KeptStep, DarkStep, RegisteredUnis, Survives, Inv, Quiet, Registered, TurnedOnOrOff
  <2>2. CASE ~TurnedOnOrOff
    BY <1>2, <2>2, FixedChanges DEF KeptStep, DarkStep, RegisteredUnis
  <2> QED
    BY <2>1, <2>2
<1>3. ASSUME Inv, AllConfigured, Next PROVE AllConfigured'
  <2> SUFFICES ASSUME NEW a \in Addrs, modules'[a] # NoModule, modules'[a].cls = "unis"
               PROVE  Configured(modules'[a])
    BY DEF AllConfigured, RegisteredUnis, Registered
  <2>1. CASE TurnedOnOrOff
    <3>1. /\ ~Registered(a)
          /\ \E f \in Entries : ~LoadFails(f) /\ modules'[a] = ModuleAfterLoad(f, a)
      BY <1>3, <2>1, TurnedChanges
    <3> QED
      BY <1>3, <3>1, LoadExact DEF Lacking, Registered
  <2>2. CASE ~TurnedOnOrOff
    BY <1>3, <2>2, FixedChanges DEF AllConfigured, RegisteredUnis, Configured
  <2> QED
    BY <2>1, <2>2
<1>4. ASSUME Inv, AllConfigured PROVE CompleteStep
  BY <1>4, ResetReleases, WritersAssumption, InvParts DEF CompleteStep, Parts
<1>5. Init => AllConfigured
  BY DEF Init, AllConfigured, RegisteredUnis, Registered
<1>6. AllConfigured /\ UNCHANGED vars => AllConfigured'
  BY DEF AllConfigured, RegisteredUnis, Registered, vars, registry
<1>7. Inv /\ AllConfigured /\ [Next]_vars =>
        /\ AllConfigured' /\ [SucceedingStep]_vars /\ [KeptStep]_vars /\ [DarkStep]_vars
        /\ [CompleteStep]_vars
  BY <1>1, <1>2, <1>3, <1>4, <1>6
<1>8. Spec => LoadsSucceed /\ ResetsComplete /\ ConfigurationsStay /\ DeletedDark
  BY <1>5, <1>7, Invariance, PTL
     DEF Spec, LoadsSucceed, ResetsComplete, ConfigurationsStay, DeletedDark
<1> QED
  BY <1>8, OwnersStayConnected, UnownedStayAtRest, LampsStayTrue, DaemonImplementsLeases, PTL
=============================================================================
