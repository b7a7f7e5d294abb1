------------------------- MODULE MtbDaemonStepProofs -------------------------
(***************************************************************************)
(* Proofs of what a step of MtbDaemon may never do, from the invariant of  *)
(* MtbDaemonProofs.                                                        *)
(***************************************************************************)
EXTENDS MtbDaemonProofs

-----------------------------------------------------------------------------
(* clientResetOutputs *)

\* The owner of an output of a MtbUnis is one of the setters.
LEMMA OwnerIsSetter ==
  ASSUME NEW a \in RegisteredUnis, NEW p \in Ports, modules[a].who[p] \in Sockets
  PROVE  modules[a].who[p] \in Setters
<1>1. modules[a].who[p] \in OutputSetters(modules[a])
  BY DEF OutputSetters, RegisteredUnis
<1> QED
  BY <1>1 DEF Setters, RegisteredUnis

\* Both ways of resetting leave the outputs of other clients alone: resetting
\* everything at once happens only when there is no other owner.
LEMMA ResetOnlyOwn ==
  ASSUME Inv, NEW c \in Sockets, NEW a \in RegisteredUnis, NEW p \in Ports,
         modules[a].who[p] \in Sockets \ {c}
  PROVE  /\ ModuleAfterReset(a, c).want[p] = modules[a].want[p]
         /\ ModuleAfterReset(a, c).who[p] = modules[a].who[p]
<1>1. modules[a] \in Module
  BY InvParts DEF Parts, RegisteredUnis, Registered
<1>2. CASE SeveralSetters
  BY <1>1, <1>2, ResetOutputsOfClientType DEF ModuleAfterReset
<1>3. CASE ~SeveralSetters
  <2>1. ~SoleSetter(c)
    BY OwnerIsSetter DEF SoleSetter
  <2> QED
    BY <1>3, <2>1 DEF ModuleAfterReset
<1> QED
  BY <1>2, <1>3

\* When every MtbUnis has a configuration, both ways give each output of the
\* client its safe value and no owner, and nothing throws.
LEMMA ResetReleases ==
  ASSUME Inv, AllConfigured, NEW c \in Sockets
  PROVE  /\ ~ResetThrows(c)
         /\ \A a \in RegisteredUnis, p \in Ports : modules[a].who[p] = c =>
              /\ ModuleAfterReset(a, c).want[p] = modules[a].config[p]
              /\ ModuleAfterReset(a, c).who[p] = NoSocket
<1>1. ASSUME NEW a \in Addrs PROVE ~LackingAt(a)
  BY <1>1 DEF AllConfigured, RegisteredUnis, LackingAt, Lacking
<1>2. ~ResetThrows(c)
  BY <1>1 DEF ResetThrows, BroadcastThrows
<1>3. ASSUME NEW a \in RegisteredUnis, NEW p \in Ports, modules[a].who[p] = c
      PROVE  /\ ModuleAfterReset(a, c).want[p] = modules[a].config[p]
             /\ ModuleAfterReset(a, c).who[p] = NoSocket
  <2>1. modules[a] \in Module /\ modules[a].cls = "unis" /\ Configured(modules[a])
    BY InvParts DEF Parts, RegisteredUnis, Registered, AllConfigured
  <2>2. CASE SeveralSetters
    BY <1>3, <2>1, <2>2, ResetOutputsOfClientType DEF ModuleAfterReset
  <2>3. CASE ~SeveralSetters
    <3>1. c \in Setters
      BY <1>3, OwnerIsSetter
    <3>2. SoleSetter(c)
      BY <2>3, <3>1 DEF SeveralSetters, SoleSetter
    <3>3. Reached(a)
      BY <1>1 DEF Reached
    <3>4. ~LackingAt(a)
      BY <1>1 DEF RegisteredUnis
    <3>5. ModuleAfterReset(a, c) = AllOutputsReset(modules[a])
      BY <2>3, <3>2, <3>3, <3>4 DEF ModuleAfterReset
    <3> QED
      BY <2>1, <3>5, AllOutputsResetType DEF Lacking
  <2> QED
    BY <2>2, <2>3
<1> QED
  BY <1>2, <1>3

\* What clientResetOutputs does to a module at most: outputs go to the safe
\* value and lose their owner; nothing else of the object changes.
LEMMA ResetType ==
  ASSUME Inv, NEW c \in Sockets, NEW a \in Addrs, Registered(a)
  PROVE  /\ ModuleAfterReset(a, c) \in Module /\ Settled(ModuleAfterReset(a, c))
         /\ SettingsAlone(modules[a], ModuleAfterReset(a, c))
         /\ ModuleAfterReset(a, c).fw = modules[a].fw
         /\ \A p \in Ports :
              /\ ModuleAfterReset(a, c).who[p] \in {modules[a].who[p], NoSocket}
              /\ ModuleAfterReset(a, c).want[p] \in
                   {modules[a].want[p], IF Configured(modules[a]) THEN modules[a].config[p] ELSE 0}
<1>1. modules[a] \in Module /\ Settled(modules[a])
  BY InvParts DEF Parts, Registered, Good
<1>2. CASE SeveralSetters
  BY <1>1, <1>2, ResetOutputsOfClientType DEF ModuleAfterReset
<1>3. CASE ~SeveralSetters /\ (~SoleSetter(c) \/ ~Reached(a))
  BY <1>1, <1>3 DEF ModuleAfterReset, SettingsAlone
<1>4. CASE ~SeveralSetters /\ SoleSetter(c) /\ Reached(a) /\ LackingAt(a)
  <2>1. ModuleAfterReset(a, c) = AllOutputsResetThrows(modules[a]) /\ ~Configured(modules[a])
    BY <1>4 DEF ModuleAfterReset, LackingAt, Lacking
  <2> QED
    BY <1>1, <2>1, AllOutputsResetThrowsType
<1>5. CASE ~SeveralSetters /\ SoleSetter(c) /\ Reached(a) /\ ~LackingAt(a)
  <2>1. ModuleAfterReset(a, c) = AllOutputsReset(modules[a]) /\ ~Lacking(modules[a])
    BY <1>5 DEF ModuleAfterReset, LackingAt
  <2> QED
    BY <1>1, <2>1, AllOutputsResetType DEF Lacking
<1> QED
  BY <1>2, <1>3, <1>4, <1>5

\* clientResetOutputs tells the subscribers of every configured module it
\* changes: as nothing waits, nobody is left out.
LEMMA ResetAnnounced ==
  ASSUME Inv, NEW c \in Sockets, NEW a \in RegisteredUnis, Configured(modules[a]),
         ModuleAfterReset(a, c) # modules[a], NEW S, NEW T
  PROVE  EventsTo(S[a], "outputs", a) \subseteq ResetEvents(c, S, T)
<1>1. modules[a] \in Module /\ modules[a].waiting = <<>> /\ Registered(a) /\ a \in Addrs
  BY InvParts DEF Parts, Registered, RegisteredUnis, Inv, OutputsSettled
<1>2. CASE SeveralSetters
  <2>1. Owned(modules[a], c) # {}
    BY <1>2 DEF ModuleAfterReset, ResetOutputsOfClient
  <2>2. PortsReset(a, c) # {}
    BY <1>1, <1>2, <2>1 DEF PortsReset, RegisteredUnis
  <2>3. S[a] \ Range(modules[a].waiting) = S[a]
    BY <1>1 DEF Range
  <2>4. EventsTo(S[a], "outputs", a) \subseteq OutputsSetEvents(a, modules[a], S[a], T)
    BY <2>3 DEF OutputsSetEvents
  <2> QED
    BY <1>1, <1>2, <2>2, <2>4 DEF ResetEvents
<1>3. CASE ~SeveralSetters
  <2>1. SoleSetter(c) /\ Reached(a)
    BY <1>3 DEF ModuleAfterReset
  <2>2. PortsReset(a, c) # {}
    BY <1>1, <1>3, <2>1, PortsAssumption DEF PortsReset, RegisteredUnis
  <2> QED
    BY <1>1, <1>3, <2>2 DEF ResetEvents
<1> QED
  BY <1>2, <1>3

-----------------------------------------------------------------------------
(* What a step does to the module at an address *)

\* A request of an allowed client.
Asked(c) == c \in clients \cap writeAccess /\ answer'.by = c /\ UNCHANGED subs

LampsStay(a) == lamps'[a] = lamps[a]
Idle(a) == modules'[a] = modules[a] /\ LampsStay(a)

LeftBy(a, c) ==
  /\ Registered(a) /\ Disconnect(c)
  /\ modules'[a] = ClientDisconnected(ModuleAfterReset(a, c), c)
  /\ lamps'[a] = LampsAfterReset(c)[a]
ResetFor(a, c) ==
  /\ Registered(a) /\ Asked(c) /\ ResetMyOutputs(c)
  /\ modules'[a] = ModuleAfterReset(a, c)
  /\ lamps'[a] = LampsAfterReset(c)[a]
  /\ events' = ResetEvents(c, subscribes, topoSubscribes)
LoadedBy(a, c) ==
  /\ Asked(c) /\ LoadConfigFile(c) /\ LampsStay(a)
  /\ \E name \in Names :
       LoadNamed(c, name) /\ modules'[a] = ModuleAfterLoad(files[name].modules, a)
DeletedBy(a, c) ==
  /\ Registered(a) /\ ~modules[a].active /\ answer'.by = c /\ UNCHANGED subs
  /\ modules'[a] = NoModule /\ LampsStay(a) /\ Told(a, "deleted")
ConfiguredBy(a, c, type, config) ==
  /\ Registered(a) /\ Asked(c)
  /\ modules[a].active => type = modules[a].type
  /\ modules[a].cls = "unis" => ~Upgrading(modules[a]) /\ Told(a, "module")
  /\ modules'[a] = JsonSetConfig(modules[a], type, config) /\ LampsStay(a)
RetypedBy(a, c, type) ==
  /\ Registered(a) /\ Asked(c) /\ answer'.status = "error"
  /\ modules[a].active => type = modules[a].type
  /\ modules[a].cls = "unis" => ~Upgrading(modules[a])
  /\ modules'[a] = JsonSetType(modules[a], type) /\ LampsStay(a)
MadeBy(a, c, type) ==
  /\ ~Registered(a) /\ Asked(c) /\ LampsStay(a)
  /\ \/ modules'[a] \in {NewModule(type), JsonSetType(NewModule(type), type)}
     \/ /\ NewModule(type).cls = "unis" => Told(a, "module")
        /\ \E config \in Configs : modules'[a] = JsonSetConfig(NewModule(type), type, config)
SetBy(a, c, req) ==
  /\ Registered(a) /\ Asked(c) /\ OutputsSettable(modules[a])
  /\ modules'[a] = JsonSetOutput(modules[a], c, req)
  /\ lamps'[a] = Show(lamps[a], modules[a], Changed(modules[a], req), req)
  /\ Changed(modules[a], req) # {} =>
       events' = OutputsSetEvents(a, modules[a], subscribes[a], topoSubscribes)
RebootedBy(a, c) ==
  /\ Registered(a) /\ Asked(c) /\ Told(a, "module")
  /\ modules'[a] = Reboot(modules[a]) /\ LampsStay(a)
UpgradedBy(a, c) ==
  /\ Registered(a) /\ Asked(c)
  /\ modules'[a] = [modules[a] EXCEPT !.fw = c] /\ LampsStay(a)
PressedAt(a) ==
  /\ Registered(a) /\ answer'.by = NoSocket /\ LampsStay(a)
  /\ \E pin \in Pins, on \in BOOLEAN : modules'[a] = InputsChanged(modules[a], pin, on)

\* What a client's request may do to the module at a.
RequestedOf(a, c) ==
  \/ ResetFor(a, c) \/ LoadedBy(a, c) \/ DeletedBy(a, c) \/ RebootedBy(a, c) \/ UpgradedBy(a, c)
  \/ \E type \in Types, config \in Configs : ConfiguredBy(a, c, type, config)
  \/ \E type \in Types : MadeBy(a, c, type) \/ RetypedBy(a, c, type)
  \/ \E req \in [Ports -> Values \cup {Keep}] : SetBy(a, c, req)

\* The process starts or ends.
TurnedOnOrOff == answer'.by = NoSocket /\ (daemon # "running" \/ daemon' # "running")

\* Requests are served by a running process.
LEMMA RequestRuns ==
  ASSUME NEW c \in Sockets, Request(c)
  PROVE  daemon = "running" /\ daemon' = "running"
<1>1. daemon' = daemon /\ (Subscribing(c) \/ Configuring(c) \/ Operating(c) \/ Asking(c))
  BY DEF Request
<1>2. Subscribing(c) => daemon = "running"
  BY DEF Subscribing, ModuleSubscribe, ModuleUnsubscribe, MyModuleSubscribes, TopoSubscribe,
     TopoUnsubscribe, Serve
<1>3. Configuring(c) => daemon = "running"
  <2>1. ASSUME NEW a, NEW type, NEW config, NEW name, ModuleSetConfig(c, a, type, config, name)
        PROVE  daemon = "running"
    BY <2>1 DEF ModuleSetConfig, Serve
  <2> QED
    BY <2>1 DEF Configuring, SaveConfigFile, LoadConfigFile, ModuleDelete, Serve
<1>4. Operating(c) => daemon = "running"
  BY DEF Operating, ModuleSetOutputs, ResetMyOutputs, ModuleReboot, ModuleUpgradeFw, Serve
<1>5. Asking(c) => daemon = "running"
  BY DEF Asking, ModuleBeacon, ModuleSetAddress, SpecificCommand, Version, ModulesQuery,
     SetAddress, Unserved, ModuleQuery, ModuleDiag, MtbUsbQuery, Serve
<1> QED
  BY <1>1, <1>2, <1>3, <1>4, <1>5

LEMMA JustAnswerIdle ==
  ASSUME NEW c \in Sockets, NEW status, JustAnswer(c, status), NEW a \in Addrs
  PROVE  Idle(a)
BY DEF JustAnswer, registry, Idle, LampsStay

LEMMA RefusedIdle ==
  ASSUME NEW c \in Sockets, NEW b, Refused(c, b) \/ Denied(c), NEW a \in Addrs
  PROVE  Idle(a)
BY JustAnswerIdle DEF Refused, Denied

LEMMA SubscribingIdle ==
  ASSUME NEW c \in Sockets, Subscribing(c), NEW a \in Addrs
  PROVE  Idle(a)
BY DEF Subscribing, ModuleSubscribe, ModuleUnsubscribe, MyModuleSubscribes, TopoSubscribe,
   TopoUnsubscribe, JustAnswer, registry, Idle, LampsStay

LEMMA AskingIdle ==
  ASSUME NEW c \in Sockets, Asking(c), NEW a \in Addrs
  PROVE  Idle(a)
BY DEF Asking, ModuleBeacon, ModuleSetAddress, SpecificCommand, Version, ModulesQuery, SetAddress,
   Unserved, ModuleQuery, ModuleDiag, MtbUsbQuery, Refused, Denied, JustAnswer, registry, Idle, LampsStay

\* A handler that replaces the object at b leaves the module at a alone, or a
\* is b.
LEMMA ReplaceOther ==
  ASSUME Inv, NEW b \in Addrs, NEW m, Replace(b, m), NEW a \in Addrs
  PROVE  /\ LampsStay(a) /\ UNCHANGED subs
         /\ a # b => Idle(a)
         /\ modules'[b] = m
BY InvParts DEF Parts, Replace, Idle, LampsStay

\* What load_config loads has entries for this address space.
LEMMA LoadedEntries ==
  ASSUME NEW a \in Addrs, NEW c, LoadedBy(a, c)
  PROVE  \E f \in Entries : modules'[a] = ModuleAfterLoad(f, a)
BY ReadableType DEF LoadedBy, LoadNamed

\* load_config reaches every address, module_delete one.
LEMMA LoadConfigFileChanges ==
  ASSUME NEW c \in Sockets, LoadConfigFile(c), NEW a \in Addrs
  PROVE  Idle(a) \/ LoadedBy(a, c)
<1>1. CASE Denied(c) \/ JustAnswer(c, "error")
  BY <1>1, RefusedIdle, JustAnswerIdle
<1>2. ASSUME NEW name \in Names, LoadNamed(c, name) PROVE LoadedBy(a, c)
  <2>1. Asked(c)
    BY <1>2 DEF LoadNamed, AllowClients, Answer, Asked, Allowed, LoadConfigFile, Serve
  <2>3. modules'[a] = ModuleAfterLoad(files[name].modules, a)
    BY <1>2 DEF LoadNamed
  <2> QED
    BY <1>2, <2>1, <2>3 DEF LoadNamed, LoadedBy, LampsStay
<1> QED
  BY <1>1, <1>2 DEF LoadConfigFile

LEMMA ModuleDeleteChanges ==
  ASSUME Inv, NEW c \in Sockets, NEW b \in Addrs, ModuleDelete(c, b), NEW a \in Addrs
  PROVE  Idle(a) \/ DeletedBy(a, c)
<1>1. CASE JustAnswer(c, "error")
  BY <1>1, JustAnswerIdle
<1>2. CASE /\ Registered(b) /\ ~modules[b].active /\ Replace(b, NoModule)
           /\ Answer(c, "ok", EventsTo((topoSubscribes \cup subscribes[b]) \ {c}, "deleted", b))
  BY <1>2, ReplaceOther DEF DeletedBy, Told, Subscribed, Answer
<1> QED
  BY <1>1, <1>2 DEF ModuleDelete

\* module_set_config configures the module, makes one, or both.
LEMMA ModuleSetConfigChanges ==
  ASSUME Inv, NEW c \in Sockets, NEW b \in Addrs, NEW type \in TypeCodes \cup {Absent},
         NEW config \in SafeOutputs \cup {Absent}, NEW name,
         ModuleSetConfig(c, b, type, config, name), NEW a \in Addrs
  PROVE  \/ Idle(a)
         \/ \E t \in Types, conf \in Configs : ConfiguredBy(a, c, t, conf)
         \/ \E t \in Types : MadeBy(a, c, t) \/ RetypedBy(a, c, t)
<1> DEFINE m   == IF Registered(b) THEN modules[b] ELSE NewModule(type)
           t   == IF type = Absent THEN m.type ELSE type
           cnf == IF config = Absent THEN AllZero ELSE config
           new == JsonSetConfig(m, t, cnf)
<1>1. CASE Denied(c) \/ JustAnswer(c, "error")
  BY <1>1, RefusedIdle, JustAnswerIdle
<1>2. CASE /\ Allowed(c) /\ type # Invalid /\ (Registered(b) \/ type # Absent)
           /\ m.active => t = m.type
           /\ answer'.by = c
           /\ \/ Replace(b, new) /\ m.cls = "base"
              \/ Replace(b, m)
              \/ /\ Replace(b, JsonSetType(m, t)) /\ answer'.status = "error"
                 /\ m.cls = "unis" => ~Upgrading(m)
              \/ /\ Replace(b, new) /\ m.cls = "unis" /\ ~Upgrading(m) /\ config # Invalid
                 /\ events' = ModuleInfo(b, c)
  <2>1. Asked(c)
    BY <1>2 DEF Asked, Allowed, Replace, ModuleSetConfig, Serve
  <2>2. a # b => Idle(a)
    BY <1>2, ReplaceOther
  <2>3. m \in Module /\ t \in Types /\ (Registered(b) => m = modules[b])
    BY <1>2, InvParts, NewModuleType, InputsAssumption DEF Parts, Registered, Module
  <2>4. ~Registered(b) => m = NewModule(t) /\ type \in Types /\ t = type
    BY <1>2, InputsAssumption
  <2>5. m.active => t = m.type
    BY <1>2
  <2>6. AllZero \in Configs
    BY AllZeroType
  <2> HIDE DEF m, t, cnf
  <2>7. m.cls = "base" => new = JsonSetConfig(m, t, AllZero)
    BY DEF JsonSetConfig
  <2>8. config # Invalid => cnf \in Configs
    BY AllZeroType, InputsAssumption DEF cnf
  <2>9. events' = ModuleInfo(b, c) => Told(b, "module")
    BY <1>2 DEF Told, ModuleInfo, Subscribed
  <2>10. LampsStay(b)
    BY <1>2, ReplaceOther
  <2> HIDE DEF new
  <2>11. CASE Replace(b, m)
    <3>1. modules'[b] = m
      BY <2>11, ReplaceOther
    <3>2. CASE Registered(b)
      BY <2>3, <2>2, <2>10, <3>1, <3>2 DEF Idle
    <3>3. CASE ~Registered(b)
      BY <2>1, <2>2, <2>3, <2>4, <2>10, <3>1, <3>3 DEF MadeBy
    <3> QED
      BY <3>2, <3>3
  <2>12. CASE /\ Replace(b, new)
              /\ \/ m.cls = "base"
                 \/ /\ m.cls = "unis" /\ ~Upgrading(m) /\ config # Invalid
                    /\ events' = ModuleInfo(b, c)
    <3>1. PICK conf \in Configs : modules'[b] = JsonSetConfig(m, t, conf)
      BY <2>6, <2>7, <2>8, <2>12, ReplaceOther DEF new
    <3>2. m.cls = "unis" => ~Upgrading(m) /\ Told(b, "module")
      BY <2>9, <2>12
    <3>3. CASE Registered(b)
      BY <2>1, <2>2, <2>3, <2>5, <2>10, <3>1, <3>2, <3>3 DEF ConfiguredBy
    <3>4. CASE ~Registered(b)
      BY <2>1, <2>2, <2>3, <2>4, <2>10, <3>1, <3>2, <3>4 DEF MadeBy
    <3> QED
      BY <3>3, <3>4
  <2>13. CASE /\ Replace(b, JsonSetType(m, t)) /\ answer'.status = "error"
              /\ m.cls = "unis" => ~Upgrading(m)
    <3>1. modules'[b] = JsonSetType(m, t)
      BY <2>13, ReplaceOther
    <3>2. CASE Registered(b)
      BY <2>1, <2>2, <2>3, <2>5, <2>10, <2>13, <3>1, <3>2 DEF RetypedBy
    <3>3. CASE ~Registered(b)
      BY <2>1, <2>2, <2>3, <2>4, <2>10, <3>1, <3>3 DEF MadeBy
    <3> QED
      BY <3>2, <3>3
  <2> QED
    BY <1>2, <2>11, <2>12, <2>13 DEF new, cnf, t, m
<1> QED
  BY <1>1, <1>2 DEF ModuleSetConfig, Answer

LEMMA ConfiguringChanges ==
  ASSUME Inv, NEW c \in Sockets, Configuring(c), NEW a \in Addrs
  PROVE  Idle(a) \/ RequestedOf(a, c)
<1>1. CASE SaveConfigFile(c)
  BY <1>1, RefusedIdle, JustAnswerIdle DEF SaveConfigFile, Idle, LampsStay, registry
<1>2. CASE LoadConfigFile(c)
  BY <1>2, LoadConfigFileChanges DEF RequestedOf
<1>3. ASSUME NEW b \in Addrs, ModuleDelete(c, b) PROVE Idle(a) \/ RequestedOf(a, c)
  BY <1>3, ModuleDeleteChanges DEF RequestedOf
<1>4. ASSUME NEW b \in Addrs, NEW type \in TypeCodes \cup {Absent},
             NEW config \in SafeOutputs \cup {Absent}, NEW name \in {Absent, Invalid},
             ModuleSetConfig(c, b, type, config, name)
      PROVE  Idle(a) \/ RequestedOf(a, c)
  BY <1>4, ModuleSetConfigChanges DEF RequestedOf
<1> QED
  BY <1>1, <1>2, <1>3, <1>4 DEF Configuring

\* The two handlers that set and reset outputs, and the two that only send.
LEMMA ModuleSetOutputsChanges ==
  ASSUME Inv, NEW c \in Sockets, NEW b \in Addrs, NEW req \in Requests \cup {Invalid},
         ModuleSetOutputs(c, b, req), NEW a \in Addrs
  PROVE  Idle(a) \/ \E r \in [Ports -> Values \cup {Keep}] : SetBy(a, c, r)
<1>1. CASE Refused(c, b) \/ JustAnswer(c, "error")
  BY <1>1, RefusedIdle, JustAnswerIdle
<1>2. CASE /\ Accepted(c, b) /\ OutputsSettable(modules[b]) /\ req # Invalid
           /\ modules' = [modules EXCEPT ![b] = JsonSetOutput(modules[b], c, req)]
           /\ lamps' = [lamps EXCEPT ![b] = Show(@, modules[b], Changed(modules[b], req), req)]
           /\ IF Changed(modules[b], req) = {} THEN Answer(c, "ok", {})
              ELSE Answer(c, "none", OutputsSetEvents(b, modules[b], subscribes[b], topoSubscribes))
           /\ UNCHANGED <<subs, access, files>>
  <2>1. req \in [Ports -> Values \cup {Keep}]
    BY <1>2, InputsAssumption
  <2>2. a # b => Idle(a)
    BY <1>2, InvParts DEF Parts, Idle, LampsStay
  <2>3. Asked(c)
    BY <1>2 DEF Asked, Accepted, Allowed, Answer, ModuleSetOutputs, Serve
  <2>4. /\ modules'[b] = JsonSetOutput(modules[b], c, req)
        /\ lamps'[b] = Show(lamps[b], modules[b], Changed(modules[b], req), req)
    BY <1>2, InvParts DEF Parts
  <2>5. SetBy(b, c, req)
    BY <1>2, <2>3, <2>4 DEF SetBy, Accepted, Answer
  <2> QED
    BY <2>1, <2>2, <2>5
<1> QED
  BY <1>1, <1>2 DEF ModuleSetOutputs

LEMMA ResetMyOutputsChanges ==
  ASSUME NEW c \in Sockets, ResetMyOutputs(c), NEW a \in Addrs
  PROVE  \/ Denied(c) /\ Idle(a)
         \/ Registered(a) /\ ResetFor(a, c)
         \/ ~Registered(a) /\ Idle(a)
<1>1. CASE Denied(c)
  BY <1>1, RefusedIdle
<1>2. CASE /\ Allowed(c) /\ modules' = ModulesAfterReset(c) /\ lamps' = LampsAfterReset(c)
           /\ answer'.by = c /\ events' = ResetEvents(c, subscribes, topoSubscribes)
           /\ UNCHANGED <<subs, access, files>>
  <2>1. Asked(c)
    BY <1>2 DEF Asked, Allowed, ResetMyOutputs, Serve
  <2>2. CASE Registered(a)
    BY <1>2, <2>1, <2>2 DEF ResetFor, ModulesAfterReset
  <2>3. CASE ~Registered(a)
    BY <1>2, <2>3 DEF Idle, LampsStay, ModulesAfterReset, LampsAfterReset, PortsReset, Registered
  <2> QED
    BY <2>2, <2>3
<1> QED
  BY <1>1, <1>2 DEF ResetMyOutputs, Answer

LEMMA ModuleRebootChanges ==
  ASSUME Inv, NEW c \in Sockets, NEW b \in Addrs, ModuleReboot(c, b), NEW a \in Addrs
  PROVE  Idle(a) \/ RebootedBy(a, c)
<1>1. CASE Refused(c, b) \/ JustAnswer(c, "error")
  BY <1>1, RefusedIdle, JustAnswerIdle
<1>2. CASE /\ Accepted(c, b) /\ Replace(b, Reboot(modules[b]))
           /\ Answer(c, "none", ModuleInfo(b, NoSocket))
  <2>1. Asked(c)
    BY <1>2, ReplaceOther DEF Asked, Accepted, Allowed, Answer, ModuleReboot, Serve
  <2>2. NoSocket \notin Subscribed(b)
    BY InvParts, SocketsAssumption DEF Parts, Subscribers, Subscribed
  <2>3. Told(b, "module")
    BY <1>2, <2>2 DEF Answer, Told, ModuleInfo, Subscribed, EventsTo
  <2> QED
    BY <1>2, <2>1, <2>3, ReplaceOther DEF RebootedBy, Accepted
<1> QED
  BY <1>1, <1>2 DEF ModuleReboot

LEMMA ModuleUpgradeFwChanges ==
  ASSUME Inv, NEW c \in Sockets, NEW b \in Addrs, NEW firmware, ModuleUpgradeFw(c, b, firmware),
         NEW a \in Addrs
  PROVE  Idle(a) \/ UpgradedBy(a, c)
<1>1. CASE Refused(c, b) \/ JustAnswer(c, "error")
  BY <1>1, RefusedIdle, JustAnswerIdle
<1>2. CASE Accepted(c, b) /\ Replace(b, [modules[b] EXCEPT !.fw = c]) /\ answer'.by = c
  <2>1. Asked(c)
    BY <1>2, ReplaceOther DEF Asked, Accepted, Allowed, ModuleUpgradeFw, Serve
  <2> QED
    BY <1>2, <2>1, ReplaceOther DEF UpgradedBy, Accepted
<1> QED
  BY <1>1, <1>2 DEF ModuleUpgradeFw, FwUpgdInit, Answer

LEMMA OperatingChanges ==
  ASSUME Inv, NEW c \in Sockets, Operating(c), NEW a \in Addrs
  PROVE  Idle(a) \/ RequestedOf(a, c)
BY ModuleSetOutputsChanges, ResetMyOutputsChanges, ModuleRebootChanges, ModuleUpgradeFwChanges
   DEF Operating, RequestedOf

\* Every step, and what it does to the module at an address.
LEMMA NextChanges ==
  ASSUME Inv, Next, NEW a \in Addrs
  PROVE  \/ TurnedOnOrOff
         \/ Idle(a)
         \/ PressedAt(a)
         \/ \E c \in Sockets : LeftBy(a, c) \/ RequestedOf(a, c)
<1>1. CASE \/ Stop
           \/ \E c \in Sockets : DisconnectTerminates(c) \/ StopWhileSaving(c) \/ SpecificCommandEnds(c)
  BY <1>1 DEF Stop, DisconnectTerminates, StopWhileSaving, SpecificCommandEnds, Serve, Offline, TurnedOnOrOff, Silent, Answer
<1>2. CASE FirstStart \/ StartLoaded \/ StartRefused \/ StartWithoutServer
  BY <1>2 DEF FirstStart, StartLoaded, StartRefused, StartWithoutServer, TurnedOnOrOff, Silent, Answer
<1>3. CASE \E c \in Sockets : Connect(c)
  BY <1>3 DEF Connect, registry, Idle, LampsStay
<1>4. ASSUME NEW c \in Sockets, Disconnect(c) PROVE LeftBy(a, c) \/ Idle(a)
  <2>1. CASE Registered(a)
    BY <1>4, <2>1 DEF LeftBy, Disconnect, ModulesAfterReset
  <2>2. CASE ~Registered(a)
    BY <1>4, <2>2 DEF Disconnect, Idle, LampsStay, LampsAfterReset, PortsReset, Registered
  <2> QED
    BY <2>1, <2>2
<1>5. ASSUME NEW c \in Sockets, Request(c) PROVE Idle(a) \/ RequestedOf(a, c)
  BY <1>5, SubscribingIdle, ConfiguringChanges, OperatingChanges, AskingIdle DEF Request
<1>6. ASSUME NEW b \in Addrs, NEW pin \in Pins, NEW on \in BOOLEAN, SimOnInputChanged(b, pin, on)
      PROVE  Idle(a) \/ PressedAt(a)
  <2>1. CASE UNCHANGED registry
    BY <2>1 DEF registry, Idle, LampsStay
  <2>2. CASE Registered(b) /\ Replace(b, InputsChanged(modules[b], pin, on)) /\ answer'.by = NoSocket
    BY <2>2, ReplaceOther DEF PressedAt
  <2> QED
    BY <1>6, <2>1, <2>2 DEF SimOnInputChanged, Silent, Answer
<1> QED
  BY <1>1, <1>2, <1>3, <1>4, <1>5, <1>6 DEF Next

-----------------------------------------------------------------------------
(* Which handlers touch the outputs of a module *)

\* The outputs of the module at a are the same after the step.
Untouched(a) ==
  modules'[a] # NoModule =>
    /\ modules'[a].want = modules[a].want /\ modules'[a].who = modules[a].who
    /\ modules'[a].confirmed = modules[a].confirmed

\* They changed in one of the three handlers that set them.
ResetBy(a, c) ==
  /\ modules'[a].want = ModuleAfterReset(a, c).want
  /\ modules'[a].who = ModuleAfterReset(a, c).who
TouchedBy(a, c) ==
  \/ c \notin clients' /\ ResetBy(a, c)
  \/ answer'.by = c /\ ResetBy(a, c)
  \/ /\ answer'.by = c
     /\ \A p \in Ports : \/ /\ modules'[a].want[p] = modules[a].want[p]
                            /\ modules'[a].who[p] = modules[a].who[p]
                         \/ modules'[a].who[p] = c

\* Loading changes no output of a module that was there.
LEMMA LoadUntouched ==
  ASSUME Inv, NEW f \in Entries, NEW a \in Addrs, Registered(a)
  PROVE  /\ ModuleAfterLoad(f, a).want = modules[a].want
         /\ ModuleAfterLoad(f, a).who = modules[a].who
         /\ ModuleAfterLoad(f, a).confirmed = modules[a].confirmed
         /\ ModuleAfterLoad(f, a).cls = modules[a].cls
         /\ ModuleAfterLoad(f, a).type = modules[a].type
<1>1. modules[a] \in Module
  BY InvParts DEF Parts, Registered
<1>2. CASE ~Applies(f, a) \/ \E b \in Addrs : b < a /\ Fails(f, b)
  BY <1>2 DEF ModuleAfterLoad
<1>3. CASE Applies(f, a) /\ ~\E b \in Addrs : b < a /\ Fails(f, b)
  <2>1. f[a] \in Entry /\ modules[a].type = f[a].type
    BY <1>3 DEF Applies, Entries
  <2>2. ModuleAfterLoad(f, a) = LoadConfig(modules[a], f[a])
    BY <1>3 DEF ModuleAfterLoad, Target
  <2> QED
    BY <1>1, <2>1, <2>2, LoadConfigType DEF OutputsAlone
<1> QED
  BY <1>2, <1>3

\* A departing client touches outputs as clientResetOutputs does.
LEMMA DisconnectTouches ==
  ASSUME Inv, NEW c \in Sockets, Disconnect(c), NEW a \in Addrs, Registered(a)
  PROVE  ResetBy(a, c) /\ c \notin clients'
<1> DEFINE m == ModuleAfterReset(a, c)
<1>1. ModulesAfterReset(c)[a] = m
  BY DEF ModulesAfterReset
<1>2. m \in Module
  BY <1>1, ResetKeeps DEF Good
<1>3. modules'[a] = ClientDisconnected(m, c)
  BY <1>1 DEF Disconnect
<1> HIDE DEF m
<1>4. modules'[a].want = m.want /\ modules'[a].who = m.who
  BY <1>2, <1>3, ClientDisconnectedType DEF OutputsAlone
<1> QED
  BY <1>4 DEF ResetBy, m, Disconnect

\* A press leaves the outputs alone.
LEMMA PressUntouched ==
  ASSUME Inv, NEW a \in Addrs, PressedAt(a)
  PROVE  Untouched(a)
BY InputsChangedType, InvParts DEF PressedAt, Untouched, OutputsAlone, Parts, Registered

\* Every request but the two that set and reset outputs leaves those of a
\* module that was there alone.
LEMMA OtherRequestsUntouched ==
  ASSUME Inv, NEW c \in Sockets, NEW a \in Addrs, Registered(a),
         RequestedOf(a, c), ~ResetFor(a, c)
  PROVE  Untouched(a) \/ \E req \in [Ports -> Values \cup {Keep}] : SetBy(a, c, req)
<1>1. modules[a] \in Module
  BY InvParts DEF Parts, Registered
<1>2. CASE LoadedBy(a, c)
  BY <1>2, LoadedEntries, LoadUntouched DEF Untouched
<1>3. CASE DeletedBy(a, c)
  BY <1>3 DEF DeletedBy, Untouched
<1>4. CASE RebootedBy(a, c)
  BY <1>1, <1>4, RebootType DEF RebootedBy, Untouched, OutputsAlone
<1>5. CASE UpgradedBy(a, c)
  BY <1>1, <1>5, UpgradeType DEF UpgradedBy, Untouched, OutputsAlone
<1>6. ASSUME NEW type \in Types, NEW config \in Configs, ConfiguredBy(a, c, type, config)
      PROVE  Untouched(a)
  BY <1>1, <1>6, JsonSetConfigType DEF ConfiguredBy, Untouched, OutputsAlone
<1>7. ASSUME NEW type, MadeBy(a, c, type) PROVE FALSE
  BY <1>7 DEF MadeBy
<1>8. ASSUME NEW type \in Types, RetypedBy(a, c, type) PROVE Untouched(a)
  BY <1>1, <1>8, JsonSetTypeType DEF RetypedBy, Untouched, OutputsAlone
<1> QED
  BY <1>2, <1>3, <1>4, <1>5, <1>6, <1>7, <1>8 DEF RequestedOf

\* No handler but the three touches the outputs of a module that stays
\* registered.
LEMMA NextTouches ==
  ASSUME Inv, Next, NEW a \in Addrs, Registered(a)
  PROVE  Untouched(a) \/ \E c \in Sockets : TouchedBy(a, c)
<1>1. CASE TurnedOnOrOff
  <2>1. daemon = "running"
    BY InvParts DEF Parts, Quiet, Registered
  <2>2. Inv'
    BY NextKeeps
  <2> QED
    BY <1>1, <2>1, <2>2 DEF TurnedOnOrOff, Inv, Quiet, Untouched
<1>2. CASE Idle(a)
  BY <1>2 DEF Idle, Untouched
<1>3. CASE PressedAt(a)
  BY <1>3, PressUntouched
<1>4. ASSUME NEW c \in Sockets, LeftBy(a, c) PROVE TouchedBy(a, c)
  BY <1>4, DisconnectTouches DEF LeftBy, TouchedBy
<1>5. ASSUME NEW c \in Sockets, ResetFor(a, c) PROVE TouchedBy(a, c)
  BY <1>5 DEF ResetFor, Asked, TouchedBy, ResetBy
<1>6. ASSUME NEW c \in Sockets, NEW req \in [Ports -> Values \cup {Keep}], SetBy(a, c, req)
      PROVE  TouchedBy(a, c)
  BY <1>6, JsonSetOutputType, InvParts DEF SetBy, Asked, TouchedBy, Parts, Registered
<1> QED
  BY <1>1, <1>2, <1>3, <1>4, <1>5, <1>6, OtherRequestsUntouched, NextChanges

-----------------------------------------------------------------------------
(* Theorems *)

\* A connected client's outputs change by its own request or by another
\* client's explicit setting, never by what another client's departure or
\* reset does.
THEOREM ClientsIsolated == Spec => Isolation
<1>1. ASSUME Inv, Next PROVE IsolatedStep
  <2> SUFFICES ASSUME NEW a \in RegisteredUnis, NEW p \in Ports, Survives(a),
                      Owner(a, p) \in clients \cap clients'
               PROVE  \/ /\ modules'[a].want[p] = modules[a].want[p]
                         /\ modules'[a].who[p] = modules[a].who[p]
                      \/ answer'.by \in {Owner(a, p), modules'[a].who[p]} \ {NoSocket}
    BY DEF IsolatedStep
  <2>1. a \in Addrs /\ Registered(a) /\ modules'[a] # NoModule
    BY DEF RegisteredUnis, Survives
  <2>2. Owner(a, p) = modules[a].who[p] /\ Owner(a, p) \in Sockets
    BY <1>1, <2>1, InvParts DEF Owner, Parts
  <2>3. CASE Untouched(a)
    BY <2>1, <2>3 DEF Untouched
  <2>4. ASSUME NEW c \in Sockets, TouchedBy(a, c), Owner(a, p) # c
        PROVE  \/ /\ modules'[a].want[p] = modules[a].want[p]
                  /\ modules'[a].who[p] = modules[a].who[p]
               \/ answer'.by = c /\ modules'[a].who[p] = c
    BY <1>1, <2>2, <2>4, ResetOnlyOwn DEF TouchedBy, ResetBy
  <2>5. ASSUME NEW c \in Sockets, TouchedBy(a, c), Owner(a, p) = c
        PROVE  answer'.by = c
    BY <2>5 DEF TouchedBy
  <2> QED
    BY <1>1, <2>1, <2>3, <2>4, <2>5, NextTouches, SocketsAssumption
<1>2. Inv /\ [Next]_vars => [IsolatedStep]_vars
  BY <1>1
<1> QED
  BY <1>2, Invariance, PTL DEF Spec, Isolation

\* Next takes a client off the list, with the daemon running before and after,
\* only in Disconnect.
LEMMA OnlyDisconnectRemoves ==
  ASSUME Inv, Next, NEW c \in clients \ clients', daemon' = "running"
  PROVE  Disconnect(c)
<1>1. c \in Sockets /\ daemon = "running"
  BY InvParts DEF Parts, Quiet
<1>2. ~(Stop \/ FirstStart \/ StartLoaded \/ StartRefused \/ StartWithoutServer)
  BY <1>1 DEF Stop, FirstStart, StartLoaded, StartRefused, StartWithoutServer
<1>3. ~\E d \in Sockets : \/ Connect(d) \/ DisconnectTerminates(d) \/ StopWhileSaving(d)
                           \/ SpecificCommandEnds(d)
  BY DEF Connect, DisconnectTerminates, StopWhileSaving, SpecificCommandEnds
<1>4. ~\E d \in Sockets : Request(d)
  BY DEF Request
<1>5. ASSUME NEW d \in Sockets, Disconnect(d) PROVE d = c
  BY <1>5 DEF Disconnect
<1> QED
  BY <1>2, <1>3, <1>4, <1>5 DEF Next

\* When every MTB-UNIS has a configuration, a departing client leaves the
\* daemon running and each of its outputs safe and free.
THEOREM DepartureReleases == Spec => DisconnectReleases
<1>1. ASSUME Inv, Next PROVE ReleasingStep
  <2> SUFFICES ASSUME NEW c \in clients \ clients', AllConfigured,
                      daemon' = "running" \/ DisconnectTerminates(c)
               PROVE  /\ daemon' = "running"
                      /\ \A a \in RegisteredUnis, p \in Ports : Owner(a, p) = c =>
                           /\ modules'[a].want[p] = modules[a].config[p]
                           /\ modules'[a].who[p] = NoSocket
    BY DEF ReleasingStep
  <2>1. c \in Sockets
    BY <1>1, InvParts DEF Parts
  <2>2. ~DisconnectTerminates(c)
    BY <1>1, <2>1, ResetReleases DEF DisconnectTerminates
  <2>3. Disconnect(c)
    BY <1>1, <2>2, OnlyDisconnectRemoves
  <2>4. ASSUME NEW a \in RegisteredUnis, NEW p \in Ports, Owner(a, p) = c
        PROVE  /\ modules'[a].want[p] = modules[a].config[p]
               /\ modules'[a].who[p] = NoSocket
    <3>1. a \in Addrs /\ Registered(a) /\ modules[a].who[p] = c
      BY <2>4 DEF RegisteredUnis, Owner
    <3> QED
      BY <1>1, <2>1, <2>3, <3>1, DisconnectTouches, ResetReleases DEF ResetBy
  <2> QED
    BY <2>2, <2>4
<1>2. Inv /\ [Next]_vars => [ReleasingStep]_vars
  BY <1>1
<1> QED
  BY <1>2, Invariance, PTL DEF Spec, DisconnectReleases

\* load_config keeps every registered module, its class and its type.
THEOREM LoadKeepsModules == Spec => LoadNeverRetypes
<1>1. ASSUME Inv PROVE LoadKeepsTypes
  <2> SUFFICES ASSUME NEW c \in clients, LoadConfigFile(c), NEW a \in Addrs, Registered(a)
               PROVE  /\ modules'[a] # NoModule
                      /\ modules'[a].cls = modules[a].cls /\ modules'[a].type = modules[a].type
    BY DEF LoadKeepsTypes
  <2>1. CASE UNCHANGED registry
    BY <2>1 DEF registry, Registered
  <2>2. ASSUME NEW name \in Names, Readable(name),
               modules' = [b \in Addrs |-> ModuleAfterLoad(files[name].modules, b)]
        PROVE  /\ modules'[a] # NoModule
               /\ modules'[a].cls = modules[a].cls /\ modules'[a].type = modules[a].type
    <3>1. files[name].modules \in Entries
      BY <2>2, ReadableType
    <3> QED
      BY <1>1, <2>2, <3>1, LoadUntouched, LoadKeeps
  <2> QED
    BY <2>1, <2>2 DEF LoadConfigFile, LoadNamed, Denied, JustAnswer
<1>2. Inv /\ [Next]_vars => [LoadKeepsTypes]_vars
  BY <1>1
<1> QED
  BY <1>2, Invariance, PTL DEF Spec, LoadNeverRetypes

-----------------------------------------------------------------------------
(* Starting *)

\* A start loads an entry into a fresh object, which throws only if the entry
\* names a MTB-UNIS and has no readable configuration.
LEMMA FreshLoad ==
  ASSUME Inv, NEW f \in Entries, daemon # "running", NEW a \in Addrs
  PROVE  /\ ~Registered(a)
         /\ Applies(f, a) <=> f[a] # NoEntry
         /\ Fails(f, a) <=> f[a] # NoEntry /\ f[a].type = "Unis10" /\ ~Parsable(f[a].config)
<1>1. ~Registered(a)
  BY InvParts DEF Parts, Quiet, Registered
<1>2. Applies(f, a) <=> f[a] # NoEntry
  BY <1>1 DEF Applies
<1>3. ASSUME f[a] # NoEntry
      PROVE  Target(f, a) = NewModule(f[a].type) /\ f[a].type \in Types
  BY <1>1, <1>3 DEF Target, Entries, Entry
<1> QED
  BY <1>1, <1>2, <1>3, NewModuleType DEF Fails, LoadThrows

\* The daemon refuses only a truncated file, or one with an incoherent
\* MTB-UNIS entry or without a usable "server".
THEOREM RefusalsExplained == Spec => []RefusedOnlyIncoherent
<1>1. Init => RefusedOnlyIncoherent
  BY DEF Init, RefusedOnlyIncoherent
<1>2. ASSUME Inv, RefusedOnlyIncoherent, [Next]_vars PROVE RefusedOnlyIncoherent'
  <2> DEFINE f == files[ConfigFileName]
  <2> SUFFICES ASSUME daemon' = "refused" PROVE RefusedOnlyIncoherent'
    BY DEF RefusedOnlyIncoherent
  <2>1. CASE daemon = "refused" /\ files' = files
    BY <1>2, <2>1 DEF RefusedOnlyIncoherent, Readable
  <2>2. CASE StartRefused
    <3>0. files' = files /\ f # NoFile /\ ~Loads(ConfigFileName) /\ daemon # "running"
      BY <2>2 DEF StartRefused, FileMissing
    <3>1. CASE ~Readable(ConfigFileName)
      <4>1. f = Truncated
        BY <1>2, <3>0, <3>1, InvParts, FilesAssumption DEF Readable, Parts
      <4> QED
        BY <3>0, <4>1 DEF RefusedOnlyIncoherent
    <3>2. CASE Readable(ConfigFileName) /\ LoadFails(f.modules)
      <4>1. \E a \in Addrs : /\ f.modules[a] # NoEntry /\ f.modules[a].type = "Unis10"
                             /\ ~Parsable(f.modules[a].config)
        BY <1>2, <3>0, <3>2, ReadableType, FreshLoad DEF LoadFails
      <4> QED
        BY <3>0, <3>2, <4>1 DEF RefusedOnlyIncoherent, Coherent, Readable
    <3>3. CASE Readable(ConfigFileName) /\ f.server # "complete"
      BY <3>0, <3>3 DEF RefusedOnlyIncoherent, Readable
    <3> QED
      BY <3>0, <3>1, <3>2, <3>3 DEF Loads
  <2>3. CASE UNCHANGED vars
    BY <2>1, <2>3 DEF vars
  <2>4. ASSUME NEW c \in Sockets, Request(c) PROVE FALSE
    BY <2>4, RequestRuns
  <2>5. ASSUME NEW c \in Sockets,
               \/ Connect(c) \/ Disconnect(c) \/ DisconnectTerminates(c) \/ StopWhileSaving(c)
               \/ SpecificCommandEnds(c)
        PROVE  FALSE
    BY <2>5 DEF Connect, Disconnect, DisconnectTerminates, StopWhileSaving, SpecificCommandEnds
  <2>6. ASSUME NEW a \in Addrs, NEW pin \in Pins, NEW on \in BOOLEAN,
               SimOnInputChanged(a, pin, on), UNCHANGED <<daemon, clients>>
        PROVE  FALSE
    BY <2>6 DEF SimOnInputChanged
  <2>7. CASE Stop \/ FirstStart \/ StartLoaded \/ StartWithoutServer
    BY <2>7 DEF Stop, FirstStart, StartLoaded, StartWithoutServer
  <2> QED
    BY <1>2, <2>2, <2>3, <2>4, <2>5, <2>6, <2>7 DEF Next
<1> QED
  BY <1>1, <1>2, Invariance, PTL DEF Spec

\* A start restores every coherently saved module.
THEOREM StartRestores == Spec => RestartRestores
<1>1. ASSUME Inv, Next PROVE RestoringStep
  <2> DEFINE f == files[ConfigFileName].modules
  <2> SUFFICES ASSUME daemon # "running", daemon' = "running", Readable(ConfigFileName)
               PROVE  /\ settings' = files[ConfigFileName].server
                      /\ \A a \in Addrs : f[a] # NoEntry /\ Coherent(f[a]) =>
                           /\ modules'[a] # NoModule
                           /\ SaveConfig(modules'[a]) = f[a] /\ modules'[a].active
    BY DEF RestoringStep
  <2>1. StartLoaded
    <3>1. ~FileMissing
      BY FilesAssumption DEF Readable, FileMissing
    <3> QED
      BY <1>1, <3>1 DEF Next, Stop, FirstStart, StartRefused, StartWithoutServer, Connect, Disconnect,
         DisconnectTerminates, StopWhileSaving, SpecificCommandEnds, Request, SimOnInputChanged
  <2>10. settings' = files[ConfigFileName].server
    BY <2>1 DEF StartLoaded
  <2>11. f \in Entries /\ ~LoadFails(f)
    BY <2>1, ReadableType DEF StartLoaded, Loads
  <2>12. modules' = [a \in Addrs |-> ModuleAfterLoad(f, a)]
    BY <2>1 DEF StartLoaded
  <2> HIDE DEF f
  <2> SUFFICES ASSUME NEW a \in Addrs, f[a] # NoEntry, Coherent(f[a])
               PROVE  /\ modules'[a] # NoModule
                      /\ SaveConfig(modules'[a]) = f[a] /\ modules'[a].active
    BY <2>10
  <2> DEFINE e == f[a]
             n == NewModule(e.type)
             m == LoadConfig(n, e)
  <2>2. e \in Entry
    BY <2>11 DEF Entries
  <2>3. n \in Module /\ (n.cls = "unis" <=> e.type = "Unis10")
    BY <2>2, NewModuleType DEF Entry
  <2>4. modules'[a] = [m EXCEPT !.linked = TRUE]
    BY <1>1, <2>11, <2>12, FreshLoad DEF ModuleAfterLoad, LoadFails, Target
  <2>5. n.cls = "unis" => Parsable(e.config)
    BY <2>3 DEF Coherent
  <2>6. n.cls # "unis" => e.config = NoConfig
    BY <2>3 DEF Coherent
  <2> HIDE DEF n
  <2>7. /\ m \in Module /\ m.active /\ m.type = e.type /\ m.cls = n.cls
        /\ m.config = IF n.cls = "unis" THEN e.config ELSE n.config
    BY <2>2, <2>3, <2>5, LoadConfigType DEF OutputsAlone, LoadConfig, Module
  <2> HIDE DEF m
  <2>8. [m EXCEPT !.linked = TRUE] \in Module
    BY <2>7, LinkType DEF OutputsAlone
  <2>9. SaveConfig([m EXCEPT !.linked = TRUE]) = e
    BY <2>2, <2>6, <2>7 DEF SaveConfig, Entry, Module
  <2> QED
    BY <2>4, <2>7, <2>8, <2>9, NullsAssumption DEF Module
<1>2. Inv /\ [Next]_vars => [RestoringStep]_vars
  BY <1>1
<1> QED
  BY <1>2, Invariance, PTL DEF Spec, RestartRestores

-----------------------------------------------------------------------------
(* What clients are told *)

\* While the process runs, an address changes as NextChanges says.
LEMMA RunningChanges ==
  ASSUME Inv, Next, NEW a \in Addrs, daemon = "running", daemon' = "running"
  PROVE  Idle(a) \/ PressedAt(a) \/ \E c \in Sockets : LeftBy(a, c) \/ RequestedOf(a, c)
BY NextChanges DEF TurnedOnOrOff

\* A registered module that stays registered runs in the same process.
LEMMA SurvivorsRun ==
  ASSUME Inv, [Next]_vars, NEW a \in Addrs, Survives(a)
  PROVE  daemon = "running" /\ daemon' = "running"
BY NextKeeps DEF Inv, Quiet, Survives, Registered

\* A departure and a press change nothing of a module but its outputs, inputs
\* and requester.
LEMMA LeftType ==
  ASSUME Inv, NEW c \in Sockets, NEW a \in Addrs, LeftBy(a, c)
  PROVE  /\ modules'[a] \in Module /\ SettingsAlone(modules[a], modules'[a])
         /\ modules'[a].want = ModuleAfterReset(a, c).want
         /\ modules'[a].who = ModuleAfterReset(a, c).who
         /\ modules'[a].confirmed = ModuleAfterReset(a, c).confirmed
<1> DEFINE m == ModuleAfterReset(a, c)
<1>1. m \in Module /\ SettingsAlone(modules[a], m)
  BY ResetType DEF LeftBy
<1>2. modules'[a] = ClientDisconnected(m, c)
  BY DEF LeftBy
<1> HIDE DEF m
<1>3. /\ modules'[a] \in Module /\ SettingsAlone(modules[a], modules'[a])
      /\ modules'[a].want = m.want /\ modules'[a].who = m.who
      /\ modules'[a].confirmed = m.confirmed
  BY <1>1, <1>2, ClientDisconnectedType DEF OutputsAlone, SettingsAlone
<1> QED
  BY <1>3 DEF m

\* Whatever changes the confirmed outputs of a configured MTB-UNIS, every client
\* subscribed to it is told in the same step.  Heard does not except the client
\* that set them: it is told as well.
THEOREM OutputsAnnounced == Spec => OutputChangesAnnounced
<1> DEFINE Heard(a) == EventsTo(subscribes'[a], "outputs", a) \subseteq events'
<1>1. ASSUME Inv, Next, NEW a \in RegisteredUnis, Survives(a), Configured(modules[a])
      PROVE  modules'[a].confirmed = modules[a].confirmed \/ Heard(a)
  <2>1. /\ a \in Addrs /\ Registered(a) /\ modules'[a] # NoModule
        /\ modules[a] \in Module /\ modules[a].waiting = <<>> /\ Settled(modules[a])
    BY <1>1, InvParts DEF Parts, Registered, RegisteredUnis, Survives, Good, Settled
  <2>2. CASE Idle(a)
    BY <2>2 DEF Idle
  <2>3. ASSUME NEW c \in Sockets, LeftBy(a, c)
        PROVE  modules'[a].confirmed = modules[a].confirmed \/ Heard(a)
    <3>1. CASE ModuleAfterReset(a, c) = modules[a]
      BY <1>1, <2>1, <2>3, <3>1, LeftType
    <3>2. CASE ModuleAfterReset(a, c) # modules[a]
      <4>1. events' = ResetEvents(c, subscribes', topoSubscribes')
        BY <2>3 DEF LeftBy, Disconnect, Silent, Answer
      <4> QED
        BY <1>1, <3>2, <4>1, ResetAnnounced
    <3> QED
      BY <3>1, <3>2
  <2>4. ASSUME NEW c \in Sockets, ResetFor(a, c)
        PROVE  modules'[a].confirmed = modules[a].confirmed \/ Heard(a)
    BY <1>1, <2>4, ResetAnnounced DEF ResetFor, Asked, subs
  <2>5. ASSUME NEW c \in Sockets, NEW req \in [Ports -> Values \cup {Keep}], SetBy(a, c, req)
        PROVE  modules'[a].confirmed = modules[a].confirmed \/ Heard(a)
    <3>1. CASE Changed(modules[a], req) = {}
      <4>1. /\ JsonSetOutput(modules[a], c, req) \in Module
            /\ Settled(JsonSetOutput(modules[a], c, req))
            /\ \A p \in Ports : JsonSetOutput(modules[a], c, req).want[p] = modules[a].want[p]
        BY <2>1, <3>1, JsonSetOutputType
      <4>2. JsonSetOutput(modules[a], c, req).want = modules[a].want
        BY <2>1, <4>1 DEF Module
      <4> QED
        BY <2>1, <2>5, <4>1, <4>2 DEF SetBy, Settled
    <3>2. CASE Changed(modules[a], req) # {}
      <4>1. subscribes'[a] \ Range(modules[a].waiting) = subscribes[a]
        BY <2>1, <2>5 DEF Range, SetBy, Asked, subs
      <4> QED
        BY <2>5, <3>2, <4>1 DEF SetBy, OutputsSetEvents, Asked, subs
    <3> QED
      BY <3>1, <3>2
  <2>6. ASSUME Untouched(a) PROVE modules'[a].confirmed = modules[a].confirmed
    BY <2>1, <2>6 DEF Untouched
  <2>7. daemon = "running" /\ daemon' = "running"
    BY <1>1, <2>1, SurvivorsRun
  <2> QED
    BY <1>1, <2>1, <2>2, <2>3, <2>4, <2>5, <2>6, <2>7, RunningChanges, PressUntouched,
       OtherRequestsUntouched
<1>2. Inv /\ [Next]_vars => [OutputsToldStep]_vars
  <2>1. \A a : Heard(a) => EventsTo(subscribes'[a] \ Setter(a), "outputs", a) \subseteq events'
    BY DEF EventsTo
  <2> HIDE DEF Heard
  <2> QED
    BY <1>1, <2>1 DEF OutputsToldStep
<1> QED
  BY <1>2, Invariance, PTL DEF Spec, OutputChangesAnnounced

\* An active module is neither deleted nor made inactive but by a reboot.
THEOREM ActiveStay == Spec => ActiveModulesStay
<1>1. ASSUME Inv, Next PROVE ActiveStep
  <2> SUFFICES ASSUME NEW a \in Addrs, daemon = "running", daemon' = "running",
                      Registered(a), modules[a].active
               PROVE  modules'[a] # NoModule /\ (modules'[a].active \/ modules'[a].rebooting)
    BY DEF ActiveStep
  <2>1. modules[a] \in Module
    BY <1>1, InvParts DEF Parts, Registered
  <2>2. ASSUME modules'[a] \in Module, SettingsAlone(modules[a], modules'[a])
        PROVE  modules'[a] # NoModule /\ modules'[a].active
    BY <2>2, NullsAssumption DEF SettingsAlone
  <2>3. CASE Idle(a)
    BY <2>3 DEF Idle, Registered
  <2>4. CASE PressedAt(a)
    BY <2>1, <2>2, <2>4, InputsChangedType DEF PressedAt, OutputsAlone
  <2>5. ASSUME NEW c \in Sockets, LeftBy(a, c)
        PROVE  modules'[a] # NoModule /\ modules'[a].active
    BY <1>1, <2>2, <2>5, LeftType
  <2>6. ASSUME NEW c \in Sockets, ResetFor(a, c)
        PROVE  modules'[a] # NoModule /\ modules'[a].active
    BY <1>1, <2>2, <2>6, ResetType DEF ResetFor
  <2>7. ASSUME NEW c \in Sockets, LoadedBy(a, c)
        PROVE  modules'[a] # NoModule /\ modules'[a].active
    <3>1. PICK f \in Entries : modules'[a] = ModuleAfterLoad(f, a)
      BY <2>7, LoadedEntries
    <3>2. CASE ~Applies(f, a) \/ \E b \in Addrs : b < a /\ Fails(f, b)
      BY <3>1, <3>2 DEF ModuleAfterLoad, Registered
    <3>3. CASE Applies(f, a) /\ ~\E b \in Addrs : b < a /\ Fails(f, b)
      <4>1. modules'[a] = LoadConfig(modules[a], f[a]) /\ f[a] \in Entry
        BY <3>1, <3>3 DEF ModuleAfterLoad, Target, Applies, Entries
      <4> QED
        BY <2>1, <4>1, LoadConfigType, NullsAssumption DEF OutputsAlone
    <3> QED
      BY <3>2, <3>3
  <2>8. ASSUME NEW c \in Sockets, RebootedBy(a, c)
        PROVE  modules'[a] # NoModule /\ modules'[a].rebooting
    BY <2>1, <2>8, RebootType, NullsAssumption DEF RebootedBy, OutputsAlone
  <2>9. ASSUME NEW c \in Sockets, UpgradedBy(a, c)
        PROVE  modules'[a] # NoModule /\ modules'[a].active
    BY <2>1, <2>2, <2>9, UpgradeType DEF UpgradedBy, OutputsAlone
  <2>10. ASSUME NEW c \in Sockets, NEW type \in Types, NEW config \in Configs,
                ConfiguredBy(a, c, type, config)
         PROVE  modules'[a] # NoModule /\ modules'[a].active
    BY <2>1, <2>10, JsonSetConfigType, NullsAssumption DEF ConfiguredBy, OutputsAlone
  <2>11. ASSUME NEW c \in Sockets, NEW req \in [Ports -> Values \cup {Keep}], SetBy(a, c, req)
         PROVE  modules'[a] # NoModule /\ modules'[a].active
    BY <2>1, <2>2, <2>11, JsonSetOutputType DEF SetBy
  <2>12. ~\E c \in Sockets : DeletedBy(a, c) \/ \E type \in Types : MadeBy(a, c, type)
    BY DEF DeletedBy, MadeBy
  <2>13. ASSUME NEW c \in Sockets, NEW type \in Types, RetypedBy(a, c, type)
         PROVE  modules'[a] # NoModule /\ modules'[a].active
    BY <2>1, <2>13, JsonSetTypeType, NullsAssumption DEF RetypedBy, OutputsAlone
  <2> QED
    BY <1>1, <2>3, <2>4, <2>5, <2>6, <2>7, <2>8, <2>9, <2>10, <2>11, <2>12, <2>13, RunningChanges
       DEF RequestedOf
<1>2. Inv /\ [Next]_vars => [ActiveStep]_vars
  BY <1>1
<1> QED
  BY <1>2, Invariance, PTL DEF Spec, ActiveModulesStay

\* A step of a client that is not allowed to write deletes an inactive module or
\* changes no module, and neither a file nor who is allowed.
THEOREM ReadersHarmless == Spec => ReadersOnlySubscribe
<1>1. ASSUME Inv, Next PROVE ReadersStep
  <2> DEFINE Kept == UNCHANGED <<files, access>>
  <2> SUFFICES ASSUME answer'.by \notin writeAccess \cup {NoSocket} PROVE ReadersStep
    BY DEF ReadersStep
  <2>1. Kept
    <3>1. ~(Stop \/ FirstStart \/ StartLoaded \/ StartRefused \/ StartWithoutServer)
      BY DEF Stop, FirstStart, StartLoaded, StartRefused, StartWithoutServer, Offline, Silent, Answer
    <3>2. ~\E c \in Sockets : \/ Connect(c) \/ Disconnect(c) \/ DisconnectTerminates(c)
                             \/ StopWhileSaving(c) \/ SpecificCommandEnds(c)
      BY DEF Connect, Disconnect, DisconnectTerminates, StopWhileSaving, SpecificCommandEnds, Offline, Silent, Answer
    <3>3. ASSUME NEW c \in Sockets, Subscribing(c) PROVE Kept
      BY <3>3 DEF Subscribing, ModuleSubscribe, ModuleUnsubscribe, MyModuleSubscribes, TopoSubscribe,
         TopoUnsubscribe, JustAnswer
    <3>4. ASSUME NEW c \in Sockets, Configuring(c) PROVE Kept
      <4>1. SaveConfigFile(c) => Kept
        BY DEF SaveConfigFile, Denied, JustAnswer, Allowed, Answer
      <4>2. LoadConfigFile(c) => Kept
        BY DEF LoadConfigFile, LoadNamed, AllowClients, Denied, JustAnswer, Allowed, Answer
      <4>3. ASSUME NEW b \in Addrs, ModuleDelete(c, b) PROVE Kept
        BY <4>3 DEF ModuleDelete, JustAnswer, Replace
      <4>4. ASSUME NEW b \in Addrs, NEW type, NEW config, NEW name,
                   ModuleSetConfig(c, b, type, config, name)
            PROVE  Kept
        BY <4>4 DEF ModuleSetConfig, Denied, JustAnswer, Replace
      <4> QED
        BY <3>4, <4>1, <4>2, <4>3, <4>4 DEF Configuring
    <3>5. ASSUME NEW c \in Sockets, Operating(c) PROVE Kept
      BY <3>5 DEF Operating, ModuleSetOutputs, ResetMyOutputs, ModuleReboot, ModuleUpgradeFw, Refused,
         Denied, JustAnswer, Replace
    <3>6. ASSUME NEW c \in Sockets, Asking(c) PROVE Kept
      BY <3>6 DEF Asking, ModuleBeacon, ModuleSetAddress, SpecificCommand, Version, ModulesQuery,
         SetAddress, Unserved, ModuleQuery, ModuleDiag, MtbUsbQuery, Refused, Denied, JustAnswer
    <3>7. ASSUME NEW a \in Addrs, NEW pin \in Pins, NEW on \in BOOLEAN, SimOnInputChanged(a, pin, on)
          PROVE  Kept
      BY <3>7 DEF SimOnInputChanged, Replace
    <3> QED
      BY <1>1, <3>1, <3>2, <3>3, <3>4, <3>5, <3>6, <3>7 DEF Next, Request
  <2>2. ASSUME NEW a \in Addrs, modules'[a] # modules[a]
        PROVE  Registered(a) /\ ~modules[a].active /\ modules'[a] = NoModule
    <3>1. ~TurnedOnOrOff /\ ~Idle(a) /\ ~PressedAt(a)
      BY <2>2 DEF TurnedOnOrOff, Idle, PressedAt
    <3>2. PICK c \in Sockets : LeftBy(a, c) \/ RequestedOf(a, c)
      BY <1>1, <3>1, NextChanges
    <3>3. ~LeftBy(a, c)
      BY DEF LeftBy, Disconnect, Silent, Answer
    <3>4. ~Asked(c)
      BY DEF Asked
    <3>5. DeletedBy(a, c)
      BY <3>2, <3>3, <3>4 DEF RequestedOf, ResetFor, LoadedBy, RebootedBy, UpgradedBy, ConfiguredBy,
         MadeBy, RetypedBy, SetBy
    <3> QED
      BY <3>5 DEF DeletedBy
  <2> QED
    BY <2>1, <2>2 DEF ReadersStep
<1>2. Inv /\ [Next]_vars => [ReadersStep]_vars
  BY <1>1
<1> QED
  BY <1>2, Invariance, PTL DEF Spec, ReadersOnlySubscribe

\* While a firmware upgrade is pending no request but load_config changes the
\* configuration, and an output can only go to rest.
THEOREM UpgradesFreeze == Spec => UpgradeFreezes
<1>1. ASSUME Inv, Next PROVE FrozenStep
  <2> SUFFICES ASSUME NEW a \in RegisteredUnis, Survives(a), Upgrading(modules[a]),
                      ~\E c \in clients : LoadConfigFile(c)
               PROVE  /\ modules'[a].config = modules[a].config /\ modules'[a].type = modules[a].type
                      /\ \A p \in Ports : modules'[a].want[p] # modules[a].want[p] =>
                           modules'[a].want[p] = IF Configured(modules[a]) THEN modules[a].config[p] ELSE 0
    BY DEF FrozenStep
  <2>1. /\ a \in Addrs /\ Registered(a) /\ modules[a] \in Module /\ modules[a].cls = "unis"
        /\ modules'[a] # NoModule
    BY <1>1, InvParts DEF Parts, Registered, RegisteredUnis, Survives
  <2>2. ASSUME SettingsAlone(modules[a], modules'[a]), modules'[a].want = modules[a].want
        PROVE  /\ modules'[a].config = modules[a].config /\ modules'[a].type = modules[a].type
               /\ \A p \in Ports : modules'[a].want[p] = modules[a].want[p]
    BY <2>2 DEF SettingsAlone
  <2>3. CASE Idle(a)
    BY <2>3 DEF Idle
  <2>4. CASE PressedAt(a)
    BY <2>1, <2>2, <2>4, InputsChangedType DEF PressedAt, OutputsAlone
  <2>5. ASSUME NEW c \in Sockets, SettingsAlone(modules[a], modules'[a]),
               modules'[a].want = ModuleAfterReset(a, c).want
        PROVE  /\ modules'[a].config = modules[a].config /\ modules'[a].type = modules[a].type
               /\ \A p \in Ports : modules'[a].want[p] # modules[a].want[p] =>
                    modules'[a].want[p] = IF Configured(modules[a]) THEN modules[a].config[p] ELSE 0
    BY <1>1, <2>1, <2>5, ResetType DEF SettingsAlone
  <2>6. ASSUME NEW c \in Sockets, LeftBy(a, c)
        PROVE  SettingsAlone(modules[a], modules'[a]) /\ modules'[a].want = ModuleAfterReset(a, c).want
    BY <1>1, <2>1, <2>6, LeftType
  <2>7. ASSUME NEW c \in Sockets, ResetFor(a, c)
        PROVE  SettingsAlone(modules[a], modules'[a]) /\ modules'[a].want = ModuleAfterReset(a, c).want
    BY <1>1, <2>1, <2>7, ResetType DEF ResetFor
  <2>8. ASSUME NEW c \in Sockets, RebootedBy(a, c) \/ UpgradedBy(a, c)
        PROVE  /\ modules'[a].config = modules[a].config /\ modules'[a].type = modules[a].type
               /\ modules'[a].want = modules[a].want
    <3>1. CASE modules'[a] = Reboot(modules[a])
      BY <2>1, <3>1, RebootType DEF OutputsAlone
    <3>2. CASE modules'[a] = [modules[a] EXCEPT !.fw = c]
      BY <2>1, <3>2, UpgradeType DEF OutputsAlone, SettingsAlone
    <3> QED
      BY <2>8, <3>1, <3>2 DEF RebootedBy, UpgradedBy
  <2>9. ~\E c \in Sockets : \/ LoadedBy(a, c) \/ DeletedBy(a, c)
                            \/ \E type \in Types : MadeBy(a, c, type) \/ RetypedBy(a, c, type)
                            \/ \E type \in Types, config \in Configs : ConfiguredBy(a, c, type, config)
                            \/ \E req : SetBy(a, c, req)
    BY <2>1 DEF LoadedBy, Asked, DeletedBy, MadeBy, RetypedBy, ConfiguredBy, SetBy, OutputsSettable
  <2>10. daemon = "running" /\ daemon' = "running"
    BY <1>1, <2>1, SurvivorsRun
  <2> QED
    BY <1>1, <2>1, <2>3, <2>4, <2>5, <2>6, <2>7, <2>8, <2>9, <2>10, RunningChanges DEF RequestedOf
<1>2. Inv /\ [Next]_vars => [FrozenStep]_vars
  BY <1>1
<1> QED
  BY <1>2, Invariance, PTL DEF Spec, UpgradeFreezes

\* Except by load_config, and by a module_set_config refused for its name, no
\* visible change of a MTB-UNIS and no deletion goes unannounced.
THEOREM ChangesAnnounced == Spec => ModuleChangesAnnounced
<1> DEFINE Said(a) ==
      /\ (Unis(modules[a]) /\ Unis(modules'[a]) /\ Visible(modules[a]) # Visible(modules'[a]))
           => RetypedByRefusal(a) \/ Told(a, "module")
      /\ (~Registered(a) /\ Unis(modules'[a]) /\ Configured(modules'[a])) => Told(a, "module")
      /\ (Registered(a) /\ modules'[a] = NoModule) => Told(a, "deleted")
<1>1. ASSUME Inv, Next, daemon = "running", daemon' = "running",
             ~\E c \in clients : LoadConfigFile(c), NEW a \in Addrs
      PROVE  Said(a)
  <2>1. modules[a] \in Module \cup {NoModule} /\ (Registered(a) => modules[a] \in Module)
    BY <1>1, InvParts DEF Parts, Registered
  <2>2. ASSUME Registered(a), modules'[a] \in Module, SettingsAlone(modules[a], modules'[a])
        PROVE  Said(a)
    BY <2>2, NullsAssumption DEF SettingsAlone, Visible, Registered
  <2>3. CASE Idle(a)
    BY <2>1, <2>3 DEF Idle, Registered, Unis
  <2>4. CASE PressedAt(a)
    BY <2>1, <2>2, <2>4, InputsChangedType DEF PressedAt, OutputsAlone
  <2>5. ASSUME NEW c \in Sockets, LeftBy(a, c) \/ ResetFor(a, c) PROVE Said(a)
    <3>1. Registered(a) /\ modules'[a] \in Module /\ SettingsAlone(modules[a], modules'[a])
      BY <1>1, <2>5, LeftType, ResetType DEF LeftBy, ResetFor
    <3> QED
      BY <2>2, <3>1
  <2>6. ASSUME NEW c \in Sockets, LoadedBy(a, c) PROVE FALSE
    BY <1>1, <2>6 DEF LoadedBy, Asked
  <2>7. ASSUME NEW c \in Sockets, DeletedBy(a, c) PROVE Said(a)
    BY <2>7 DEF DeletedBy, Unis
  <2>8. ASSUME NEW c \in Sockets, RebootedBy(a, c) PROVE Said(a)
    <3>1. modules'[a] \in Module /\ Registered(a) /\ Told(a, "module")
      BY <2>1, <2>8, RebootType DEF RebootedBy, OutputsAlone
    <3> QED
      BY <3>1, NullsAssumption
  <2>9. ASSUME NEW c \in Sockets, UpgradedBy(a, c) PROVE Said(a)
    BY <2>1, <2>2, <2>9, UpgradeType DEF UpgradedBy, OutputsAlone
  <2>10. ASSUME NEW c \in Sockets, NEW type \in Types, NEW config \in Configs,
                ConfiguredBy(a, c, type, config)
         PROVE  Said(a)
    <3>1. Registered(a) /\ modules'[a] \in Module /\ modules'[a].cls = modules[a].cls
      BY <2>1, <2>10, JsonSetConfigType DEF ConfiguredBy, OutputsAlone
    <3> QED
      BY <2>10, <3>1, NullsAssumption DEF ConfiguredBy, Unis
  <2>11. ASSUME NEW c \in Sockets, NEW type \in Types, MadeBy(a, c, type) PROVE Said(a)
    <3>1. ~Registered(a) /\ modules[a] = NoModule
      BY <2>11 DEF MadeBy, Registered
    <3>2. CASE modules'[a] \in {NewModule(type), JsonSetType(NewModule(type), type)}
      BY <3>1, <3>2 DEF NewModule, JsonSetType, Configured, Unis
    <3>3. ASSUME NEW config \in Configs, modules'[a] = JsonSetConfig(NewModule(type), type, config),
                 NewModule(type).cls = "unis" => Told(a, "module")
          PROVE  Said(a)
      BY <3>1, <3>3, NewModuleType, JsonSetConfigType DEF OutputsAlone, Unis
    <3> QED
      BY <2>11, <3>2, <3>3 DEF MadeBy
  <2>12. ASSUME NEW c \in Sockets, NEW req \in [Ports -> Values \cup {Keep}], SetBy(a, c, req)
         PROVE  Said(a)
    BY <2>1, <2>2, <2>12, JsonSetOutputType DEF SetBy
  <2>13. ASSUME NEW c \in Sockets, NEW type \in Types, RetypedBy(a, c, type) PROVE Said(a)
    <3>1. /\ Registered(a) /\ modules[a] \in Module /\ modules'[a] = JsonSetType(modules[a], type)
          /\ modules'[a] \in Module /\ modules'[a].type = type
      BY <2>1, <2>13, JsonSetTypeType DEF RetypedBy, OutputsAlone
    <3>2. CASE modules[a].active
      <4>1. type = modules[a].type
        BY <2>13, <3>2 DEF RetypedBy
      <4>2. modules'[a] = modules[a]
        BY <3>1, <4>1 DEF JsonSetType, Module
      <4> QED
        BY <3>1, <4>2, NullsAssumption DEF Unis
    <3>3. CASE ~modules[a].active
      <4>1. RetypedByRefusal(a)
        BY <2>13, <3>1, <3>3 DEF RetypedByRefusal, RetypedBy, JsonSetType
      <4> QED
        BY <3>1, <4>1, NullsAssumption
    <3> QED
      BY <3>2, <3>3
  <2> QED
    BY <1>1, <2>3, <2>4, <2>5, <2>6, <2>7, <2>8, <2>9, <2>10, <2>11, <2>12, <2>13, RunningChanges
       DEF RequestedOf
<1>2. Inv /\ [Next]_vars => [ModulesToldStep]_vars
  BY <1>1 DEF ModulesToldStep
<1> QED
  BY <1>2, Invariance, PTL DEF Spec, ModuleChangesAnnounced
-----------------------------------------------------------------------------
(* Who is told *)

\* The events of E go to subscribers, S being those of the modules and T those
\* of the topology.
Addressed(E, S, T) ==
  \A e \in E : e.to \in IF e.event \in {"outputs", "inputs"} THEN S[e.addr] ELSE T \cup S[e.addr]

LEMMA InfoAddressed ==
  ASSUME NEW a \in Addrs, NEW ignore
  PROVE  /\ Addressed(ModuleInfo(a, ignore), subscribes, topoSubscribes)
         /\ Addressed(EventsTo((topoSubscribes \cup subscribes[a]) \ {ignore}, "deleted", a),
                      subscribes, topoSubscribes)
BY DEF Addressed, ModuleInfo, EventsTo

LEMMA OutputsSetAddressed ==
  ASSUME NEW a \in Addrs, NEW m, NEW S, NEW T
  PROVE  Addressed(OutputsSetEvents(a, m, S[a], T), S, T)
BY DEF Addressed, OutputsSetEvents, EventsTo

LEMMA ResetAddressed ==
  ASSUME NEW c, NEW S, NEW T
  PROVE  Addressed(ResetEvents(c, S, T), S, T)
<1>1. ASSUME NEW a \in Addrs PROVE Addressed(EventsTo(S[a], "outputs", a), S, T)
  BY DEF Addressed, EventsTo
<1>2. SUFFICES ASSUME NEW e \in ResetEvents(c, S, T)
               PROVE  e.to \in IF e.event \in {"outputs", "inputs"} THEN S[e.addr]
                               ELSE T \cup S[e.addr]
  BY DEF Addressed
<1>3. PICK a \in Addrs : \/ e \in OutputsSetEvents(a, modules[a], S[a], T)
                         \/ e \in EventsTo(S[a], "outputs", a)
  BY <1>2 DEF ResetEvents
<1> QED
  BY <1>1, <1>3, OutputsSetAddressed DEF Addressed

LEMMA RequestAddressed ==
  ASSUME NEW c \in Sockets, Request(c)
  PROVE  Addressed(events', subscribes', topoSubscribes')
<1> DEFINE Fine == Addressed(events', subscribes', topoSubscribes')
<1>1. events' = {} => Fine
  BY DEF Addressed
<1>2. Addressed(events', subscribes, topoSubscribes) /\ UNCHANGED subs => Fine
  BY DEF subs
<1>3. ASSUME NEW status, JustAnswer(c, status) PROVE Fine
  BY <1>1, <1>3 DEF JustAnswer, Answer
<1>4. Denied(c) \/ (\E a : Refused(c, a)) => Fine
  BY <1>3 DEF Refused, Denied
<1> HIDE DEF Fine
<1>5. Subscribing(c) => Fine
  BY <1>1, <1>3 DEF Subscribing, ModuleSubscribe, ModuleUnsubscribe, MyModuleSubscribes, TopoSubscribe,
     TopoUnsubscribe, Answer
<1>6. Asking(c) => Fine
  BY <1>3, <1>4 DEF Asking, ModuleBeacon, ModuleSetAddress, SpecificCommand, Version, ModulesQuery,
     SetAddress, Unserved, ModuleQuery, ModuleDiag, MtbUsbQuery
<1>7. SaveConfigFile(c) => Fine
  BY <1>1, <1>3, <1>4 DEF SaveConfigFile, Answer
<1>8. LoadConfigFile(c) => Fine
  BY <1>1, <1>3, <1>4 DEF LoadConfigFile, LoadNamed, AllowClients, Answer
<1>9. ASSUME NEW a \in Addrs, ModuleDelete(c, a) PROVE Fine
  BY <1>2, <1>3, <1>9, InfoAddressed DEF ModuleDelete, Answer, Replace
<1>10. ASSUME NEW a \in Addrs, NEW type, NEW config, NEW name,
              ModuleSetConfig(c, a, type, config, name)
       PROVE  Fine
  BY <1>1, <1>2, <1>3, <1>4, <1>10, InfoAddressed DEF ModuleSetConfig, Answer, Replace
<1>11. ASSUME NEW a \in Addrs, NEW req, ModuleSetOutputs(c, a, req) PROVE Fine
  <2>1. CASE Refused(c, a) \/ JustAnswer(c, "error")
    BY <1>3, <1>4, <2>1
  <2>2. CASE /\ events' = {} \/ events' = OutputsSetEvents(a, modules[a], subscribes[a], topoSubscribes)
             /\ UNCHANGED subs
    BY <1>1, <1>2, <2>2, OutputsSetAddressed
  <2> QED
    BY <1>11, <2>1, <2>2 DEF ModuleSetOutputs, Answer
<1>12. ResetMyOutputs(c) => Fine
  BY <1>2, <1>4, ResetAddressed DEF ResetMyOutputs, Answer
<1>13. ASSUME NEW a \in Addrs, ModuleReboot(c, a) PROVE Fine
  BY <1>2, <1>3, <1>4, <1>13, InfoAddressed DEF ModuleReboot, Answer, Replace
<1>14. ASSUME NEW a \in Addrs, NEW firmware, ModuleUpgradeFw(c, a, firmware) PROVE Fine
  BY <1>1, <1>2, <1>3, <1>4, <1>14, InfoAddressed DEF ModuleUpgradeFw, FwUpgdInit, Answer, Replace
<1> QED
  BY <1>5, <1>6, <1>7, <1>8, <1>9, <1>10, <1>11, <1>12, <1>13, <1>14
     DEF Request, Configuring, Operating, Fine

\* Every event goes to a client that is connected and asked for it, also when
\* others left in the same step.
THEOREM EventsReach == Spec => []EventsReachSubscribers
<1>1. Init => EventsReachSubscribers
  BY DEF Init, EventsReachSubscribers
<1>2. ASSUME Inv, Next PROVE Addressed(events', subscribes', topoSubscribes')
  <2>1. events' = {} => Addressed(events', subscribes', topoSubscribes')
    BY DEF Addressed
  <2>2. CASE Stop \/ FirstStart \/ StartLoaded \/ StartRefused \/ StartWithoutServer
    BY <2>1, <2>2 DEF Stop, FirstStart, StartLoaded, StartRefused, StartWithoutServer, Offline, Silent,
       Answer
  <2>3. ASSUME NEW c \in Sockets, \/ Connect(c) \/ DisconnectTerminates(c)
                                \/ StopWhileSaving(c) \/ SpecificCommandEnds(c)
        PROVE  Addressed(events', subscribes', topoSubscribes')
    BY <2>1, <2>3 DEF Connect, DisconnectTerminates, StopWhileSaving, SpecificCommandEnds, Offline, Silent, Answer
  <2>4. ASSUME NEW c \in Sockets, Disconnect(c)
        PROVE  Addressed(events', subscribes', topoSubscribes')
    BY <2>4, ResetAddressed DEF Disconnect, Silent, Answer
  <2>5. ASSUME NEW a \in Addrs, NEW pin, NEW on, SimOnInputChanged(a, pin, on)
        PROVE  Addressed(events', subscribes', topoSubscribes')
    <3>1. CASE events' = EventsTo(subscribes[a], "inputs", a) /\ UNCHANGED subs
      BY <3>1 DEF Addressed, EventsTo, subs
    <3> QED
      BY <2>1, <2>5, <3>1 DEF SimOnInputChanged, Silent, Answer, Replace
  <2> QED
    BY <1>2, <2>2, <2>3, <2>4, <2>5, RequestAddressed DEF Next
<1>3. ASSUME Inv', Addressed(events', subscribes', topoSubscribes') PROVE EventsReachSubscribers'
  BY <1>3, InvPartsNext DEF Parts, Subscribers, Spoken, Events, Addressed, EventsReachSubscribers, Subscribed
<1>4. ASSUME EventsReachSubscribers, UNCHANGED vars PROVE EventsReachSubscribers'
  BY <1>4 DEF EventsReachSubscribers, Subscribed, vars, subs
<1>5. Inv /\ EventsReachSubscribers /\ [Next]_vars => EventsReachSubscribers'
  BY <1>2, <1>3, <1>4, NextKeeps
<1> QED
  BY <1>1, <1>5, Invariance, PTL DEF Spec
=============================================================================
