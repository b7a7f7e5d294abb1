------------------------- MODULE MtbDaemonProperties -------------------------
(***************************************************************************)
(* What the daemon promises its clients, stated over MtbDaemon.            *)
(***************************************************************************)
EXTENDS MtbDaemon

RegisteredUnis == {a \in Addrs : Registered(a) /\ modules[a].cls = "unis"}
AllConfigured  == \A a \in RegisteredUnis : Configured(modules[a])

Owner(a, p) == IF Registered(a) THEN modules[a].who[p] ELSE NoSocket

\* The registered module at a is the same object before and after the step.
Survives(a) == Registered(a) /\ modules'[a] # NoModule

\* Sockets the code keeps as raw pointers to address subscribers and requesters.
Subscribed(a) == topoSubscribes \cup subscribes[a]

-----------------------------------------------------------------------------
(* Outputs *)

\* Between two handlers nothing is pending on a module: what was wanted is
\* confirmed and no request waits, so the "send" test of jsonSetOutput and
\* the "sent is empty" test of resetOutputsOfClient never lose an update.
OutputsSettled ==
  \A a \in Addrs : Registered(a) =>
    /\ modules[a].want = modules[a].confirmed
    /\ modules[a].waiting = <<>> /\ modules[a].sent = <<>>

\* An output belongs to nobody or to a client that is still connected:
\* serverClientDisconnected leaves no pointer of the client in whoSetOutput.
OwnersConnected ==
  \A a \in Addrs, p \in Ports : Owner(a, p) \in clients \cup {NoSocket}

\* An output nobody owns is at rest: at its safe value, or off as it was when
\* the daemon started.
UnownedAtRest ==
  \A a \in RegisteredUnis, p \in Ports :
    (Owner(a, p) = NoSocket /\ Configured(modules[a])) =>
      modules[a].want[p] \in {0, modules[a].config[p]}

\* An output of a connected client changes by that client's own request or
\* by another client's explicit setting of it, which makes it the owner.  No
\* departure and no reset_my_outputs of another client touches it, whether
\* clientResetOutputs goes module by module or resets everything at once.
IsolatedStep ==
  \A a \in RegisteredUnis, p \in Ports :
    (Survives(a) /\ Owner(a, p) \in clients \cap clients') =>
      \/ /\ modules'[a].want[p] = modules[a].want[p]
         /\ modules'[a].who[p] = modules[a].who[p]
      \/ answer'.by \in {Owner(a, p), modules'[a].who[p]} \ {NoSocket}
Isolation == [][IsolatedStep]_vars

\* A departing client leaves the daemon running, and each output it owned in
\* the safe state and without an owner, if every MTB-UNIS has a configuration.
ReleasingStep ==
  \A c \in clients \ clients' :
    (AllConfigured /\ (daemon' = "running" \/ DisconnectTerminates(c))) =>
      /\ daemon' = "running"
      /\ \A a \in RegisteredUnis, p \in Ports : Owner(a, p) = c =>
           /\ modules'[a].want[p] = modules[a].config[p]
           /\ modules'[a].who[p] = NoSocket
DisconnectReleases == [][ReleasingStep]_vars

\* The client whose module_set_outputs this step serves, if it changes module a.
Setter(a) ==
  {c \in Sockets : answer'.by = c /\ \E p \in Ports :
     modules'[a].want[p] # modules[a].want[p] /\ modules'[a].who[p] = c}

\* Whatever changes the confirmed outputs of a configured module that stays
\* registered, every client subscribed to the module is told in the same step,
\* but the one that requested the setting (messages.md:610-611).  That one gets
\* the event as well, against the document, and gets it instead of a response:
\* see EveryRequestAnswered.
OutputsToldStep ==
  \A a \in RegisteredUnis : Survives(a) /\ Configured(modules[a]) =>
    \/ modules'[a].confirmed = modules[a].confirmed
    \/ EventsTo(subscribes'[a] \ Setter(a), "outputs", a) \subseteq events'
OutputChangesAnnounced == [][OutputsToldStep]_vars

\* The panel's lamps show the outputs of the modules it is connected to.
LampsShowOutputs ==
  \A a \in RegisteredUnis : modules[a].linked =>
    lamps[a] = {p \in Ports : modules[a].want[p] # 0}
-----------------------------------------------------------------------------
(* Configuration file *)

\* An entry is coherent if a restart gives it a class that reads its "config":
\* a MTB-UNIS with a readable one, or another type without any.
Coherent(e) == IF e.type = "Unis10" THEN Parsable(e.config) ELSE e.config = NoConfig

\* A start brings back each coherently saved module as it was saved, so that
\* save_config right after the start would write the same entry again.
RestoringStep ==
  (daemon # "running" /\ daemon' = "running" /\ Readable(ConfigFileName)) =>
    LET f == files[ConfigFileName].modules IN
    /\ settings' = files[ConfigFileName].server
    /\ \A a \in Addrs : f[a] # NoEntry /\ Coherent(f[a]) =>
         /\ modules'[a] # NoModule
         /\ SaveConfig(modules'[a]) = f[a] /\ modules'[a].active
RestartRestores == [][RestoringStep]_vars

\* The daemon refuses to start only on a file whose writing was cut short, that
\* has an incoherent MTB-UNIS entry, or no usable "server": the daemon itself
\* writes one of these after load_config of such a file, also when that failed.
RefusedOnlyIncoherent ==
  daemon = "refused" =>
    \/ files[ConfigFileName] = Truncated
    \/ /\ Readable(ConfigFileName)
       /\ \/ files[ConfigFileName].server # "complete"
          \/ \E a \in Addrs : LET e == files[ConfigFileName].modules[a] IN
               e # NoEntry /\ e.type = "Unis10" /\ ~Coherent(e)

\* loadConfig never changes the class or the type of a registered module
\* (the warning at its head: commands may still hold pointers to it), and
\* never unregisters one.
LoadKeepsTypes ==
  \A c \in clients : LoadConfigFile(c) =>
    \A a \in Addrs : Registered(a) =>
      /\ modules'[a] # NoModule
      /\ modules'[a].cls = modules[a].cls /\ modules'[a].type = modules[a].type
LoadNeverRetypes == [][LoadKeepsTypes]_vars

\* A module in use stays registered: only an inactive module is deleted, and
\* a module becomes inactive only by a reboot, which it is then marked with.
ActiveStep ==
  \A a \in Addrs :
    (daemon = "running" /\ daemon' = "running" /\ Registered(a) /\ modules[a].active) =>
      modules'[a] # NoModule /\ (modules'[a].active \/ modules'[a].rebooting)
ActiveModulesStay == [][ActiveStep]_vars

-----------------------------------------------------------------------------
(* Clients *)

\* Every socket the daemon keeps to send something later, as a subscriber or
\* as the requester of a firmware upgrade, is one that is connected: the
\* object behind it is deleted when the client leaves.
SocketsConnected ==
  /\ topoSubscribes \subseteq clients
  /\ \A a \in Addrs : subscribes[a] \subseteq clients
  /\ \A a \in Addrs : Registered(a) =>
       modules[a].fw \in clients \cup {NoSocket, NoRequest}

\* An event goes to a connected client that asked for it: outputs and inputs
\* to subscribers of the module, the rest to those of the topology as well.
EventsReachSubscribers ==
  \A e \in events :
    /\ e.to \in clients
    /\ e.to \in IF e.event \in {"outputs", "inputs"} THEN subscribes[e.addr] ELSE Subscribed(e.addr)

\* What a client sees of a MTB-UNIS with moduleInfo, its outputs and inputs and
\* the progress of an upgrade aside.
Visible(m) == <<m.type, m.active, m.config, m.rebooting>>

Unis(m) == m # NoModule /\ m.cls = "unis"

\* Everyone who subscribed, but the client whose request is answered, is told.
Told(a, event) == EventsTo(Subscribed(a) \ {answer'.by}, event, a) \subseteq events'

\* A module_set_config that fails at its name has changed the type of a module
\* that is not active, and nothing else; nobody is told.
RetypedByRefusal(a) ==
  /\ ~modules[a].active /\ answer'.status = "error"
  /\ modules'[a] = [modules[a] EXCEPT !.type = modules'[a].type]

\* Except by load_config and by such a refusal, a MTB-UNIS does not change its
\* visible data, take its first configuration or disappear without an event to
\* everyone who subscribed to it or to the topology and did not request the
\* change.  messages.md:652-654 knows no exception.
ModulesToldStep ==
  (daemon = "running" /\ daemon' = "running" /\ ~\E c \in clients : LoadConfigFile(c)) =>
    \A a \in Addrs :
      /\ (Unis(modules[a]) /\ Unis(modules'[a]) /\ Visible(modules[a]) # Visible(modules'[a]))
           => RetypedByRefusal(a) \/ Told(a, "module")
      /\ (~Registered(a) /\ Unis(modules'[a]) /\ Configured(modules'[a])) => Told(a, "module")
      /\ (Registered(a) /\ modules'[a] = NoModule) => Told(a, "deleted")
ModuleChangesAnnounced == [][ModulesToldStep]_vars

\* A client whose peer is not in allowedClients changes no module, no file and
\* not who is allowed; what it can do beyond subscribing is to delete an
\* inactive module.
ReadersStep ==
  answer'.by \notin writeAccess \cup {NoSocket} =>
    /\ UNCHANGED <<files, access>>
    /\ \A a \in Addrs : modules'[a] # modules[a] =>
         Registered(a) /\ ~modules[a].active /\ modules'[a] = NoModule
ReadersOnlySubscribe == [][ReadersStep]_vars

\* While its firmware is being upgraded a module takes no configuration and no
\* new output: a step can only return its outputs to rest.
FrozenStep ==
  \A a \in RegisteredUnis :
    (Survives(a) /\ Upgrading(modules[a]) /\ ~\E c \in clients : LoadConfigFile(c)) =>
      /\ modules'[a].config = modules[a].config /\ modules'[a].type = modules[a].type
      /\ \A p \in Ports : modules'[a].want[p] # modules[a].want[p] =>
           modules'[a].want[p] = IF Configured(modules[a]) THEN modules[a].config[p] ELSE 0
UpgradeFreezes == [][FrozenStep]_vars
-----------------------------------------------------------------------------
(* What the documentation and the tests say and the code does not do.  Each  *)
(* is checked by a run that shows the disagreement.                          *)

\* test_uni.py:206-211: a client sets an output, disconnects, connects again
\* and finds the output reset.  The daemon that resets the outputs is there
\* afterwards: no departure of a client ends it.
DisconnectKeepsRunning ==
  [][\A c \in clients : (Disconnect(c) \/ DisconnectTerminates(c)) => daemon' = "running"]_vars

\* tcp-protocol/README.md:20 and messages.md:203-219: the server responds to
\* requests with responses, also to module_set_outputs.
EveryRequestAnswered == answer.by # NoSocket => answer.status # "none"

\* doc.mtb-daemon.json.md:92-94: only the clients in allowedClients can set
\* the state of the server.
OnlyAllowedChangeModules ==
  [][answer'.by \notin writeAccess \cup {NoSocket} => modules' = modules]_vars
=============================================================================
