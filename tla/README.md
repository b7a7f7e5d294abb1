# MTB daemon simulator in TLA+

A verification development of `mtb-daemon-sim`: a Qt application that serves
MTBbus modules to TCP clients, as MTB daemon does, with a panel of buttons and
lamps in the place of the bus. The modules below are translated from
`src/src/`; line numbers are in `PROJECT.json` under `map`.

Check a run with `tlc -config X.cfg M`, a proof with `tlapm M.tla`.

## 1. The system

| Component | State | Operations |
|---|---|---|
| **module objects** `modules/module.*`, `modules/unis.*` | per module: type, active, rebooting, firmware upgrade, configuration, wanted and confirmed outputs, owner of each output (`whoSetOutput`), request queues, inputs | `jsonSetOutput`, `resetOutputsOfClient`, `allOutputsReset`, `jsonSetConfig`, `jsonReboot`, `jsonUpgradeFw`, `loadConfig`, `saveConfig`, `mtbBusInputsChanged` |
| **daemon core** `main.*` | module array, subscriptions by address and to the topology, access list, the configuration last loaded, path of its file | constructor, one handler per command of `serverReceived`, `serverClientDisconnected`, `clientResetOutputs`, `loadConfig`, `saveConfig` |
| **TCP server** `server.*` | connected sockets and their read buffers | `serverNewConnection`, `clientReadyRead`, `clientDisconnected`, `send` |
| **conversions of a MTB-UNIS** `modules/unis.*`, `qjsonsafe.*` | none (functions) | JSON output to byte and back, saved form, delays, the frame of `MtbModuleSetOutput` |
| **production logging** `logging.*` | history, remaining messages, file | `prodLog`, `prodInit` |
| **simulator panel** `simwin.*` | position and icon of each button, lamps and picture of each signal, indicators | mouse events, `setState`, `lampChanged`, `updateState`, told by `simOnOutputChanged` |
| **module on the bus** `modules/uni.*`, `modules/module.*` (not built into the simulator) | as a module object, and: requests for outputs that wait and that are sent, configuration being written, activation under way and attempts left | the commands of clients, `mtbBusActivate` and the chain of its callbacks, `mtbBusOutputsSet`, `mtbBusConfigWritten` and their errors, `mtbBusLost`, `reactivateCheck` |
| **commands to MTB-USB** `mtbusb/` (not built into the simulator) | commands that wait for their answer (`m_pending`) and for being sent (`m_out`) | `send`, `sendNextOut`, `parseMtbBusMessage`, `handleMtbUsbError`, `handleMtbBusError`, `pendingTimeoutError` |
| MTB-RC `rc.h` | – | not built into the simulator |
| command line utility `utils/manage.py` | – | one request, one answer |

How they interact. Everything runs in one Qt event loop in one thread: a socket's
`readyRead` is cut into requests (`DaemonServer`), each emitted as
`jsonReceived` to `serverReceived` (`main.cpp:305`), which picks a handler; the
handler calls the module object, which calls back into the daemon's tables of
subscribers and sends JSON to sockets, and emits `simOutputChanged` to the
panel. A button calls `simOnInputChanged`, which changes a module's inputs and
sends an event. In the real daemon `setOutputs` sends a frame and is confirmed
later; in the simulator (`unis.cpp:138`) it calls `mtbBusOutputsSet` at once.
The repository still holds the code that goes through the bus, in
`modules/uni.cpp` and `mtbusb/`: a module sends a command with a callback for the
answer and one for an error, MTB-USB keeps a few commands at a time, and what
it sends back is paired with a command by what it looks like. That code is
modelled too, on its own.

What is hard. There are no threads, so nothing interleaves inside a handler; the
hard behaviour is in the *order of handlers* and in what one handler leaves for
the next:

- raw `QTcpSocket *` are kept in subscriptions, owners of outputs and requesters,
  and the sockets are deleted when a client leaves;
- `clientResetOutputs` picks one of two procedures by how many clients own
  outputs at that moment;
- exceptions leave handlers half done: `allOutputsReset` and `loadConfig` throw
  in the middle of a walk over modules, `loadConfig` also after it replaced the
  configuration, `jsonSetConfig` between the type and the name of a module;
- the process may be stopped at any point, and what `save_config` wrote decides
  whether and how the next one starts, after clients may have had it load any file;
- TCP cuts and joins lines at will;
- an alert may come at any point of a production log file being written;
- a module that is not active drops what the panel signals;
- on the bus, everything may happen between a command and its callback: other
  requests, departures, resets, the loss of the module; answers carry no number,
  are not awaited by any timer, and may belong to another command than the one
  they are given to; a module may report other outputs than it was sent.

What makes each correct:

- *module objects*: wanted and confirmed outputs agree between handlers; an
  output has no owner or a connected one; unowned outputs are at rest; a module
  under upgrade is frozen.
- *daemon core*: clients do not disturb each other's outputs; a departure
  releases everything and leaves nothing that points to the departed; everyone
  subscribed is told of every change; a restart restores what was saved; only
  allowed clients change anything; a module in use is not deleted; every
  request is answered.
- *TCP server*: each complete line is handled, once, in order.
- *conversions*: what is stored is reported, saved, loaded and framed as it is.
- *production logging*: a file is a gapless piece of the log with the neighbours
  of its alert.
- *module on the bus*: each request that was accepted is answered, once, and to
  the client that sent it; outputs that are wanted are brought to the module; an
  upgrade that had to wait begins; nothing stays half done.
- *panel*: inputs are those of the buttons' positions; both contacts of a button
  are seen closed only in passing;
  what is drawn is the buttons' positions and the lamps as they are.

`PROJECT.json` lists the hazards one by one with the properties that cover them.

## 2. The modules

```
                          OutputLeases
                               :  (INSTANCE)
                          MtbDaemonLeases ─┬─ MCDaemonOutputs, MCDaemonClients
                               │           └───────────────────────────┐
MtbModule ── MtbDaemon ── MtbDaemonProperties ─┬─ MCDaemonConfig       │
                                               └─ MtbDaemonProofs      │
                                                        │              │
                                          MtbDaemonStepProofs ── MtbDaemonOutputProofs

MtbUsb ── MtbUni ─┬─ MCMtbUni         Firmware ── UnisCodec ─┬─ MCUnisCodec
                  └─ MtbUniProofs                            └─ UnisCodecProofs
DaemonServer ─┬─ MCDaemonServer       ProdLog ─┬─ MCProdLog       SimPanel ─┬─ MCSimPanel
              └─ DaemonServerProofs            └─ ProdLogProofs             └─ SimPanelProofs
```

**MtbModule**: a module object is a record and a method an operator from record
to record. Outputs are bytes from `Values`; `0` is off, and `Unparsable` are
those whose saved form is refused when read. A method that throws has an
operator for what it did before (`AllOutputsResetThrows`, `LoadConfig` on an
unreadable entry, `JsonSetType` for a request that throws at its name).

**MtbDaemon**: the event loop. Each action is one handler with everything it
calls, down to the events sent and the lamps changed. `modules`, `subscribes`,
`topoSubscribes`, `writeAccess`, `clients` are the variables of that name in the
code; `wired` says whether the buttons are connected (only by a successful
`loadConfig`); `settings` is the `"server"` of `DaemonCoreApplication::config`, which
`save_config` writes as it was loaded; `answer` and `events` are what the last
step sent, and are there for the properties. `files` is the disk: per name, a
document with a `"server"` that is complete, malformed or missing and an entry per
module, a truncated one, or none. `ConfigFileName` is the daemon's own,
`load_config` may name any of `Names` and `save_config` any of `Writable`. A socket stands for an address a
`QTcpSocket` may have: when it is connected again it is a new client at the
same address, which is how a stale pointer would be inherited. `Stop` is the
end of the process between two handlers, `StopWhileSaving` between the
truncation and the writing of the file, `DisconnectTerminates` the exception
no one catches.

| Code | TLA+ |
|---|---|
| constructor, `main` | `FirstStart`, `StartLoaded`, `StartRefused`, `StartWithoutServer`, `Stop` |
| `serverNewConnection`, `serverClientDisconnected` | `Connect`, `Disconnect`, `DisconnectTerminates` |
| `serverReceived` and `serverCmd…` | `Request`: `Subscribing`, `Configuring`, `Operating`, `Asking`, one action per command |
| `MtbModule::jsonCommand` | `Accepted`, `Denied`, `Refused` |
| `clientResetOutputs` | `ModulesAfterReset`, `LampsAfterReset`, `ResetEvents` |
| `loadConfig` | `LoadNamed`, `ModuleAfterLoad`, `LoadFails`, `AllowClients`, `Loads` |
| `saveConfig` | `Saved`, `DefaultConfig` |
| `sendModuleInfo`, `sendOutputsChanged`, … | `EventsTo`, `ModuleInfo`, `OutputsSetEvents` |
| `simOnInputChanged` | `SimOnInputChanged` |

**OutputLeases** is what a client may rely on, without modules, queues and
pointers: an output is held by the client that changed it last, until that
client releases its outputs or leaves, when it goes to its rest value at once.
**MtbDaemonLeases** is the refinement mapping: `connected` is `clients`; the
holder of an output is its `whoSetOutput`; its value is `outputsWant`; its rest
value the configured safe output, or 0. `ImplementsLeases` says that every
behaviour of the daemon is one of leases. A step that ends the process is
`Restart`, a deleted module `Remove`, and a change of configuration
`Configure`. `Freed` leaves open whether outputs that nobody holds go to rest
with those of the leaving client: they do when it was the only setter.

**MtbUsb**: the queues of commands as a record with operators on it. Each pending
command has a field the code does not have, `awaited`, for whether MTB-USB will
still answer it. MTB-USB answers what it keeps in order; which command gets the
answer is then decided as the code does, by the first that accepts it.

**MtbUni**: one module on the bus, its commands and the clients. A handler is an
operator from the state to the state, as callbacks call `setOutputs`, which calls
`mtbusb.send`; the action is the outermost call. `owed` counts the answers each
client waits for, `overtaken` remembers that a reset wrote the outputs while a
`SetOutput` was under way, `misreported` that the module answered the last one
with other outputs than it was sent; they are only for the properties. What the
module reports (`Readings`) is any of the outputs: `mtbBusOutputsSet` confirms it
without comparing (`uni.cpp:165-168`).
`MtbBusActivate` is enabled in every state, as `moduleGotInfo` (`main.cpp:182`),
which calls it, looks at none.

| Code | TLA+ |
|---|---|
| `jsonSetOutput`, `jsonSetConfig`, `jsonUpgradeFw`, `jsonReboot` | `JsonSetOutput`, `JsonSetConfig`, `JsonUpgradeFw`, `JsonReboot` |
| `mtbBusActivate`, `activate`, `configSet`, `inputsRead`, `outputsReset` | operators of these names, continued by `OnOk` |
| `activationError`, `reactivateCheck` | `ActivationError`, `ReactivateCheck` |
| `mtbUsbOnModuleFail`, `mtbUsbDisconnected` | `MtbBusLost`, `MtbUsbDisconnected` |
| answer, no response, error of the bus, full buffer | `GotResponse`, `GotNoResponse`, `GotBusError`, `MtbUsbFull` |
| `serverClientDisconnected`, `clientResetOutputs` | `Disconnect`, `ResetMyOutputs` (`elsewhere` stands for the owners of outputs of other modules) |

**UnisCodec**: the conversions as operators, and a module whose outputs,
configuration and firmware go through them. JSON is a record `[type, value]`, a
frame is a tuple of sets of bits. **Firmware** has `parseFirmware`, as recursive
functions over the segments and over their bytes, and `alignFirmware`.

**DaemonServer**: lines of a client, sent, arriving in segments, and read. A
line is a request, one that parses and is not passed on, or one that does not
parse. `HandledInOrder` says that the requests handled are the set of those read,
by line number, and that they were handled with increasing numbers.

**ProdLog**: messages are numbers; an alert is a message of the detected level.
A file is named by the second, as in the code.

**SimPanel**: buttons with their push and pull contacts, driven by mouse events,
and the inputs of the module they are wired to. `setState` signals the push
contact and then the pull contact, and the module sends an event for each:
`published` holds the inputs in the events of the last step, in order. And the
buttons' lamps, signals and indicators, told of an output by `simOnOutputChanged`
and drawing themselves.
A button is given by the letters of its type in `gui.csv`.

Definitions under a `Mutant` comment are the definition after them with a
plausible mistake in it. Nothing uses them; `PROJECT.json` says which property
notices which.

## 3. The runs

| Run | Distinct states | What it shows |
|---|---|---|
| `daemon_outputs` | 49,839 (up to symmetry) | Three alike clients and two configured modules of two outputs, with stops: `OutputsSettled`, `OwnersConnected`, `UnownedAtRest`, `LampsShowOutputs`, `Isolation`, `DisconnectReleases`, `OutputChangesAnnounced`, and the refinement `ImplementsLeases`. |
| `daemon_config` | 190,607 | One client, two modules, create/configure/delete/use/save/load, a process that stops anywhere, no configuration file at first and two of another origin to load: `RestartRestores`, `RefusedOnlyIncoherent`, `LoadNeverRetypes`. |
| `daemon_clients` | 41,305 | A client allowed to write and one not, every command, one module: `TypeOK`, `SocketsConnected`, `EventsReachSubscribers`, `ActiveModulesStay`, `ModuleChangesAnnounced`, `ReadersOnlySubscribe`, `UpgradeFreezes`, and `ImplementsLeases` while modules are configured, rebooted, upgraded and deleted. |
| `unis_codec` | 77,170 | `ReadsBack`, `FrameCarriesOutputs`, `FirmwareJoined`, `LoadRestores` (with `UnloadableIfFlicker`: what cannot be loaded again has a safe output kept as flicker). |
| `uni_bus` | 318,330 | Two clients, one module, every answer MTB-USB and the module may give: `TypeOK`, `NothingStranded`, `OwedToRequester`, `ForgottenByOverwriting`, `AlwaysSettles` (liveness). |
| `server_lines` | 1,478 | `HandledInOrder`, `WaitOnlyBehindInvalid`, `RequestsHandled` (liveness). |
| `prod_log` | 1,613 | `HistoryIsLatest`, `FilesContiguous`, `NeighboursStored`, `FilesOnlyGrow`. |
| `sim_panel` | 45,888 | `InputsFollowButtons`, `SpringsBack`, `ButtonsShowState`, `SignalsShowLamps`, `BothClosedInPassing`. |

Four runs end in a violation: a sentence of the documentation or of a test, as a
property, and what the code does instead.

| Run | Property | Disagreement |
|---|---|---|
| `disconnect_terminates` | `DisconnectKeepsRunning` | `test_uni.py` disconnects a client that set an output, connects again and finds it reset. If a MTB-UNIS without configuration is registered (a refused `module_set_config` leaves one), `allOutputsReset` throws `bad_optional_access` and the daemon ends. |
| `set_outputs_unanswered` | `EveryRequestAnswered` | A `module_set_outputs` that changes an output gets no response: queueing the request is commented out. |
| `readers_delete` | `OnlyAllowedChangeModules` | `module_delete` does not ask for the right to write. |
| `flicker_misread` | `ReportedAsAsked` | Flicker 60 is stored as `60 \| 0x40` in place of the code of the rate, and reported as flicker 0. |

Other disagreements with the documents have no run of their own; the properties
they touch say what holds, and why it is not what the document says:

- `messages.md:610-611` sends `module_outputs_changed` to every subscribed client
  "excluding the client that requested the output setting". The requester gets it
  too, as the line that would queue it, and so have it left out, is the one
  commented out at `unis.cpp:105` (the cause of `set_outputs_unanswered`).
  `OutputChangesAnnounced` demands the event for the others only.
- `messages.md:652-654` announces every change of a module's configuration or state.
  A `module_set_config` whose name is no string is refused after the type was
  assigned (`module.cpp:134-138`): a module that is not active changes its type
  and nobody is told. `ModuleChangesAnnounced` excepts exactly this
  (`RetypedByRefusal`), and `load_config`.
- `doc.mtb-daemon.json.md:83-84`: `history` is how many messages *before* the alert
  are stored. The alert takes a place of the history before it is written
  (`logging.cpp:65-68`), so one message less is; `NeighboursStored` asks for
  `History - 1`.

What `daemon_config` shows of foreign files: a `load_config` replaces the
configuration before anything can fail (`main.cpp:736`), so after one of a file
without a usable `"server"`, which is answered with an error, the next
`save_config` writes a file the next start refuses. `RefusedOnlyIncoherent` lists
that among the reasons for a refusal; the others are a truncated file and an
incoherent entry of a MTB-UNIS.

What `uni_bus` shows of the code that goes through the bus is not all good, and
its properties say exactly how far it goes:

- A request to set outputs may never be answered: `jsonSetOutput` sends when the
  wanted outputs equal the confirmed ones, and they also do when one request
  changed an output and the next changed it back while the first one's
  `SetOutput` is under way; `setOutputs` then overwrites the requests sent.
  `ForgottenByOverwriting` says that this is the *only* way.
- A reset of the outputs (`allOutputsReset`, `outputsReset`) while a `SetOutput`
  is under way, and outputs that differ when the module object is made
  (`MtbUni::MtbUni` does not initialise them), leave wanted and confirmed outputs
  different with nothing under way: every later `module_set_outputs` is queued
  and never sent. So does a module that answers a `SetOutput` with other outputs
  than it was sent: those are confirmed, and nothing asks for the wanted ones
  again, until a departure, or a request that happens to find the two equal,
  sends what is wanted. `NothingStranded` and `AlwaysSettles` hold as long as
  none of these happened and MTB-USB discarded no command (`Undisturbed`).
- A command MTB-USB had no room for stays pending for good, as no timer looks at
  it, and takes the next answer that fits.
- The queues of output requests keep the sockets of departed clients, so `owed`
  of outputs may fall below zero for a client at a reused address; for
  configuration and upgrade `OwedToRequester` excludes that.

No sentence of the documentation is about this code, so none of it is a run that
ends in a violation.

### Bounds

- `daemon_outputs`: three clients are the fewest with which a client leaves or
  releases while *two others* own outputs, so that the choice between one, two
  and more setters has all its cases; two modules make the walk over modules
  and an owner of outputs on both; two outputs let two clients own outputs of
  one module. Safe values are on and off. The clients are alike and no property
  names one, so symmetry is sound; the run has no liveness property.
- `daemon_config`: two modules give a load that fails at the second after the
  first was loaded and the broadcast that throws at either; one client is enough
  as no property compares clients. A MTB-UNIS without configuration, as a refused
  request leaves it, gives an entry that cannot be read; a foreign file has one as
  its second module and no `"server"`, another a client that is no string. That an
  entry is also unreadable because of a safe output kept as flicker is the subject
  of `unis_codec`.
- `daemon_clients`: one module is enough, as the tables are per address. All
  commands are enabled, so this is the run in which every handler meets every
  state of the other handlers. Nothing is stopped here, saved or loaded, which the
  run above does.
- `unis_codec`: ports 7, 8, 16 and 24 lie on both sides of each boundary of the
  frame's bytes and of real and virtual outputs; outputs of each type are in
  range, at the limit and beyond it. Frame properties are of pairs of ports.
  Blocks of two bytes and pages of two blocks have segments that start in the
  middle of a block, cross blocks and pages, and share one; `UpgradeBound`
  lets a firmware come only before anything is set or saved, as what is made of
  it depends on neither.
- `uni_bus`: two places at MTB-USB, so that a third command waits in `m_out`; two
  clients, so that answers can go to the wrong one and a departure leaves
  another; one output, on or off, lets two requests cancel each other; two
  attempts of activation, so that one may be left. `MaxStimuli`, 4, is
  the number of requests, departures, losses and refusals of MTB-USB in a
  behaviour; answers and the timer are not counted. The cases above need two or
  three stimuli.
- `server_lines`: four lines allow a request, an invalid line, and requests that
  come with and after it. Connections share nothing here.
- `prod_log`: history, future and number of messages let an alert come before,
  with and after the last message of another one's file, and two files in one
  second.
- `sim_panel`: a button of each kind in `gui.csv`: with a latch, momentary both
  ways and lit, and momentary one way; two signals that share the output of their
  white lamp, and an indicator that shares the red one of the first. The button
  with both contacts can be moved directly from pulled to pushed with both mouse
  buttons, and be missed by an inactive module in any position.

Symbols such as `Commands` and `Lists` name what an instance explores. Requests
that are refused before they change anything are represented by one `Invalid`
value per place where they are refused.

`CHECK_DEADLOCK FALSE` is set where the model really ends: all lines sent and
read, all messages logged.

### Fairness

`MtbDaemon` has none: nothing obliges a client to send, to leave, or anyone to
stop the process, and its properties are of safety. `DaemonServer` has weak
fairness of arrival for each connection: TCP delivers what was sent while the
connection lasts, and the event loop then calls the slot. Arrival and the call
of `clientReadyRead` are one action as `readyRead` is emitted when data came; what
stays in the buffer behind an invalid line is *not* read again without new
data, which is why `RequestsHandled` is about requests with no invalid line
before them and `WaitOnlyBehindInvalid` says where lines may wait.

`MtbUni` assumes that MTB-USB, which answers what it keeps, and the 500 ms timer
of re-activation do not both stop while one of them has something to do: weak
fairness of `Running`. It is spelled out (`Fairness`), as evaluating `ENABLED` of
the callbacks takes ten times the time of the rest; on an instance with two
stimuli, TLC finds the two forms to imply each other. Which answer is given is not
subject to fairness: `AlwaysSettles` holds if every command ends in an error. No
client is obliged to anything.

## 4. What is proved

Assumed are only the named assumptions on constants: outputs are naturals and 0
is one, null values are different from what they stand for the absence of,
requests are built from values there are, a firmware is a sequence of segments of
bytes, MTB-USB keeps at least one command, a
history holds at least one message, an input of a module is wired to one contact of
one button (which no wiring that `gui.csv` writes out contradicts, but its `_/_` at
a module 0 would). Everything below holds for any number of sockets, addresses,
ports and values, any set of commands and files, any number of lines, messages,
pending commands and stimuli, any such panel and any clock. All invariants of the passing runs are proved, three of them
under conditions named below, and so are all their action properties and the
refinement, that one under a condition too.

### The daemon

`MtbDaemonProofs` begins with lemmas on the operators of `MtbModule`: that each keeps
a module in `Module`, and `Settled`, i.e. its outputs confirmed and its queues
empty, and what it leaves in outputs, owners and configuration.

| Theorem (`MtbDaemonProofs`, `MtbDaemonStepProofs`) | States |
|---|---|
| `Invariance` | `Spec => []Inv` |
| `TypeCorrect`, `NothingPending`, `NoDanglingSocket` | `Spec => []TypeOK`, `[]OutputsSettled`, `[]SocketsConnected` |
| `ClientsIsolated` | `Spec => Isolation` |
| `DepartureReleases` | `Spec => DisconnectReleases` |
| `LoadKeepsModules` | `Spec => LoadNeverRetypes` |
| `RefusalsExplained` | `Spec => []RefusedOnlyIncoherent` |
| `StartRestores` | `Spec => RestartRestores` |
| `OutputsAnnounced`, `ChangesAnnounced` | `Spec => OutputChangesAnnounced`, `ModuleChangesAnnounced` |
| `EventsReach` | `Spec => []EventsReachSubscribers` |
| `ActiveStay` | `Spec => ActiveModulesStay` |
| `ReadersHarmless` | `Spec => ReadersOnlySubscribe` |
| `UpgradesFreeze` | `Spec => UpgradeFreezes` |

The inductive invariant is

    Inv == TypeOK /\ Quiet /\ OutputsSettled /\ SocketsConnected

`Quiet` says that nothing is registered or connected while no process runs; a
start needs it, as `StartLoaded` keeps `subscribes` and `clients`. The
confirmation of outputs (`JsonSetOutput` sends only if `want = confirmed`,
`ResetOutputsOfClient` only if `sent` is empty) preserves `OutputsSettled` only
because it held before. The proof does not walk through four conjuncts per
action: `Parts` restates `Inv` per element of the module array (`Good`), lemma
`InvParts` shows the two equivalent, and each action is shown to keep `Parts`,
with one lemma for handlers that change a single module. The step theorems use
`Inv` of the state before the step and cases over `Next`. `ClientsIsolated`
rests on the observation that a reset of everything happens only when the
leaving client is the sole setter, so that nobody else owns an output.
`DepartureReleases` needs that a client that owns an output is among the setters,
hence that one of the two procedures applies, and `OutputsSettled`, as otherwise
`resetOutputsOfClient` would queue and not send.

`MtbDaemonOutputProofs` is about who owns outputs, what they are when nobody
does, and the lamps. Exceptions and reconfiguration break each of these in the
code, so the theorems say what must not have happened:

| Theorem | States | Why the condition is needed |
|---|---|---|
| `OwnersStayConnected` | `Spec /\ LoadsSucceed => []OwnersConnected` | `loadConfig` sets a MTB-UNIS active before it throws; its outputs can then be set, and without a configuration `resetOutputsOfClient` never frees them |
| `UnownedStayAtRest` | `Spec /\ ConfigurationsStay => []UnownedAtRest` | outputs nobody owns stay at the old safe values when a module is configured anew |
| `LampsStayTrue` | `Spec /\ DeletedDark => []LampsShowOutputs` | the panel is not told of a deleted module, so its lamps stay lit |
| `DaemonImplementsLeases` | `Spec /\ LoadsSucceed /\ ResetsComplete => ImplementsLeases` | a `reset_my_outputs` that throws leaves a part of the outputs held |
| `FixedModulesSafe` | `FixedModules` implies all four, from `Spec` alone | `Commands` without `load_config`, `module_set_config` and `module_delete`: a daemon whose file was prepared, as for a layout in operation |

The conditions are action formulas about the single step that goes wrong, not
about its consequences. `FixedModulesSafe` shows that they can hold while clients
come, go, set and reset in any order and the process stops anywhere. The runs
check the same properties with a state formula in place of the conditions (that
every MTB-UNIS is configured), or on instances in which they hold.

Each has an invariant of its own beside `Inv`: `OwnersSound` adds that an
unconfigured module has no owners and is not active, `OutputsAtRest` that an
output nobody owns is off or at the safe value of a configured module (a module
loaded anew has outputs that are off), `LampsShown` that an address without a
module on the panel has no lamp lit, as the next module there finds them off. For
the refinement, `ResetExact` and `LoadExact` say what the two walks over modules
do to each output; every action is then a step of `OutputLeases` or leaves the
holders, values and rests alone.

### The module on the bus

| Theorem (`MtbUniProofs`) | States |
|---|---|
| `UniTypes` | `Spec => [](TypeOK /\ Len(bus.pending) <= MaxPending)` |
| `AnswersReachRequesters` | `Spec => []OwedToRequester` |
| `OutputsNotStranded` | `Spec => []NothingStranded` |
| `ForgottenOnlyOverwritten` | `Spec => ForgottenByOverwriting` |

`RequestersKnown` strengthens `OwedToRequester` to clients that are not connected,
who are owed nothing: without it, one that connects at a departed client's
address could be owed an answer. It also says that a requester the module keeps is connected.

`NothingStranded` is far from inductive. The commands that are pending and those
that wait to be sent form one `Flow`. As long as nothing was `Discarded`, the
command MTB-USB answers is the first pending one and is paired with that answer
(`AnsweredFacts`, `PairedFacts`), so an answer takes the head of the flow away,
and what a callback sends goes to its end: for a response the callback runs
before its command is erased, for an error after, and `SendNextOut` may move a
command from one queue to the other in between. Lemma `SendNextFacts` shows that
none of this changes the order: the branch in which `sendNextOut` would put a
command behind the others is not taken after a command was erased. `Discarded`
never ends once it holds. `SteadyUndisturbed` says of the flow that it has a
`SetOutput` if requests wait or were sent, and, when none wait, that the *last*
`SetOutput` in it writes the wanted outputs (`Ordered`), or that they are confirmed
if there is none. What `Ordered` says is kept also when the module reported
outputs it was not sent, and is what makes the next answered `SetOutput` restore
the rest. TLC checks it on the instance of `uni_bus` as well.

`ForgottenByOverwriting` compares what a client is owed with its copies in the
two queues; lemmas `CopiesConcat` and `CopiesAppend` count them.

### Panel, log, server

| Theorem | States | Strengthening |
|---|---|---|
| `SimPanelProofs`: `PositionsType` | `Spec => []PositionsOK` | |
| `BothCloseOnlyInPassing`, `InputsKeepUp` | `Spec => BothClosedInPassing`, `[]InputsFollowButtons` | `ContactsSound`: between handlers no button has both contacts closed, the inputs follow the buttons, and no input is the missing contact |
| `ButtonsSpringBack` | `Spec => []SpringsBack` | `OthersInPlace`: only the button the mouse holds is out of place |
| `IconsShowButtons`, `SignalsShowRedFirst` | `Spec => []ButtonsShowState`, `[]SignalsShowLamps` | `LampsSound`: the elements lit are those whose output was last told to be on |
| `ProdLogProofs`: `HistoryKeepsLatest` | `Spec => []HistoryIsLatest` | `HistorySound`, also while it is shorter than `History` |
| `FilesHaveNoGaps`, `FilesKeepContents` | `Spec => []FilesContiguous`, `FilesOnlyGrow` | `FilesSound`: the file being written ends with the last message |
| `AlertsKeepNeighbours` | `Spec => []NeighboursStored` | `AlertsSound`: an alert's file is complete, or still open for as many messages as it lacks |
| `DaemonServerProofs`: `LinesWaitBehindInvalid` | `Spec => []WaitOnlyBehindInvalid` | `BufferSound`, `WaitSound`: also of clients that left |
| `RequestsStayInOrder` | `Spec => []HandledInOrder` | that each set of line numbers has an increasing enumeration, by its least bound (`WFMin`) in place of an induction |

### Conversions

| Theorem (`UnisCodecProofs`) | States | Strengthening |
|---|---|---|
| `OutputsReadBack` | `Spec => []ReadsBack` | `OutputsSound`: an output is kept as the byte of the JSON last accepted for it |
| `LoadsRestore` | `Spec => LoadRestores` | `ConfigSound`: safe outputs are among the bytes that accepted JSON gives (`Kept`), delays are 0 or 10 |
| `FramesCarry` | `Spec => []FrameCarriesOutputs` | `OutputsSound` |
| `FirmwaresJoin` | `Spec => []FirmwareJoined` | `FirmwareSound`: the firmware is that of the segments asked for |

`LoadRestores` does not hold of every byte: 2 to 63 would come back as 0 or 1. That
none of them is ever kept, though of the flicker rates 33, 60 and 300, cut to
eight bits, lie there but for `| 0x40`, is lemma `ByteFacts`; `SavedFacts` is the
round trip of the others.

What is computed step by step is proved by induction on a *set* of numbers.
Lemma `IterationExists` says that a function defined by its value at 0 and by how
each value follows from the one before exists, which the recursive functions of
`Firmware` need, and `UpTo` is the induction itself; both argue with the least
number for which they would fail. With them `PutSegmentFacts` follows a segment
byte by byte and `ParseFacts` the request segment by segment. `Joined` says what
holds of the firmware after the first `n` segments: which blocks there are, and at
each address the byte of the last segment that has one. That `mtbBusOutputsData`
and `moduleOutputsData` agree on which code is whose needs no induction: lemma
`PlaceFacts` shows that the number of ports up to a port runs through `1..n` as the
port runs through a set of `n` ports, and `InOrderFacts` that it is the port's place
in the enumeration.

### Model-checked only

- Liveness: `RequestsHandled`, `AlwaysSettles`, which are out of the prover's
  reach.
- The four runs that end in a violation, which are counterexamples.

## 5. What is not modelled

- `mtbusb/*.cpp`, `modules/uni.cpp` and `rc.h` are not in `mtb-daemon-sim.pro`
  (`mtbusb-receive.cpp` would not compile as it is: `processUsbResponse` is not
  virtual). They are modelled by `MtbUsb` and `MtbUni` as they read, but not
  composed with `MtbDaemon`, whose modules are those of the build: there, the
  slots that would call `mtbBusActivate` (`main.cpp:188`) are connected to nothing,
  and a reboot and an upgrade begin and never end.
- Of the bus: frames, checksums and the serial port; discovery of modules and
  commands about MTB-USB itself; commands of other modules, which share the queues;
  diagnostics; inputs, which nothing else depends on. Sending again and time-outs
  are not in the code: `histTimerTick` is empty. The steps of an upgrade
  after `fwUpgdInit` are stubs.
- Of `MtbUni`: its conversions, which resemble those of `UnisCodec`; callbacks of a module that `module_delete` freed while its commands are
  pending, which run on a dangling `this`; several modules, except through the
  clients that own outputs `elsewhere`.
- MTB-RC (`rc.h`), a header without an implementation.
- Servo positions and speeds, names, beacon, diagnostic data, versions: copied,
  and nothing else depends on them.
- Texts of messages, the log on the terminal, drawing, images, and the parsing
  of `gui.csv`.
- Files of another origin have entries as the daemon writes them (an address and
  a type in range, an entry that is an object), and `allowedClients` is the same
  in every complete one. What the rest of a file configures takes effect at the
  start only (`logger.loadConfig`, the server's host and port), and nothing in the
  model depends on it. A first start that cannot write its file, which an
  exception ends (`main.cpp:806`), is not an action.
- `type_code` is cut to eight bits when a module is made (`main.cpp:616`) and not
  when it is changed; the model's types are the known ones.
- Each `load_config` that comes to the buttons connects them once more
  (`main.cpp:771-775`): an event of a contact is then sent several times, which
  `wired`, the set `events` and `published` do not count.
- Of the panel: buttons of a module that is deleted and made anew, whose inputs
  are then off under a latched button; wiring of several buttons to one input. In
  `gui.csv` that is the `_/_` of six buttons without a pull, which is read as input
  0 of module 0 (`WiringAssumption` does not hold of a module at address 0).
- `serializeForMtbUsb` and `fromMtbUsb` of the configuration: never called.
- Addresses outside the module array: `isValidModuleAddress` takes eight bits of
  a larger number; the code behind it would read beyond the array.
- `ProdLog` takes the detected level to be logged at all, and a history of at
  least one message, as in the default configuration.
- A crash of the machine: writing is what the process did, not what reached the
  disk.

## 6. Plan

Done, in this order: module objects and daemon core (`MtbModule`, `MtbDaemon`,
its properties, three instances); proofs of the invariant and of five step
properties; conversions, server, logging, panel; the module on the bus and the
commands to MTB-USB; the joining of firmware; `OutputLeases` and the refinement;
proofs of the daemon's remaining properties and of the refinement, of panel, log
and server, and of the safety of the module on the bus.
Then proofs about the conversions and the joining of firmware.

Next:

1. That commands to MTB-USB keep their order (`Flow`) as a property of `MtbUsb`
   with a module of its own, and callbacks given to the command answered.
2. `DaemonImplementsLeases` with a step of `OutputLeases` for a reset that throws,
   which would do without `ResetsComplete`.
