-------------------------------- MODULE MtbUni --------------------------------
(***************************************************************************)
(* A module on the bus, MtbUni (modules/uni.cpp, modules/module.cpp): what *)
(* a MTB-UNIS would be if its commands went to MTB-USB and were answered   *)
(* later, which is what its queues of requests are for.  The state is that *)
(* of one module, of the queue of its commands, and of the clients.        *)
(*                                                                         *)
(* Between a command and its callback anything may happen: requests,       *)
(* departures, resets, the loss of the module, other answers.  Inputs and  *)
(* events are left out: no other step reads them.  Requests that are       *)
(* refused are answered in their handler and change nothing, so they are   *)
(* no step.                                                                *)
(***************************************************************************)
EXTENDS MtbUsb, Integers, FiniteSets

CONSTANTS
  Sockets,     (* addresses of QTcpSocket objects, reused after a delete   *)
  NoSocket,    (* nullptr                                                  *)
  NoRequest,   (* configWriting, fwUpgrading or onOk without a value       *)
  NoConfig,    (* config, configToWrite without a value                    *)
  NoData,      (* the data of a command that carries none                  *)
  Keep,        (* a port a module_set_outputs request does not name        *)
  Ports,
  Values,      (* output bytes, 0 is off                                   *)
  Activations, (* MTB_MODULE_ACTIVATIONS                                   *)
  MaxStimuli   (* requests and happenings of a behaviour                   *)

ASSUME UniAssumption ==
  /\ 0 \in Values /\ Values \subseteq Nat /\ Keep \notin Values
  /\ NoSocket \notin Sockets /\ NoRequest \notin Sockets \cup {NoSocket}
  /\ Activations \in Nat \ {0} /\ MaxStimuli \in Nat

Outputs == [Ports -> Values]
Configs == Outputs                     \* the safe value of every output
ASSUME NoConfigAssumption == NoConfig \notin Configs

AllZero == [p \in Ports |-> 0]

VARIABLES
  clients,     (* DaemonServer::clients                                    *)
  module,      (* the fields of the module                                 *)
  bus,         (* MtbUsb: m_pending and m_out                              *)
  owed,        (* answers a client waits for, by kind of request           *)
  overtaken,   (* a reset wrote the outputs while a SetOutput was under    *)
               (* way, or they were not the same to begin with             *)
  misreported, (* the last SetOutput to be answered was answered with      *)
               (* other outputs than it carried                            *)
  stimuli      (* how many requests and happenings there were              *)

vars == <<clients, module, bus, owed, overtaken, misreported, stimuli>>

Module == [active     : BOOLEAN,
           activating : BOOLEAN,
           remaining  : 0..Activations,
           boot       : BOOLEAN,       \* busModuleInfo.inBootloader()
           reboot     : Sockets \cup {NoRequest},
           config     : Configs \cup {NoConfig},
           toWrite    : Configs \cup {NoConfig},
           writing    : Sockets \cup {NoSocket, NoRequest},
           fw         : Sockets \cup {NoSocket, NoRequest},
           begun      : BOOLEAN,       \* fwUpgdInit was called
           want       : Outputs,
           confirmed  : Outputs,
           who        : [Ports -> Sockets \cup {NoSocket}],
           waiting    : Seq(Sockets \cup {NoSocket}),
           sent       : Seq(Sockets \cup {NoSocket})]

\* A command and what its callback goes on with.
Command == [kind : Kinds, then : {"request", "activation"}, data : Outputs \cup {NoData}]

Requested == {"outputs", "config", "upgrade", "reboot"}

TypeOK ==
  /\ clients \subseteq Sockets
  /\ module \in Module
  /\ bus.pending \in Seq([cmd : Command, awaited : BOOLEAN]) /\ bus.out \in Seq(Command)
  /\ owed \in [Sockets -> [Requested -> Int]]
  /\ overtaken \in BOOLEAN /\ misreported \in BOOLEAN
  /\ stimuli \in 0..MaxStimuli

\* What handlers change, passed from call to call; the bound name has TLC
\* evaluate the state once.
Now == [module |-> module, bus |-> bus, owed |-> owed, overtaken |-> overtaken]
Become(state) ==
  \E s \in {state} :
    module' = s.module /\ bus' = s.bus /\ owed' = s.owed /\ overtaken' = s.overtaken

SendCmd(s, kind, then, data) ==
  [s EXCEPT !.bus = Send(@, [kind |-> kind, then |-> then, data |-> data])]

\* A request that is not answered in its handler, and its answer: server.send
\* drops what is for a socket that is not connected.
Ask(s, c, kind)   == [s EXCEPT !.owed[c][kind] = @ + 1]
Reply(s, c, kind) == IF c \in clients THEN [s EXCEPT !.owed[c][kind] = @ - 1] ELSE s

\* Copies of a socket in a queue of module_set_outputs requests.
Copies(queue, c) == Cardinality({i \in DOMAIN queue : queue[i] = c})

SetOutputUnderWay(b) == \E cmd \in Commands(b) : cmd.kind = "SetOutput"

-----------------------------------------------------------------------------
(* Outputs *)

Upgrading(m) == m.fw # NoRequest
Writing(m)   == m.writing # NoRequest
Safe(m)      == IF m.config # NoConfig THEN m.config ELSE AllZero

\* fwUpgdInit: what would follow is not in the code.
FwUpgdInit(s)  == [s EXCEPT !.module.begun = TRUE]

IfUpgrading(s) == IF Upgrading(s.module) THEN FwUpgdInit(s) ELSE s

\* Mutant: the waiting requests are cleared before they are copied.
SetOutputsCleared(s) ==
  SendCmd([s EXCEPT !.module.sent = <<>>, !.module.waiting = <<>>],
          "SetOutput", "request", s.module.want)

\* setOutputs: the requests of a SetOutput under way are overwritten.
SetOutputs(s) ==
  SendCmd([s EXCEPT !.module.sent = s.module.waiting, !.module.waiting = <<>>],
          "SetOutput", "request", s.module.want)

\* Mutant: the requests that came in the meantime are not sent.
WaitingLeft(s, confirmed) ==
  IfUpgrading([s EXCEPT !.module = [@ EXCEPT !.sent = <<>>, !.confirmed = confirmed]])

\* mtbBusOutputsSet and mtbBusOutputsNotSet: the requests sent are answered,
\* then those that came in the meantime are sent.
OutputsAnswered(s, confirmed) ==
  LET m        == s.module
      answered == [c \in Sockets |->
                     IF c \in clients THEN [s.owed[c] EXCEPT !["outputs"] = @ - Copies(m.sent, c)]
                     ELSE s.owed[c]]
      told     == [s EXCEPT !.owed = answered,
                            !.module = [m EXCEPT !.sent = <<>>, !.confirmed = confirmed]]
  IN  IF m.waiting = <<>> THEN IfUpgrading(told) ELSE SetOutputs(told)

\* The outputs the module reports are taken as they are: whether they are the
\* ones it was to set is left open in the code (uni.cpp:168).
MtbBusOutputsSet(s, data) == OutputsAnswered(s, data)
MtbBusOutputsNotSet(s)    == OutputsAnswered(s, s.module.want)

\* The outputs are written without the bus: allOutputsReset, outputsReset.
Reset(s) ==
  [s EXCEPT !.module = [@ EXCEPT !.want = Safe(s.module), !.confirmed = Safe(s.module),
                                 !.who = [p \in Ports |-> NoSocket]],
            !.overtaken = @ \/ SetOutputUnderWay(s.bus)]

Changed(m, req) == {p \in Ports : req[p] # Keep /\ req[p] # m.want[p]}

\* jsonSetOutput; a request that changes nothing is answered at once.
JsonSetOutput(c, req) ==
  LET ports  == Changed(module, req)
      queued == [Ask(Now, c, "outputs") EXCEPT
                   !.module.want = [p \in Ports |-> IF p \in ports THEN req[p] ELSE @[p]],
                   !.module.who  = [p \in Ports |-> IF p \in ports THEN c ELSE @[p]],
                   !.module.waiting = Append(@, c)]
  IN  /\ module.active /\ ~Upgrading(module) /\ ~module.boot /\ ~Writing(module)
      /\ ports # {}
      /\ Become(IF module.want = module.confirmed THEN SetOutputs(queued) ELSE queued)

\* resetOutputsOfClient: also of a module that is not active.
ResetOutputsOfClient(s, c) ==
  LET ports == {p \in Ports : s.module.who[p] = c}
      safe  == [s EXCEPT
                  !.module.want = [p \in Ports |-> IF p \in ports THEN Safe(s.module)[p] ELSE @[p]],
                  !.module.who  = [p \in Ports |-> IF p \in ports THEN NoSocket ELSE @[p]],
                  !.module.waiting = Append(@, NoSocket)]
  IN  IF s.module.config = NoConfig \/ ports = {} THEN s
      ELSE IF s.module.sent = <<>> THEN SetOutputs(safe) ELSE safe

\* clientResetOutputs, with the clients that own outputs of other modules.
ClientResetOutputs(s, c, elsewhere) ==
  LET setters == {x \in Sockets : \E p \in Ports : s.module.who[p] = x} \cup elsewhere
  IN  IF Cardinality(setters) >= 2 THEN ResetOutputsOfClient(s, c)
      ELSE IF setters = {c} THEN Reset(s) ELSE s

-----------------------------------------------------------------------------
(* Configuration, firmware, reboot *)

\* mtbBusConfigWritten and mtbBusConfigNotWritten
ConfigAnswered(s, config) ==
  LET done == [s EXCEPT !.module = [@ EXCEPT !.config = config, !.writing = NoRequest]]
  IN  IfUpgrading(Reply(done, s.module.writing, "config"))

MtbBusConfigWritten(s)    == ConfigAnswered(s, s.module.toWrite)
MtbBusConfigNotWritten(s) == ConfigAnswered(s, s.module.config)

\* jsonSetConfig: what is the same as last asked for is not sent, whether the
\* module took it or not.
JsonSetConfig(c, config) ==
  LET asked == [Ask(Now, c, "config") EXCEPT !.module.toWrite = config, !.module.writing = c]
  IN  /\ ~Writing(module) /\ ~Upgrading(module) /\ ~module.boot
      /\ Become(IF module.active /\ module.toWrite # config
                THEN SendCmd(asked, "SetConfig", "request", NoData)
                ELSE MtbBusConfigWritten(asked))

\* jsonUpgradeFw: fwUpgrading is set before the firmware is parsed; one that
\* does not parse is answered by the error.
JsonUpgradeFw(c, parses) ==
  LET upgrading == [Now EXCEPT !.module.fw = c]
      asked     == Ask(upgrading, c, "upgrade")
  IN  /\ ~Upgrading(module)
      /\ Become(IF ~parses THEN upgrading
                ELSE IF ~Writing(module) /\ module.sent = <<>> THEN FwUpgdInit(asked) ELSE asked)

\* mtbBusLost
Lost(s) == [s EXCEPT !.module = [@ EXCEPT !.active = FALSE, !.activating = FALSE, !.remaining = 0]]

\* jsonReboot and reboot: nothing is sent, fullyActivated ends it.
JsonReboot(c) ==
  /\ module.reboot = NoRequest
  /\ Become(Lost([Ask(Now, c, "reboot") EXCEPT !.module.reboot = c]))

\* loadConfig of a registered module
LoadConfig(config) ==
  Become([Now EXCEPT !.module.active = TRUE, !.module.config = config])

-----------------------------------------------------------------------------
(* Activation: configuration, inputs, outputs, one command after the other *)

Proceed(s, kind) == SendCmd(s, kind, "activation", NoData)

Activate(s) ==
  Proceed([s EXCEPT !.module.activating = TRUE],
          IF s.module.config # NoConfig THEN "SetConfig" ELSE "GetConfig")

ConfigSet(s)  == Proceed(s, "GetInputs")
InputsRead(s) == Proceed(s, "ResetOutputs")

\* outputsReset and fullyActivated, which ends a reboot.
OutputsReset(s) ==
  LET active == [Reset(s) EXCEPT !.module.activating = FALSE, !.module.remaining = 0,
                                 !.module.active = TRUE, !.module.reboot = NoRequest]
  IN  IF s.module.reboot = NoRequest THEN active ELSE Reply(active, s.module.reboot, "reboot")

\* Mutant: the number of attempts that remain passes zero.
AttemptsBelowZero(s) ==
  [s EXCEPT !.module.activating = FALSE, !.module.remaining = @ - 1]

\* activationError
ActivationError(s) ==
  [s EXCEPT !.module.activating = FALSE,
            !.module.remaining = IF @ > 0 THEN @ - 1 ELSE 0]

\* mtbBusActivate, for what moduleGotInfo brings.
MtbBusActivate(boot) ==
  LET informed == [Now EXCEPT !.module.remaining = Activations, !.module.boot = boot]
  IN  Become(IF boot THEN OutputsReset(informed) ELSE Activate(informed))

\* tReactivateTick
ToReactivate == ~module.activating /\ module.remaining > 0 /\ ~module.active
ReactivateCheck ==
  /\ ToReactivate
  /\ Become(Activate(Now))
  /\ UNCHANGED <<clients, misreported, stimuli>>

\* mtbUsbOnModuleFail
MtbBusLost == ~Upgrading(module) /\ module.reboot = NoRequest /\ Become(Lost(Now))

\* mtbUsbOnDisconnect
MtbUsbDisconnected == Become(Reset([Now EXCEPT !.module.active = FALSE]))

-----------------------------------------------------------------------------
(* Answers of MTB-USB *)

\* What the callback of a command does with a response ...
OnOk(s, cmd, data) ==
  CASE cmd.kind = "SetOutput"    -> MtbBusOutputsSet(s, data)
    [] cmd.kind = "GetConfig"    -> ConfigSet([s EXCEPT !.module.config = data])
    [] cmd.kind = "GetInputs"    -> InputsRead(s)
    [] cmd.kind = "ResetOutputs" -> OutputsReset(s)
    [] cmd.kind = "SetConfig"    ->
         IF cmd.then = "request" THEN MtbBusConfigWritten(s) ELSE ConfigSet(s)

\* ... and with an error.
OnError(s, cmd) ==
  CASE cmd.then = "activation" -> ActivationError(s)
    [] cmd.kind = "SetOutput"  -> MtbBusOutputsNotSet(s)
    [] OTHER                   -> MtbBusConfigNotWritten(s)

SomethingAwaited == Answered(bus) # 0
AnsweredCmd      == bus.pending[Answered(bus)].cmd

\* The callback runs, then the command is erased, then the next one is sent.
Respond(reading) ==
  LET paired == PairedWithResponse(bus, AnsweredCmd.kind)
      cmd    == bus.pending[paired].cmd
      called == OnOk(Now, cmd, reading)
  IN  /\ Become([called EXCEPT !.bus = SendNextOut(Erase(@, Answered(bus), paired))])
      /\ misreported' = IF cmd.kind = "SetOutput" THEN reading # cmd.data ELSE misreported

\* pendingTimeoutError: the command is erased, then its callback runs.
Fail(paired) ==
  LET erased == [Now EXCEPT !.bus = Erase(@, Answered(bus), paired)]
      cmd    == bus.pending[paired].cmd
      called == OnError(erased, cmd)
  IN  /\ Become([called EXCEPT !.bus = SendNextOut(@)])
      /\ misreported' = (misreported /\ cmd.kind # "SetOutput")

\* What the answers carry is the module's: any configuration, and any outputs,
\* those it was to set or not.
Readings ==
  CASE AnsweredCmd.kind = "SetOutput" -> Outputs
    [] AnsweredCmd.kind = "GetConfig" -> Configs
    [] OTHER                          -> {NoData}

GotResponse   == SomethingAwaited /\ \E reading \in Readings : Respond(reading)
GotNoResponse == SomethingAwaited /\ Fail(PairedWithNoResponse(bus, AnsweredCmd.kind))
GotBusError   == SomethingAwaited /\ Fail(PairedWithBusError)

MtbUsbAnswers == UNCHANGED <<clients, stimuli>> /\ (GotResponse \/ GotNoResponse \/ GotBusError)

\* MTB-USB has no room for the command and says so.
MtbUsbFull ==
  SomethingAwaited /\ bus' = FullBuffer(bus) /\ UNCHANGED <<module, owed, overtaken>>

-----------------------------------------------------------------------------
(* Clients *)

Connect(c) == c \notin clients /\ clients' = clients \cup {c} /\ Become(Now)

\* Mutant: the request that is being written keeps its socket.
WriterStays(s, c) == [s EXCEPT !.module.fw = IF @ = c THEN NoSocket ELSE @]

\* clientDisconnected: the queues of outputs keep the socket.
ClientDisconnected(s, c) ==
  LET Forgot(who) == IF who = c THEN NoSocket ELSE who
  IN  [s EXCEPT !.module.writing = Forgot(@), !.module.fw = Forgot(@)]

\* serverClientDisconnected: clientDisconnected, then clientResetOutputs.  What
\* the client waited for is nobody's any more.
Disconnect(c, elsewhere) ==
  LET left == [ClientDisconnected(Now, c) EXCEPT !.owed[c] = [kind \in Requested |-> 0]]
  IN  /\ c \in clients /\ clients' = clients \ {c}
      /\ Become(ClientResetOutputs(left, c, elsewhere))

\* reset_my_outputs
ResetMyOutputs(c, elsewhere) == Become(ClientResetOutputs(Now, c, elsewhere))

Request(c) ==
  \/ \E req \in [Ports -> Values \cup {Keep}] : JsonSetOutput(c, req)
  \/ \E config \in Configs : JsonSetConfig(c, config)
  \/ \E parses \in BOOLEAN : JsonUpgradeFw(c, parses)
  \/ JsonReboot(c)
  \/ \E elsewhere \in SUBSET clients : ResetMyOutputs(c, elsewhere)

Happening ==
  \/ \E config \in Configs : LoadConfig(config)
  \/ \E boot \in BOOLEAN : MtbBusActivate(boot)
  \/ MtbBusLost
  \/ MtbUsbDisconnected
  \/ MtbUsbFull
  \/ \E c \in clients : Request(c)

\* Every request, departure and message is one of MaxStimuli; the answers of
\* MTB-USB and the timer are not.
Stimulated ==
  /\ stimuli < MaxStimuli /\ stimuli' = stimuli + 1 /\ UNCHANGED misreported
  /\ \/ Happening /\ UNCHANGED clients
     \/ \E c \in Sockets : Connect(c)
     \/ \E c \in clients : \E elsewhere \in SUBSET clients : Disconnect(c, elsewhere)

\* The module was loaded from the file, or has just been discovered.  The
\* constructor leaves the outputs uninitialised: they hold any values.
Init ==
  /\ clients = Sockets /\ bus = Empty /\ stimuli = 0 /\ misreported = FALSE
  /\ owed = [c \in Sockets |-> [kind \in Requested |-> 0]]
  /\ \E config \in Configs \cup {NoConfig}, want \in Outputs, confirmed \in Outputs :
       /\ overtaken = (want # confirmed)
       /\ module = [active |-> config # NoConfig, activating |-> FALSE, remaining |-> 0,
                    boot |-> FALSE, reboot |-> NoRequest, config |-> config, toWrite |-> NoConfig,
                    writing |-> NoRequest, fw |-> NoRequest, begun |-> FALSE,
                    want |-> want, confirmed |-> confirmed, who |-> [p \in Ports |-> NoSocket],
                    waiting |-> <<>>, sent |-> <<>>]

Running == MtbUsbAnswers \/ ReactivateCheck

Next == Stimulated \/ Running

\* MTB-USB and the timer do not both stop while there is something to do.  This
\* is WF_vars(Running), spelled out: Running is enabled while one of the two has
\* something to do, and its steps are those that are no stimulus.
CanRun   == SomethingAwaited \/ ToReactivate
Fairness == []<>~CanRun \/ []<><<UNCHANGED stimuli>>_vars

Spec == Init /\ [][Next]_vars /\ Fairness

-----------------------------------------------------------------------------
(* Properties *)

\* MTB-USB has discarded no command, no reset has overtaken one, the outputs did
\* not differ before anything was asked for, and the module reported the outputs
\* it was to set when it was last asked.  If it did not, outputs may stay wanted
\* and unconfirmed with nothing under way; a module_set_outputs is then queued
\* and not sent, until a departure, or a request that happens to find the two
\* equal, sends what is wanted.
Undisturbed == ~overtaken /\ ~misreported /\ ~Discarded(bus)

\* Outputs that are wanted and not confirmed, and requests that wait, have a
\* SetOutput under way that will bring them on: jsonSetOutput leaves sending to
\* the answer of the one before.  A module that once reported other outputs is
\* back to this with the next SetOutput it answers as it should.
NothingStranded ==
  (Undisturbed /\ (module.want # module.confirmed \/ module.waiting # <<>> \/ module.sent # <<>>))
    => SetOutputUnderWay(bus)

\* A connected client waits for the answer to a module_set_config, or to a
\* firmware upgrade, only while the module keeps it as the requester: no answer
\* is given twice, and none to a client that took over the socket's address.
OwedToRequester ==
  \A c \in clients :
    /\ owed[c]["config"] = IF module.writing = c THEN 1 ELSE 0
    /\ owed[c]["upgrade"] \in 0..(IF module.fw = c THEN 1 ELSE 0)

\* Requests of c to set outputs that nothing will answer.
Forgotten(c) == owed[c]["outputs"] - Copies(module.waiting \o module.sent, c)

\* A request to set outputs leaves the queues without an answer only when
\* another one finds the wanted outputs equal to the confirmed ones while a
\* SetOutput is still under way, so that setOutputs overwrites its requests.
ForgettingStep ==
  (\E c \in clients \cap clients' : Forgotten(c)' > Forgotten(c)) =>
    /\ module.sent # <<>> /\ module.want = module.confirmed /\ module.waiting' = <<>>
    /\ \E c \in clients : owed'[c]["outputs"] = owed[c]["outputs"] + 1
ForgottenByOverwriting == [][ForgettingStep]_vars

Settled ==
  /\ bus = Empty /\ ~module.activating /\ ~Writing(module)
  /\ module.want = module.confirmed /\ module.waiting = <<>> /\ module.sent = <<>>
  /\ (\E c \in clients : owed[c]["upgrade"] > 0) => module.begun

\* Again and again everything is sent, answered and confirmed, and an upgrade
\* that had to wait for it has begun, unless the module is not Undisturbed: a
\* reset that overtakes a command, and a module that reports other outputs than
\* it was to set, wedge every later module_set_outputs.
AlwaysSettles == []<>(Undisturbed => Settled)
=============================================================================
