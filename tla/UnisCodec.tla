------------------------------ MODULE UnisCodec ------------------------------
(***************************************************************************)
(* What a MTB-UNIS (modules/unis.cpp) makes of the outputs and delays in a *)
(* request: the byte it keeps, the JSON it reports, the JSON it saves, and *)
(* the frame it would send on the bus, and of the firmware in a request.   *)
(* The state is that of one module: its outputs, its configuration, the    *)
(* saved form of the configuration, its firmware, and what outputs and     *)
(* firmware were last asked for, which the code does not keep.             *)
(***************************************************************************)
EXTENDS Firmware, FiniteSets, SequencesExt, Functions

CONSTANTS
  Ports,     (* the output ports in use, of 0..27                          *)
  Outputs,   (* outputs a request may carry, [type, value] objects         *)
  Delays,    (* input delays a request may carry, in tenths of a second    *)
  SafePorts, (* the ports a configuration gives a safe output other than 0 *)
  Firmwares, (* firmwares a request may carry, sequences of segments       *)
  NoFile,    (* nothing was saved yet                                      *)
  NoFirmware (* no firmware upgrade was asked for                          *)

Io      == 0..15     \* UNIS_IO_CNT real outputs, the rest is virtual
Virtual == 16..27
ASSUME PortsAssumption == Ports \subseteq Io \cup Virtual /\ SafePorts \subseteq Ports

Types == {"plain", "s-com", "flicker"}
ASSUME OutputsAssumption ==
  Outputs \subseteq [type : Types, value : Nat] /\ Delays \subseteq Nat

FlickerRates == <<60, 120, 180, 240, 300, 600, 33, 66>>

ASSUME FirmwaresAssumption ==
  Firmwares \subseteq Seq([addr : Nat, data : Seq(Nat)])

\* flickMtbUnisToPerMin
FlickMtbUnisToPerMin(flick) == IF flick \in DOMAIN FlickerRates THEN FlickerRates[flick] ELSE 0

\* value | 0x40
Or64(value) == IF (value \div 64) % 2 = 1 THEN value ELSE value + 64

-----------------------------------------------------------------------------
(* Outputs *)

\* Mutant: the limit of s-com is not checked.
AnySComAccepted(json) ==
  \/ json.type = "plain"   /\ json.value \in {0, 1}
  \/ json.type = "s-com"
  \/ json.type = "flicker" /\ json.value \in Range(FlickerRates)

\* jsonOutputToByte does not throw.
Accepted(json) ==
  \/ json.type = "plain"   /\ json.value \in {0, 1}
  \/ json.type = "s-com"   /\ json.value <= 127
  \/ json.type = "flicker" /\ json.value \in Range(FlickerRates)

\* The byte keeps the rate itself, not the code of the rate, cut to 8 bits.
JsonOutputToByte(json) ==
  CASE json.type = "plain"   -> json.value
    [] json.type = "s-com"   -> (json.value + 128) % 256
    [] json.type = "flicker" -> Or64(json.value) % 256

IsSCom(byte)    == byte >= 128
IsFlicker(byte) == byte \in 64..127

\* outputsToJson at a port: virtual outputs are always plain.
OutputToJson(port, byte) ==
  CASE port \in Io /\ IsSCom(byte)    -> [type |-> "s-com", value |-> byte - 128]
    [] port \in Io /\ IsFlicker(byte) -> [type |-> "flicker", value |-> FlickMtbUnisToPerMin(byte % 16)]
    [] OTHER                          -> [type |-> "plain", value |-> byte % 2]

\* Mutant: every output is saved as plain.
SafePlainToJson(byte) == [type |-> "plain", value |-> byte % 2]

\* MtbUnisConfig::json of a safe output: a flicker is saved by the low bits.
SafeOutputToJson(byte) ==
  CASE IsSCom(byte)    -> [type |-> "s-com", value |-> byte - 128]
    [] IsFlicker(byte) -> [type |-> "flicker", value |-> byte % 16]
    [] OTHER           -> [type |-> "plain", value |-> byte % 2]

-----------------------------------------------------------------------------
(* The frame of CmdMtbModuleSetOutput: bytes of bits, most significant first *)

Byte(bits, first)   == {i - first : i \in bits \cap first..(first + 7)}
Bits(byte, first)   == {i + first : i \in byte}
NonPlain(outputs)   == {i \in Ports \cap Io : outputs[i] >= 64}
PlainOn(outputs)    == {i \in Ports : outputs[i] > 0} \ NonPlain(outputs)

\* The members of a set of ports, lowest first.
InOrder(set) == CHOOSE s \in [1..Cardinality(set) -> set] :
                  \A i, j \in DOMAIN s : i < j => s[i] < s[j]

\* Mutant: the virtual outputs' bytes are swapped.
MtbBusOutputsSwapped(outputs) ==
  [mask |-> <<Byte(NonPlain(outputs), 8), Byte(NonPlain(outputs), 0)>>,
   full |-> <<Byte(PlainOn(outputs), 16), Byte(PlainOn(outputs), 24),
              Byte(PlainOn(outputs), 8), Byte(PlainOn(outputs), 0)>>,
   codes |-> [n \in 1..Cardinality(NonPlain(outputs)) |->
                outputs[InOrder(NonPlain(outputs))[n]]]]

\* mtbBusOutputsData
MtbBusOutputsData(outputs) ==
  [mask |-> <<Byte(NonPlain(outputs), 8), Byte(NonPlain(outputs), 0)>>,
   full |-> <<Byte(PlainOn(outputs), 24), Byte(PlainOn(outputs), 16),
              Byte(PlainOn(outputs), 8), Byte(PlainOn(outputs), 0)>>,
   codes |-> [n \in 1..Cardinality(NonPlain(outputs)) |->
                outputs[InOrder(NonPlain(outputs))[n]]]]

\* moduleOutputsData
ModuleOutputsData(data) ==
  LET mask == Bits(data.mask[1], 8) \cup Bits(data.mask[2], 0)
      on   == Bits(data.full[1], 24) \cup Bits(data.full[2], 16)
                \cup Bits(data.full[3], 8) \cup Bits(data.full[4], 0)
  IN  [i \in Ports |-> IF i \in mask THEN data.codes[Cardinality({k \in mask : k <= i})]
                       ELSE IF i \in on THEN 1 ELSE 0]

-----------------------------------------------------------------------------
(* Input delays *)

\* fromJson: safeDouble returns an int, so the tenths are gone before * 10.
DelayOf(tenths)       == (tenths \div 10) * 10
DelayAccepted(tenths) == DelayOf(tenths) <= 15

-----------------------------------------------------------------------------
VARIABLES
  outputs,   (* outputsWant, and outputsConfirmed, as there is no bus      *)
  asked,     (* per port, the last accepted output of a request            *)
  safe,      (* config.outputsSafe                                         *)
  delay,     (* config.inputsDelay, of all inputs                          *)
  saved,     (* the "config" object in the file                            *)
  upgrade,   (* the segments of the firmware asked for                     *)
  firmware   (* fwUpgrade.data                                             *)

vars == <<outputs, asked, safe, delay, saved, upgrade, firmware>>

fwVars == <<upgrade, firmware>>

Off == [type |-> "plain", value |-> 0]

\* The "config" objects: one output for the ports that have one.
SafeJsons  == {[p \in Ports |-> IF p \in SafePorts THEN json ELSE Off] : json \in Outputs}
SavedForm  == [outputsSafe |-> [p \in Ports |-> SafeOutputToJson(safe[p])], inputsDelay |-> delay]

Init ==
  /\ outputs = [p \in Ports |-> 0] /\ asked = [p \in Ports |-> Off]
  /\ safe = [p \in Ports |-> 0] /\ delay = 0
  /\ saved = NoFile
  /\ upgrade = NoFirmware /\ firmware = NoFirmware

Upgrading == upgrade # NoFirmware

\* jsonSetOutput with one port; a refused one changes nothing.
JsonSetOutput(p, json) ==
  /\ ~Upgrading /\ Accepted(json)
  /\ outputs' = [outputs EXCEPT ![p] = JsonOutputToByte(json)]
  /\ asked' = [asked EXCEPT ![p] = json]
  /\ UNCHANGED <<safe, delay, saved, fwVars>>

\* fromJson: what it throws at leaves the configuration as it was.
FromJson(config) ==
  /\ DelayAccepted(config.inputsDelay)
  /\ \A p \in Ports : Accepted(config.outputsSafe[p])
  /\ safe' = [p \in Ports |-> JsonOutputToByte(config.outputsSafe[p])]
  /\ delay' = DelayOf(config.inputsDelay)

JsonSetConfig(config) ==
  ~Upgrading /\ FromJson(config) /\ UNCHANGED <<outputs, asked, saved, fwVars>>

SaveConfig == saved' = SavedForm /\ UNCHANGED <<outputs, asked, safe, delay, fwVars>>

LoadConfig == saved # NoFile /\ FromJson(saved) /\ UNCHANGED <<outputs, asked, saved, fwVars>>

\* The instances upgrade a module only before its outputs and its file were
\* used: the firmware depends on neither.
UpgradeBound == saved = NoFile /\ \A p \in Ports : outputs[p] = 0

\* jsonUpgradeFw
JsonUpgradeFw(segments) ==
  /\ ~Upgrading /\ UpgradeBound
  /\ upgrade' = segments
  /\ firmware' = AlignFirmware(ParseFirmware(segments))
  /\ UNCHANGED <<outputs, asked, safe, delay, saved>>

Next ==
  \/ \E p \in Ports, json \in Outputs : JsonSetOutput(p, json)
  \/ \E outs \in SafeJsons, tenths \in Delays :
       JsonSetConfig([outputsSafe |-> outs, inputsDelay |-> tenths])
  \/ SaveConfig
  \/ LoadConfig
  \/ \E segments \in Firmwares : JsonUpgradeFw(segments)

Spec == Init /\ [][Next]_vars

-----------------------------------------------------------------------------
(* Properties *)

\* A plain output, and an s-com one on a real port, is reported as it was
\* asked for: outputsToJson undoes jsonOutputToByte.
ReadsBack ==
  \A p \in Ports :
    (asked[p].type = "plain" \/ (asked[p].type = "s-com" /\ p \in Io)) =>
      OutputToJson(p, outputs[p]) = asked[p]

\* The frame a module would get says of every real output what the daemon
\* keeps, and of every virtual one whether it is on: moduleOutputsData undoes
\* mtbBusOutputsData across the boundaries of its bytes.
FrameCarriesOutputs ==
  LET got == ModuleOutputsData(MtbBusOutputsData(outputs))
  IN  \A p \in Ports : IF p \in Io THEN got[p] = outputs[p] ELSE (got[p] > 0) = (outputs[p] > 0)

\* What is saved cannot be loaded exactly if a safe output is kept as flicker.
UnloadableIfFlicker ==
  (\E p \in Ports : ~Accepted(SavedForm.outputsSafe[p]))
    <=> \E p \in Ports : IsFlicker(safe[p])

\* A configuration as the daemon saved it last is loaded again unchanged, and
\* it is refused only because of an output kept as flicker: saving loses
\* nothing else that a request had stored.
LoadingStep == (LoadConfig /\ saved = SavedForm) => (safe' = safe /\ delay' = delay)
LoadRestores == [][LoadingStep /\ UnloadableIfFlicker']_vars

\* The byte the segments ask for at an address: the last one that covers it.
SentTo(addr) ==
  LET Covers(s)  == addr \in s.addr..(s.addr + Len(s.data) - 1)
      last       == SelectLastInSeq(upgrade, Covers)
  IN  IF last = 0 THEN Unwritten ELSE upgrade[last].data[addr - upgrade[last].addr + 1]

\* messages.md:327-330: segments may start anywhere and have any length, and
\* the server joins them.  What would be written is whole pages, exactly those
\* that were touched, with each byte that was sent at its address and nothing
\* at the others.
FirmwareJoined ==
  Upgrading =>
    LET PageOf(addr) == addr \div (BlockSize * BlocksPerPage)
        touched == UNION {{PageOf(s.addr + i - 1) : i \in DOMAIN s.data} : s \in Range(upgrade)}
    IN  /\ DOMAIN firmware = {page * BlocksPerPage + i :
                               page \in touched, i \in 0..(BlocksPerPage - 1)}
        /\ \A b \in DOMAIN firmware : \A i \in 0..(BlockSize - 1) :
             firmware[b][i] = SentTo(b * BlockSize + i)

\* messages.md:188-219: module_set_outputs sets output 12 to flicker 60, and
\* the response says the output 12 is flicker 60.
ReportedAsAsked == \A p \in Ports \cap Io : OutputToJson(p, outputs[p]) = asked[p]
=============================================================================
