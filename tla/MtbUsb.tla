-------------------------------- MODULE MtbUsb --------------------------------
(***************************************************************************)
(* The queue of commands to MTB-USB (mtbusb/mtbusb-send.cpp, -receive.cpp):*)
(* at most MaxPending commands wait for their answer, the rest waits to be *)
(* sent.  A queue is a record; an operator takes the queue before the call *)
(* to the queue after it.                                                  *)
(*                                                                         *)
(* Answers carry no number: one is paired with the first pending command   *)
(* it can belong to.  "awaited" says that MTB-USB still has to answer the  *)
(* command; the code does not know it.  histTimerTick is empty, so nothing *)
(* is sent again and no command times out.                                 *)
(***************************************************************************)
EXTENDS Naturals, Sequences, SequencesExt

CONSTANT MaxPending   (* _MAX_PENDING *)
ASSUME MaxPendingAssumption == MaxPending \in Nat \ {0}

Kinds == {"SetOutput", "SetConfig", "GetConfig", "GetInputs", "ResetOutputs"}

\* processBusResponse: what a command of the kind accepts as its answer.
Response(kind) ==
  CASE kind = "SetOutput" -> "OutputSet"
    [] kind = "GetConfig" -> "ModuleConfig"
    [] kind = "GetInputs" -> "InputState"
    [] OTHER              -> "Acknowledgement"

Empty == [pending |-> <<>>, out |-> <<>>]

Full(bus) == Len(bus.pending) >= MaxPending

Write(bus, cmd) == [bus EXCEPT !.pending = Append(@, [cmd |-> cmd, awaited |-> TRUE])]
Enqueue(bus, cmd) == [bus EXCEPT !.out = Append(@, cmd)]

\* send.  conflictWithPending never holds: only changes of speed conflict.
Send(bus, cmd) == IF Full(bus) \/ bus.out # <<>> THEN Enqueue(bus, cmd) ELSE Write(bus, cmd)

\* Mutant: the next command is sent only if it is the last one.
SendLastOut(bus) ==
  IF Len(bus.out) # 1 THEN bus ELSE Write([bus EXCEPT !.out = Tail(@)], Head(bus.out))

\* sendNextOut, called if anything is in out: sent in spite of what is left
\* there, but behind it if nothing more may be pending.
SendNextOut(bus) ==
  LET rest == [bus EXCEPT !.out = Tail(@)]
  IN  IF bus.out = <<>> THEN bus
      ELSE IF Full(rest) THEN Enqueue(rest, Head(bus.out)) ELSE Write(rest, Head(bus.out))

-----------------------------------------------------------------------------
(* Which pending command an answer belongs to, and which it is paired with  *)

\* MTB-USB answers the commands it keeps in the order in which it got them.
Answered(bus) == SelectInSeq(bus.pending, LAMBDA p : p.awaited)

\* parseMtbBusMessage: the first that accepts the response.
PairedWithResponse(bus, kind) ==
  SelectInSeq(bus.pending, LAMBDA p : Response(p.cmd.kind) = Response(kind))

\* handleMtbUsbError, NoResponse: the first with the code of the command.
PairedWithNoResponse(bus, kind) == SelectInSeq(bus.pending, LAMBDA p : p.cmd.kind = kind)

\* handleMtbBusError: the first to the module, whatever command it is.
PairedWithBusError == 1

\* The answered command gets no other answer, the paired one is erased.
Erase(bus, answered, paired) ==
  [bus EXCEPT !.pending = RemoveAt([@ EXCEPT ![answered].awaited = FALSE], paired)]

\* handleMtbUsbError, FullBuffer: logged, the command stays pending.
FullBuffer(bus) == [bus EXCEPT !.pending[Answered(bus)].awaited = FALSE]

-----------------------------------------------------------------------------
\* Commands that have not got their callback yet, in the order of sending.
Commands(bus) == Range([i \in DOMAIN bus.pending |-> bus.pending[i].cmd]) \cup Range(bus.out)

\* MTB-USB has discarded a command, or answered another one in its place.
Discarded(bus) == \E i \in DOMAIN bus.pending : ~bus.pending[i].awaited
=============================================================================
