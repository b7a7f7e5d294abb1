----------------------------- MODULE MtbUniProofs -----------------------------
(***************************************************************************)
(* Proofs of the safety of MtbUni, for any number of clients and ports and *)
(* any number of commands MTB-USB may keep.                                *)
(*                                                                         *)
(* The commands that are pending and those that wait to be sent are one    *)
(* flow: as long as no command was discarded, answers take its head away   *)
(* and handlers append to its end.  The invariant SteadyUndisturbed says   *)
(* of the flow what the last SetOutput in it writes, also after a module   *)
(* has reported other outputs than it was to set, so that the next answer  *)
(* can make the rest true again; RequestersKnown says who may be owed an   *)
(* answer.                                                                 *)
(*                                                                         *)
(* The operators of MtbUni take what a handler changes from call to call;  *)
(* a lemma says of each what it does with types, requesters, outputs and   *)
(* the flow.  What each handler keeps is HandlerKeeps, or StepKeeps where   *)
(* requests may be overwritten.                                            *)
(***************************************************************************)
EXTENDS MtbUni, FunctionTheorems, SequenceTheorems, FiniteSetTheorems, TLAPS

(* Inductive invariants *)

\* The commands that are sent: a SetOutput carries outputs and is no step of
\* the activation.
Sendable == {cmd \in Command : cmd.kind = "SetOutput" => cmd.then = "request" /\ cmd.data \in Outputs}

Pending == [cmd : Sendable, awaited : BOOLEAN]
Bus     == [pending : Seq(Pending), out : Seq(Sendable)]
Owed    == [Sockets -> [Requested -> Int]]
State   == [module : Module, bus : Bus, owed : Owed, overtaken : BOOLEAN]
Queue   == Seq(Sockets \cup {NoSocket})

\* MTB-USB never gets more commands than it may keep.
UniType ==
  /\ clients \subseteq Sockets
  /\ Now \in State
  /\ Len(bus.pending) <= MaxPending
  /\ misreported \in BOOLEAN /\ stimuli \in 0..MaxStimuli

-----------------------------------------------------------------------------
(* The commands on their way, in the order in which MTB-USB gets them *)

Flow(b) == [i \in DOMAIN b.pending |-> b.pending[i].cmd] \o b.out

\* A SetOutput is among them, and the last one writes v.
Writes(f)        == \E i \in DOMAIN f : f[i].kind = "SetOutput"
LastWrites(f, v) ==
  \E i \in DOMAIN f : /\ f[i].kind = "SetOutput" /\ f[i].data = v
                      /\ \A j \in DOMAIN f : i < j => f[j].kind # "SetOutput"

\* Where nothing waits, the last SetOutput under way writes the wanted outputs.
Ordered(m, f) == m.waiting = <<>> /\ Writes(f) => LastWrites(f, m.want)

\* Requests that wait or were sent have a SetOutput under way, and without one
\* the wanted outputs are confirmed.
Steady(m, f) ==
  /\ m.waiting # <<>> \/ m.sent # <<>> => Writes(f)
  /\ m.waiting = <<>> => IF Writes(f) THEN LastWrites(f, m.want) ELSE m.want = m.confirmed

OrderedIf(s) == ~s.overtaken /\ ~Discarded(s.bus) => Ordered(s.module, Flow(s.bus))
SteadyIf(s)  == ~s.overtaken /\ ~Discarded(s.bus) => Steady(s.module, Flow(s.bus))

SteadyUndisturbed == OrderedIf(Now) /\ (~misreported => SteadyIf(Now))

\* Who the module keeps as a requester is connected or forgotten, and nobody
\* else, connected or not, is owed an answer.
RequestersSound(s) ==
  /\ s.module.writing \in clients \cup {NoSocket, NoRequest}
  /\ s.module.fw \in clients \cup {NoSocket, NoRequest}
  /\ \A c \in Sockets :
       /\ s.owed[c]["config"] = IF s.module.writing = c THEN 1 ELSE 0
       /\ s.owed[c]["upgrade"] \in 0..(IF s.module.fw = c THEN 1 ELSE 0)

RequestersKnown == RequestersSound(Now)

-----------------------------------------------------------------------------
(* What a handler leaves as it was *)

SameRequesters(s, t) ==
  /\ t.module.writing = s.module.writing /\ t.module.fw = s.module.fw
  /\ \A c \in Sockets : /\ t.owed[c]["config"] = s.owed[c]["config"]
                        /\ t.owed[c]["upgrade"] = s.owed[c]["upgrade"]

SameOutputsOwed(s, t) == \A c \in Sockets : t.owed[c]["outputs"] = s.owed[c]["outputs"]

\* The requests to set outputs and what they wait for.
SameQueues(s, t) ==
  /\ t.module.waiting = s.module.waiting /\ t.module.sent = s.module.sent
  /\ SameOutputsOwed(s, t)

SameOutputs(s, t) ==
  /\ t.module.want = s.module.want /\ t.module.confirmed = s.module.confirmed
  /\ t.overtaken = s.overtaken
  /\ SameQueues(s, t)

\* What it does with the outputs: nothing, and it may send another command; it
\* puts them to rest without the bus; or it sends those that are wanted.
SendsOther(s, t) ==
  \/ t.bus = s.bus
  \/ \E cmd \in Sendable : cmd.kind # "SetOutput" /\ t.bus = Send(s.bus, cmd)

OutputsKept(s, t) == SameOutputs(s, t) /\ SendsOther(s, t)

OutputsPut(s, t) ==
  /\ t.bus = s.bus
  /\ t.module.want = t.module.confirmed
  /\ t.overtaken = (s.overtaken \/ SetOutputUnderWay(s.bus))
  /\ SameQueues(s, t)

SetOutput(v) == [kind |-> "SetOutput", then |-> "request", data |-> v]

OutputsSent(s, t) ==
  /\ t.bus = Send(s.bus, SetOutput(t.module.want))
  /\ t.module.waiting = <<>>
  /\ t.overtaken = s.overtaken

-----------------------------------------------------------------------------
(* The queue of commands *)

LEMMA BusFacts ==
  ASSUME NEW b \in Bus
  PROVE  /\ b.pending \in Seq(Pending) /\ b.out \in Seq(Sendable)
         /\ b = [pending |-> b.pending, out |-> b.out]
         /\ Len(b.pending) \in Nat /\ DOMAIN b.pending = 1..Len(b.pending)
         /\ Len(b.out) \in Nat /\ DOMAIN b.out = 1..Len(b.out)
         /\ \A i \in 1..Len(b.pending) : b.pending[i] \in Pending /\ b.pending[i].cmd \in Sendable
<1>1. b.pending \in Seq(Pending) /\ b.out \in Seq(Sendable) /\ b = [pending |-> b.pending, out |-> b.out]
  BY DEF Bus
<1>2. \A i \in 1..Len(b.pending) : b.pending[i] \in Pending
  BY <1>1, ElementOfSeq
<1>3. \A p \in Pending : p.cmd \in Sendable
  BY DEF Pending
<1> QED
  BY <1>1, <1>2, <1>3, LenProperties

LEMMA FlowFacts ==
  ASSUME NEW b \in Bus
  PROVE  /\ Flow(b) \in Seq(Sendable)
         /\ Len(Flow(b)) = Len(b.pending) + Len(b.out)
         /\ DOMAIN Flow(b) = 1..(Len(b.pending) + Len(b.out))
         /\ \A i \in 1..(Len(b.pending) + Len(b.out)) :
              Flow(b)[i] = IF i <= Len(b.pending) THEN b.pending[i].cmd ELSE b.out[i - Len(b.pending)]
<1> DEFINE m == Len(b.pending)
           cmds == [i \in 1..m |-> b.pending[i].cmd]
<1>1. /\ m \in Nat /\ DOMAIN b.pending = 1..m /\ b.out \in Seq(Sendable)
      /\ \A i \in 1..m : b.pending[i].cmd \in Sendable
  BY BusFacts
<1>2. cmds \in Seq(Sendable) /\ Len(cmds) = m
  <2> HIDE DEF m
  <2> QED
    BY <1>1
<1>3. Flow(b) = cmds \o b.out
  BY <1>1 DEF Flow
<1>4. \A i \in 1..m : cmds[i] = b.pending[i].cmd
  OBVIOUS
<1> HIDE DEF cmds
<1>5. /\ cmds \o b.out \in Seq(Sendable)
      /\ Len(cmds \o b.out) = m + Len(b.out)
      /\ \A i \in 1..(m + Len(b.out)) : (cmds \o b.out)[i] = IF i <= m THEN cmds[i] ELSE b.out[i - m]
  <2> HIDE DEF m
  <2>1. /\ cmds \o b.out \in Seq(Sendable)
        /\ Len(cmds \o b.out) = Len(cmds) + Len(b.out)
        /\ \A i \in 1..(Len(cmds) + Len(b.out)) :
             (cmds \o b.out)[i] = IF i <= Len(cmds) THEN cmds[i] ELSE b.out[i - Len(cmds)]
    BY <1>1, <1>2, ConcatProperties
  <2> QED
    BY <1>2, <2>1
<1>6. DOMAIN Flow(b) = 1..(m + Len(b.out))
  BY <1>3, <1>5, LenProperties
<1>7. \A i \in 1..(m + Len(b.out)) : i <= m => i \in 1..m
  BY <1>1
<1> HIDE DEF m
<1> QED
  BY <1>3, <1>4, <1>5, <1>6, <1>7 DEF m

\* A SetOutput is under way if one is among the commands.
LEMMA UnderWayFlow ==
  ASSUME NEW b \in Bus
  PROVE  SetOutputUnderWay(b) <=> Writes(Flow(b))
<1> DEFINE m == Len(b.pending)
           f == Flow(b)
<1>1. /\ m \in Nat /\ Len(b.out) \in Nat /\ DOMAIN b.pending = 1..m /\ DOMAIN b.out = 1..Len(b.out)
  BY BusFacts
<1>2. /\ DOMAIN f = 1..(m + Len(b.out))
      /\ \A i \in 1..(m + Len(b.out)) : f[i] = IF i <= m THEN b.pending[i].cmd ELSE b.out[i - m]
  BY FlowFacts
<1> HIDE DEF f, m
<1>3. ASSUME NEW cmd \in Commands(b)
      PROVE  \E i \in DOMAIN f : f[i] = cmd
  <2>1. CASE \E i \in 1..m : cmd = b.pending[i].cmd
    <3>1. PICK i \in 1..m : cmd = b.pending[i].cmd
      BY <2>1
    <3>2. i \in 1..(m + Len(b.out)) /\ i <= m
      BY <1>1
    <3> QED
      BY <1>2, <3>1, <3>2
  <2>2. CASE \E i \in 1..Len(b.out) : cmd = b.out[i]
    <3>1. PICK i \in 1..Len(b.out) : cmd = b.out[i]
      BY <2>2
    <3>2. m + i \in 1..(m + Len(b.out)) /\ ~(m + i <= m) /\ (m + i) - m = i
      BY <1>1
    <3> QED
      BY <1>2, <3>1, <3>2
  <2>3. \/ cmd \in Range([i \in 1..m |-> b.pending[i].cmd])
        \/ cmd \in Range(b.out)
    BY <1>1 DEF Commands
  <2> QED
    BY <1>1, <2>1, <2>2, <2>3 DEF Range
<1>4. ASSUME NEW i \in DOMAIN f
      PROVE  f[i] \in Commands(b)
  <2>1. CASE i <= m
    <3>1. i \in 1..m /\ f[i] = b.pending[i].cmd
      BY <1>1, <1>2, <2>1
    <3>2. f[i] \in Range([j \in DOMAIN b.pending |-> b.pending[j].cmd])
      BY <1>1, <3>1 DEF Range
    <3> QED
      BY <3>2 DEF Commands
  <2>2. CASE ~(i <= m)
    <3>1. i - m \in 1..Len(b.out) /\ f[i] = b.out[i - m]
      BY <1>1, <1>2, <2>2
    <3>2. f[i] \in Range(b.out)
      BY <1>1, <3>1 DEF Range
    <3> QED
      BY <3>2 DEF Commands
  <2> QED
    BY <2>1, <2>2
<1> QED
  BY <1>3, <1>4 DEF SetOutputUnderWay, Writes, f

-----------------------------------------------------------------------------
(* Sending *)

\* A command goes behind the others.
LEMMA SendFacts ==
  ASSUME NEW b \in Bus, NEW cmd \in Sendable
  PROVE  /\ Send(b, cmd) \in Bus
         /\ Flow(Send(b, cmd)) = Append(Flow(b), cmd)
         /\ Discarded(Send(b, cmd)) <=> Discarded(b)
         /\ Len(Send(b, cmd).pending) \in Nat
         /\ Len(b.pending) <= Len(Send(b, cmd).pending)
         /\ \A i \in 1..Len(b.pending) : Send(b, cmd).pending[i] = b.pending[i]
         /\ Len(b.pending) <= MaxPending => Len(Send(b, cmd).pending) <= MaxPending
<1> DEFINE m == Len(b.pending)
           n == Len(b.out)
           p == [cmd |-> cmd, awaited |-> TRUE]
           t == Send(b, cmd)
<1>1. /\ m \in Nat /\ n \in Nat /\ b.pending \in Seq(Pending) /\ b.out \in Seq(Sendable)
      /\ b = [pending |-> b.pending, out |-> b.out] /\ p \in Pending
      /\ DOMAIN b.pending = 1..m
  BY BusFacts DEF Pending
<1>2. /\ Append(Flow(b), cmd) \in Seq(Sendable) /\ Len(Append(Flow(b), cmd)) = m + n + 1
      /\ \A i \in 1..(m + n) : Append(Flow(b), cmd)[i] = Flow(b)[i]
      /\ Append(Flow(b), cmd)[m + n + 1] = cmd
  <2>1. Flow(b) \in Seq(Sendable) /\ Len(Flow(b)) = m + n
    BY FlowFacts
  <2> HIDE DEF m, n
  <2>2. /\ Append(Flow(b), cmd) \in Seq(Sendable) /\ Len(Append(Flow(b), cmd)) = Len(Flow(b)) + 1
        /\ \A i \in 1..Len(Flow(b)) : Append(Flow(b), cmd)[i] = Flow(b)[i]
        /\ Append(Flow(b), cmd)[Len(Flow(b)) + 1] = cmd
    BY <2>1, AppendProperties
  <2> QED
    BY <2>1, <2>2
<1>3. \A i \in 1..(m + n) : Flow(b)[i] = IF i <= m THEN b.pending[i].cmd ELSE b.out[i - m]
  BY FlowFacts
<1>4. CASE Full(b) \/ b.out # <<>>
  <2>1. t = [pending |-> b.pending, out |-> Append(b.out, cmd)]
    BY <1>1, <1>4 DEF Send, Enqueue
  <2>2. /\ Append(b.out, cmd) \in Seq(Sendable) /\ Len(Append(b.out, cmd)) = n + 1
        /\ \A i \in 1..n : Append(b.out, cmd)[i] = b.out[i]
        /\ Append(b.out, cmd)[n + 1] = cmd
    BY <1>1, AppendProperties
  <2>3. t \in Bus /\ t.pending = b.pending /\ t.out = Append(b.out, cmd)
    BY <1>1, <2>1, <2>2 DEF Bus
  <2>4. /\ Flow(t) \in Seq(Sendable) /\ Len(Flow(t)) = m + (n + 1)
        /\ \A i \in 1..(m + (n + 1)) : Flow(t)[i] = IF i <= m THEN b.pending[i].cmd ELSE Append(b.out, cmd)[i - m]
    BY <2>2, <2>3, FlowFacts
  <2> HIDE DEF m, n, t
  <2>5. ASSUME NEW i \in 1..(m + (n + 1))
        PROVE  Flow(t)[i] = Append(Flow(b), cmd)[i]
    <3>1. CASE i \in 1..(m + n)
      <4>1. ~(i <= m) => i - m \in 1..n
        BY <1>1, <3>1
      <4> QED
        BY <1>2, <1>3, <2>2, <2>4, <3>1, <4>1
    <3>2. CASE i = m + n + 1
      <4>1. ~(i <= m) /\ i - m = n + 1
        BY <1>1, <3>2
      <4> QED
        BY <1>2, <2>2, <2>4, <3>2, <4>1
    <3>3. i \in 1..(m + n) \/ i = m + n + 1
      BY <1>1
    <3> QED
      BY <3>1, <3>2, <3>3
  <2>6. Flow(t) = Append(Flow(b), cmd)
    <3>1. Len(Flow(t)) = Len(Append(Flow(b), cmd))
      BY <1>1, <1>2, <2>4
    <3> QED
      BY <1>2, <2>4, <2>5, <3>1, SeqEqual
  <2>7. Discarded(t) <=> Discarded(b)
    BY <2>3 DEF Discarded
  <2>8. \A i \in 1..m : t.pending[i] = b.pending[i]
    BY <2>3
  <2>9. Len(t.pending) = m
    BY <2>3 DEF m
  <2> QED
    BY <1>1, <2>3, <2>6, <2>7, <2>8, <2>9 DEF m, t
<1>5. CASE ~Full(b) /\ b.out = <<>>
  <2>1. t = [pending |-> Append(b.pending, p), out |-> b.out]
    BY <1>1, <1>5 DEF Send, Write
  <2>2. /\ Append(b.pending, p) \in Seq(Pending) /\ Len(Append(b.pending, p)) = m + 1
        /\ \A i \in 1..m : Append(b.pending, p)[i] = b.pending[i]
        /\ Append(b.pending, p)[m + 1] = p
    BY <1>1, AppendProperties
  <2>3. t \in Bus /\ t.pending = Append(b.pending, p) /\ t.out = b.out
    BY <1>1, <2>1, <2>2 DEF Bus
  <2>4. n = 0 /\ m + 1 <= MaxPending
    BY <1>1, <1>5, MaxPendingAssumption DEF Full
  <2>5. /\ Flow(t) \in Seq(Sendable) /\ Len(Flow(t)) = (m + 1) + n
        /\ \A i \in 1..((m + 1) + n) : Flow(t)[i] = IF i <= m + 1 THEN Append(b.pending, p)[i].cmd ELSE b.out[i - (m + 1)]
    BY <2>2, <2>3, FlowFacts
  <2>6. p.cmd = cmd /\ p.awaited = TRUE
    OBVIOUS
  <2>7. DOMAIN t.pending = 1..(m + 1)
    BY <2>2, <2>3, LenProperties
  <2> HIDE DEF m, n, t, p
  <2>8. ASSUME NEW i \in 1..(m + 1)
        PROVE  Flow(t)[i] = Append(Flow(b), cmd)[i]
    <3>1. i \in 1..((m + 1) + n) /\ i <= m + 1
      BY <1>1, <2>4
    <3>2. CASE i \in 1..m
      <4>1. i \in 1..(m + n) /\ i <= m
        BY <1>1, <2>4, <3>2
      <4> QED
        BY <1>2, <1>3, <2>2, <2>5, <3>1, <3>2, <4>1
    <3>3. CASE i = m + 1
      <4>1. i = m + n + 1
        BY <1>1, <2>4, <3>3
      <4> QED
        BY <1>2, <2>2, <2>5, <2>6, <3>1, <3>3, <4>1
    <3>4. i \in 1..m \/ i = m + 1
      BY <1>1
    <3> QED
      BY <3>2, <3>3, <3>4
  <2>9. Flow(t) = Append(Flow(b), cmd)
    <3>1. Len(Flow(t)) = Len(Append(Flow(b), cmd)) /\ Len(Flow(t)) = m + 1
      BY <1>1, <1>2, <2>4, <2>5
    <3> QED
      BY <1>2, <2>5, <2>8, <3>1, SeqEqual
  <2>10. Discarded(t) <=> Discarded(b)
    <3>1. \A i \in 1..(m + 1) : i \in 1..m \/ i = m + 1
      BY <1>1
    <3>2. \A i \in 1..m : i \in 1..(m + 1)
      BY <1>1
    <3> QED
      BY <1>1, <2>2, <2>3, <2>6, <2>7, <3>1, <3>2 DEF Discarded
  <2>11. Len(t.pending) = m + 1
    BY <2>2, <2>3
  <2> QED
    BY <1>1, <2>2, <2>3, <2>4, <2>9, <2>10, <2>11 DEF m, t
<1> QED
  BY <1>4, <1>5

\* While MTB-USB may get a command, sending one leaves room or nothing behind it.
LEMMA SentBus ==
  ASSUME NEW b \in Bus, NEW cmd \in Sendable, NEW d, d = Send(b, cmd)
  PROVE  /\ d \in Bus /\ Flow(d) = Append(Flow(b), cmd) /\ (Discarded(d) <=> Discarded(b))
         /\ Len(d.pending) \in Nat /\ Len(b.pending) <= Len(d.pending)
         /\ \A i \in 1..Len(b.pending) : d.pending[i] = b.pending[i]
         /\ Len(b.pending) <= MaxPending => Len(d.pending) <= MaxPending
         /\ Len(b.pending) < MaxPending => Len(d.pending) < MaxPending \/ d.out = <<>>
<1>1. Len(b.pending) < MaxPending => Len(d.pending) < MaxPending \/ d.out = <<>>
  <2>1. CASE Full(b) \/ b.out # <<>>
    BY <2>1 DEF Send, Enqueue, Bus
  <2>2. CASE ~Full(b) /\ b.out = <<>>
    BY <2>2 DEF Send, Write, Bus
  <2> QED
    BY <2>1, <2>2
<1>2. /\ Send(b, cmd) \in Bus
      /\ Flow(Send(b, cmd)) = Append(Flow(b), cmd)
      /\ Discarded(Send(b, cmd)) <=> Discarded(b)
      /\ Len(Send(b, cmd).pending) \in Nat
      /\ Len(b.pending) <= Len(Send(b, cmd).pending)
      /\ \A i \in 1..Len(b.pending) : Send(b, cmd).pending[i] = b.pending[i]
      /\ Len(b.pending) <= MaxPending => Len(Send(b, cmd).pending) <= MaxPending
  BY SendFacts
<1> QED
  BY <1>1, <1>2

\* One more command makes the flow write what it writes, if that is a SetOutput.
LEMMA AppendWrites ==
  ASSUME NEW f \in Seq(Sendable), NEW cmd \in Sendable
  PROVE  /\ Writes(Append(f, cmd)) <=> (Writes(f) \/ cmd.kind = "SetOutput")
         /\ cmd.kind = "SetOutput" => LastWrites(Append(f, cmd), cmd.data)
         /\ cmd.kind # "SetOutput" => \A v : LastWrites(f, v) => LastWrites(Append(f, cmd), v)
<1> DEFINE g == Append(f, cmd)
           n == Len(f)
<1>1. /\ n \in Nat /\ DOMAIN f = 1..n
      /\ DOMAIN g = 1..(n + 1) /\ g[n + 1] = cmd /\ \A i \in 1..n : g[i] = f[i]
  <2>1. /\ g \in Seq(Sendable) /\ Len(g) = n + 1
        /\ \A i \in 1..n : g[i] = f[i]
        /\ g[n + 1] = cmd
    BY AppendProperties
  <2> QED
    BY <2>1, LenProperties
<1> HIDE DEF g, n
<1>2. \A i \in 1..(n + 1) : i \in 1..n \/ i = n + 1
  BY <1>1
<1>3. n + 1 \in 1..(n + 1) /\ \A i \in 1..n : i \in 1..(n + 1) /\ i < n + 1 /\ ~(n + 1 < i)
  BY <1>1
<1>4. ~(n + 1 < n + 1)
  BY <1>1
<1>5. Writes(g) <=> (Writes(f) \/ cmd.kind = "SetOutput")
  BY <1>1, <1>2, <1>3 DEF Writes
<1>6. ASSUME cmd.kind = "SetOutput"
      PROVE  LastWrites(g, cmd.data)
  BY <1>1, <1>2, <1>3, <1>4, <1>6 DEF LastWrites
<1>7. ASSUME cmd.kind # "SetOutput", NEW v, LastWrites(f, v)
      PROVE  LastWrites(g, v)
  <2>1. PICK i \in 1..n : /\ f[i].kind = "SetOutput" /\ f[i].data = v
                          /\ \A j \in 1..n : i < j => f[j].kind # "SetOutput"
    BY <1>1, <1>7 DEF LastWrites
  <2>2. \A j \in 1..(n + 1) : i < j => g[j].kind # "SetOutput"
    BY <1>1, <1>2, <1>7, <2>1
  <2> QED
    BY <1>1, <1>3, <2>1, <2>2 DEF LastWrites
<1> QED
  BY <1>5, <1>6, <1>7 DEF g

\* What is left when the first command is gone.
LEMMA TailWrites ==
  ASSUME NEW f \in Seq(Sendable), f # <<>>
  PROVE  /\ Writes(Tail(f)) => Writes(f)
         /\ Writes(f) /\ f[1].kind # "SetOutput" => Writes(Tail(f))
         /\ \A v : LastWrites(f, v) =>
              IF Writes(Tail(f)) THEN LastWrites(Tail(f), v)
              ELSE f[1].kind = "SetOutput" /\ f[1].data = v
<1> DEFINE g == Tail(f)
           n == Len(f)
<1>1. /\ n \in Nat /\ n >= 1 /\ DOMAIN f = 1..n
      /\ DOMAIN g = 1..(n - 1) /\ \A i \in 1..(n - 1) : g[i] = f[i + 1]
  <2>1. n \in Nat /\ n # 0 /\ DOMAIN f = 1..n
    BY LenProperties, EmptySeq
  <2>2. g \in Seq(Sendable) /\ Len(g) = n - 1 /\ \A i \in 1..Len(g) : g[i] = f[i + 1]
    BY HeadTailProperties
  <2>3. DOMAIN g = 1..Len(g)
    BY <2>2, LenProperties
  <2> HIDE DEF g, n
  <2> QED
    BY <2>1, <2>2, <2>3
<1> HIDE DEF g, n
<1>2. \A i \in 1..n : i = 1 \/ (i - 1 \in 1..(n - 1) /\ (i - 1) + 1 = i)
  BY <1>1
<1>3. \A i \in 1..(n - 1) : i + 1 \in 1..n
  BY <1>1
<1>4. Writes(g) => Writes(f)
  BY <1>1, <1>3 DEF Writes
<1>5. ASSUME Writes(f), f[1].kind # "SetOutput"
      PROVE  Writes(g)
  <2>1. PICK i \in 1..n : f[i].kind = "SetOutput"
    BY <1>1, <1>5 DEF Writes
  <2>2. i - 1 \in 1..(n - 1) /\ g[i - 1] = f[i]
    BY <1>1, <1>2, <1>5, <2>1
  <2> QED
    BY <1>1, <2>1, <2>2 DEF Writes
<1>6. ASSUME NEW v, LastWrites(f, v)
      PROVE  IF Writes(g) THEN LastWrites(g, v)
             ELSE f[1].kind = "SetOutput" /\ f[1].data = v
  <2>1. PICK i \in 1..n : /\ f[i].kind = "SetOutput" /\ f[i].data = v
                          /\ \A j \in 1..n : i < j => f[j].kind # "SetOutput"
    BY <1>1, <1>6 DEF LastWrites
  <2>2. CASE i = 1
    <3>1. \A j \in 1..(n - 1) : g[j].kind # "SetOutput"
      <4>1. \A j \in 1..(n - 1) : i < j + 1
        BY <1>1, <2>2
      <4> QED
        BY <1>1, <1>3, <2>1, <4>1
    <3> QED
      BY <1>1, <2>1, <2>2, <3>1 DEF Writes
  <2>3. CASE i # 1
    <3>1. i - 1 \in 1..(n - 1) /\ g[i - 1] = f[i]
      BY <1>1, <1>2, <2>3
    <3>2. \A j \in 1..(n - 1) : i - 1 < j => g[j].kind # "SetOutput"
      <4>1. \A j \in 1..(n - 1) : i - 1 < j => i < j + 1
        BY <1>1
      <4> QED
        BY <1>1, <1>3, <2>1, <4>1
    <3>3. LastWrites(g, v) /\ Writes(g)
      BY <1>1, <2>1, <3>1, <3>2 DEF LastWrites, Writes
    <3> QED
      BY <3>3
  <2> QED
    BY <2>2, <2>3
<1> QED
  BY <1>4, <1>5, <1>6 DEF g

-----------------------------------------------------------------------------
(* Answering *)

LEMMA RemoveAtFacts ==
  ASSUME NEW S, NEW s \in Seq(S), NEW p \in 1..Len(s)
  PROVE  /\ RemoveAt(s, p) \in Seq(S)
         /\ Len(RemoveAt(s, p)) = Len(s) - 1
         /\ \A i \in 1..(Len(s) - 1) : RemoveAt(s, p)[i] = IF i < p THEN s[i] ELSE s[i + 1]
<1> DEFINE n == Len(s)
           u == SubSeq(s, 1, p - 1)
           v == SubSeq(s, p + 1, n)
<1>1. n \in Nat /\ p \in Int /\ 1 <= p /\ p <= n /\ \A i \in 1..n : s[i] \in S
  BY LenProperties, ElementOfSeq
<1> HIDE DEF n
<1>2. /\ u \in Seq(S) /\ Len(u) = p - 1 /\ \A i \in 1..(p - 1) : u[i] = s[i]
  <2>1. \A i \in 1..(p - 1) : s[i] \in S
    BY <1>1
  <2>2. /\ SubSeq(s, 1, p - 1) \in Seq(S)
        /\ Len(SubSeq(s, 1, p - 1)) = IF 1 <= p - 1 THEN (p - 1) - 1 + 1 ELSE 0
        /\ \A i \in 1..((p - 1) - 1 + 1) : SubSeq(s, 1, p - 1)[i] = s[1 + i - 1]
    BY <1>1, <2>1, SubSeqProperties
  <2>3. (p - 1) - 1 + 1 = p - 1 /\ \A i \in 1..(p - 1) : 1 + i - 1 = i
    BY <1>1
  <2>4. p - 1 = IF 1 <= p - 1 THEN p - 1 ELSE 0
    BY <1>1
  <2> QED
    BY <2>2, <2>3, <2>4
<1>3. /\ v \in Seq(S) /\ Len(v) = n - p /\ \A i \in 1..(n - p) : v[i] = s[i + p]
  <2>1. \A i \in (p + 1)..n : s[i] \in S
    BY <1>1
  <2>2. /\ SubSeq(s, p + 1, n) \in Seq(S)
        /\ Len(SubSeq(s, p + 1, n)) = IF p + 1 <= n THEN n - (p + 1) + 1 ELSE 0
        /\ \A i \in 1..(n - (p + 1) + 1) : SubSeq(s, p + 1, n)[i] = s[(p + 1) + i - 1]
    BY <1>1, <2>1, SubSeqProperties
  <2>3. n - (p + 1) + 1 = n - p /\ \A i \in 1..(n - p) : (p + 1) + i - 1 = i + p
    BY <1>1
  <2>4. n - p = IF p + 1 <= n THEN n - p ELSE 0
    BY <1>1
  <2> QED
    BY <2>2, <2>3, <2>4
<1>4. RemoveAt(s, p) = u \o v
  BY DEF RemoveAt, n
<1> HIDE DEF u, v
<1>5. /\ u \o v \in Seq(S) /\ Len(u \o v) = (p - 1) + (n - p)
      /\ \A i \in 1..((p - 1) + (n - p)) : (u \o v)[i] = IF i <= p - 1 THEN u[i] ELSE v[i - (p - 1)]
  BY <1>2, <1>3, ConcatProperties
<1>6. (p - 1) + (n - p) = n - 1
  BY <1>1
<1>7. ASSUME NEW i \in 1..(n - 1)
      PROVE  (u \o v)[i] = IF i < p THEN s[i] ELSE s[i + 1]
  <2>1. CASE i < p
    <3>1. i <= p - 1 /\ i \in 1..(p - 1)
      BY <1>1, <2>1
    <3> QED
      BY <1>2, <1>5, <1>6, <2>1, <3>1
  <2>2. CASE ~(i < p)
    <3>1. ~(i <= p - 1) /\ i - (p - 1) \in 1..(n - p) /\ (i - (p - 1)) + p = i + 1
      BY <1>1, <2>2
    <3> QED
      BY <1>3, <1>5, <1>6, <2>2, <3>1
  <2> QED
    BY <2>1, <2>2
<1> QED
  BY <1>4, <1>5, <1>6, <1>7 DEF n

\* Erasing keeps the bus sound, and keeps what was discarded visible: of two
\* commands that get no answer one stays.  The first command is erased from the
\* front of the flow.
LEMMA EraseFacts ==
  ASSUME NEW b \in Bus, NEW a \in 1..Len(b.pending), NEW p \in 1..Len(b.pending),
         b.pending[a].awaited
  PROVE  /\ Erase(b, a, p) \in Bus
         /\ Len(Erase(b, a, p).pending) = Len(b.pending) - 1
         /\ Erase(b, a, p).out = b.out
         /\ Discarded(b) => Discarded(Erase(b, a, p))
<1> DEFINE m == Len(b.pending)
           x == [b.pending[a] EXCEPT !.awaited = FALSE]
           q == [b.pending EXCEPT ![a].awaited = FALSE]
           t == Erase(b, a, p)
<1>1. /\ m \in Nat /\ b.pending \in Seq(Pending) /\ b.out \in Seq(Sendable)
      /\ b = [pending |-> b.pending, out |-> b.out] /\ DOMAIN b.pending = 1..m
      /\ b.pending[a] \in Pending
  BY BusFacts
<1>2. x \in Pending /\ x.awaited = FALSE
  BY <1>1 DEF Pending
<1>3. q = [b.pending EXCEPT ![a] = x]
  BY <1>1, <1>2
<1>4. /\ q \in Seq(Pending) /\ Len(q) = m
      /\ \A j \in 1..m : q[j] = IF j = a THEN x ELSE b.pending[j]
  <2> HIDE DEF q, x
  <2> QED
    BY <1>1, <1>2, <1>3, ExceptSeq
<1>5. x.awaited = FALSE
  BY <1>2
<1>6. t = [pending |-> RemoveAt(q, p), out |-> b.out]
  BY <1>1 DEF Erase
<1> HIDE DEF q, x
<1>7. /\ RemoveAt(q, p) \in Seq(Pending) /\ Len(RemoveAt(q, p)) = m - 1
      /\ \A i \in 1..(m - 1) : RemoveAt(q, p)[i] = IF i < p THEN q[i] ELSE q[i + 1]
  <2>1. p \in 1..Len(q)
    BY <1>4
  <2>2. q \in Seq(Pending) /\ Len(q) = m
    BY <1>4
  <2>3. /\ RemoveAt(q, p) \in Seq(Pending) /\ Len(RemoveAt(q, p)) = Len(q) - 1
        /\ \A i \in 1..(Len(q) - 1) : RemoveAt(q, p)[i] = IF i < p THEN q[i] ELSE q[i + 1]
    BY <2>1, <2>2, RemoveAtFacts
  <2> HIDE DEF m
  <2> QED
    BY <2>2, <2>3
<1>8. /\ t \in Bus /\ t.pending = RemoveAt(q, p) /\ t.out = b.out
  BY <1>1, <1>6, <1>7 DEF Bus
<1>9. DOMAIN t.pending = 1..(m - 1)
  BY <1>7, <1>8, LenProperties
<1> HIDE DEF t, m
<1>10. ASSUME Discarded(b)
       PROVE  Discarded(t)
  <2>1. PICK k \in 1..m : ~b.pending[k].awaited
    BY <1>1, <1>10 DEF Discarded
  <2>2. k # a
    BY <2>1
  <2>3. PICK j \in {a, k} : j # p
    BY <2>2
  <2>4. j \in 1..m /\ ~q[j].awaited
    BY <1>4, <1>5, <2>1, <2>2 DEF m
  <2>5. CASE j < p
    <3>1. j \in 1..(m - 1)
      BY <1>1, <2>4, <2>5 DEF m
    <3>2. t.pending[j] = q[j]
      BY <1>7, <1>8, <2>5, <3>1
    <3> QED
      BY <1>9, <2>4, <3>1, <3>2 DEF Discarded
  <2>6. CASE ~(j < p)
    <3>1. j - 1 \in 1..(m - 1) /\ ~(j - 1 < p) /\ (j - 1) + 1 = j
      BY <1>1, <2>3, <2>4, <2>6 DEF m
    <3>2. t.pending[j - 1] = q[j]
      BY <1>7, <1>8, <3>1
    <3> QED
      BY <1>9, <2>4, <3>1, <3>2 DEF Discarded
  <2> QED
    BY <2>5, <2>6
<1> QED
  BY <1>7, <1>8, <1>10 DEF t, m

LEMMA EraseFirst ==
  ASSUME NEW b \in Bus, b.pending # <<>>, b.pending[1].awaited
  PROVE  /\ Flow(b) # <<>> /\ Flow(b)[1] = b.pending[1].cmd
         /\ Flow(Erase(b, 1, 1)) = Tail(Flow(b))
<1> DEFINE m == Len(b.pending)
           n == Len(b.out)
           q == [b.pending EXCEPT ![1].awaited = FALSE]
           t == Erase(b, 1, 1)
<1>1. /\ m \in Nat /\ n \in Nat /\ m >= 1 /\ b.pending \in Seq(Pending)
      /\ DOMAIN b.pending = 1..m /\ \A i \in 1..m : b.pending[i] \in Pending
  <2>1. m # 0
    BY BusFacts, EmptySeq
  <2> QED
    BY BusFacts, <2>1
<1>2. 1 \in 1..m
  BY <1>1
<1>3. /\ t \in Bus /\ Len(t.pending) = m - 1 /\ t.out = b.out
  BY <1>2, EraseFacts
<1>4. \A i \in 1..(m - 1) : t.pending[i].cmd = b.pending[i + 1].cmd
  <2>1. q \in Seq(Pending) /\ Len(q) = m /\ \A i \in 1..m : i # 1 => q[i] = b.pending[i]
    <3>1. [b.pending[1] EXCEPT !.awaited = FALSE] \in Pending
      BY <1>1, <1>2 DEF Pending
    <3>2. q = [b.pending EXCEPT ![1] = [b.pending[1] EXCEPT !.awaited = FALSE]]
      BY <1>1
    <3> QED
      BY <1>1, <1>2, <3>1, <3>2, ExceptSeq
  <2> HIDE DEF q, m
  <2>2. t.pending = RemoveAt(q, 1)
    BY DEF Erase, q, Bus
  <2>3. \A i \in 1..(m - 1) : RemoveAt(q, 1)[i] = IF i < 1 THEN q[i] ELSE q[i + 1]
    <3>1. 1 \in 1..Len(q)
      BY <1>1, <2>1
    <3> QED
      BY <2>1, <3>1, RemoveAtFacts
  <2>4. \A i \in 1..(m - 1) : ~(i < 1) /\ i + 1 \in 1..m /\ i + 1 # 1
    BY <1>1
  <2> QED
    BY <2>1, <2>2, <2>3, <2>4
<1> HIDE DEF t
<1>5. /\ Flow(b) \in Seq(Sendable) /\ Len(Flow(b)) = m + n
      /\ \A i \in 1..(m + n) : Flow(b)[i] = IF i <= m THEN b.pending[i].cmd ELSE b.out[i - m]
  BY FlowFacts
<1>6. /\ Flow(t) \in Seq(Sendable) /\ Len(Flow(t)) = (m - 1) + n
      /\ \A i \in 1..((m - 1) + n) :
           Flow(t)[i] = IF i <= m - 1 THEN t.pending[i].cmd ELSE b.out[i - (m - 1)]
  BY <1>3, FlowFacts
<1> HIDE DEF m, n
<1>7. Flow(b) # <<>> /\ Flow(b)[1] = b.pending[1].cmd
  <2>1. Len(Flow(b)) # 0 /\ 1 \in 1..(m + n) /\ 1 <= m
    BY <1>1, <1>5
  <2> QED
    BY <1>5, <2>1, EmptySeq
<1>8. /\ Tail(Flow(b)) \in Seq(Sendable) /\ Len(Tail(Flow(b))) = (m - 1) + n
      /\ \A i \in 1..((m - 1) + n) : Tail(Flow(b))[i] = Flow(b)[i + 1]
  <2>1. /\ Tail(Flow(b)) \in Seq(Sendable) /\ Len(Tail(Flow(b))) = Len(Flow(b)) - 1
        /\ \A i \in 1..Len(Tail(Flow(b))) : Tail(Flow(b))[i] = Flow(b)[i + 1]
    BY <1>5, <1>7, HeadTailProperties
  <2>2. (m + n) - 1 = (m - 1) + n
    BY <1>1
  <2> QED
    BY <1>5, <2>1, <2>2
<1>9. ASSUME NEW i \in 1..((m - 1) + n)
      PROVE  Flow(t)[i] = Tail(Flow(b))[i]
  <2>1. i + 1 \in 1..(m + n) /\ (i <= m - 1 <=> i + 1 <= m) /\ (i + 1) - m = i - (m - 1)
    BY <1>1
  <2>2. i <= m - 1 => i \in 1..(m - 1)
    BY <1>1
  <2> QED
    BY <1>4, <1>5, <1>6, <1>8, <2>1, <2>2
<1>10. Flow(t) = Tail(Flow(b))
  BY <1>6, <1>8, <1>9, SeqEqual
<1> QED
  BY <1>7, <1>10 DEF t

\* The next command is sent: it stays where it is in the flow, as long as MTB-USB
\* may get it.
LEMMA SendNextFacts ==
  ASSUME NEW b \in Bus
  PROVE  /\ SendNextOut(b) \in Bus
         /\ Len(b.pending) <= MaxPending => Len(SendNextOut(b).pending) <= MaxPending
         /\ Discarded(b) => Discarded(SendNextOut(b))
         /\ Len(b.pending) < MaxPending \/ b.out = <<>> => Flow(SendNextOut(b)) = Flow(b)
<1> DEFINE m == Len(b.pending)
           n == Len(b.out)
           h == Head(b.out)
           r == Tail(b.out)
           x == [cmd |-> h, awaited |-> TRUE]
           t == SendNextOut(b)
<1>1. /\ m \in Nat /\ n \in Nat /\ b.pending \in Seq(Pending) /\ b.out \in Seq(Sendable)
      /\ b = [pending |-> b.pending, out |-> b.out] /\ DOMAIN b.pending = 1..m
  BY BusFacts
<1>2. CASE b.out = <<>>
  BY <1>2 DEF SendNextOut
<1>3. CASE b.out # <<>>
  <2>1. /\ h \in Sendable /\ r \in Seq(Sendable) /\ Len(r) = n - 1 /\ n >= 1
        /\ \A i \in 1..(n - 1) : r[i] = b.out[i + 1]
    BY <1>1, <1>3, HeadTailProperties, EmptySeq
  <2>2. h = b.out[1]
    BY <1>1, <1>3
  <2> DEFINE rest == [b EXCEPT !.out = Tail(@)]
  <2>3. rest \in Bus /\ rest.pending = b.pending /\ rest.out = r
    BY <2>1 DEF Bus
  <2>6. t = IF Full(rest) THEN Enqueue(rest, h) ELSE Write(rest, h)
    BY <1>3 DEF SendNextOut
  <2> HIDE DEF rest
  <2>4. CASE m >= MaxPending
    <3>1. t = [rest EXCEPT !.out = Append(@, h)]
      BY <2>3, <2>4, <2>6 DEF Full, Enqueue
    <3>2. Append(r, h) \in Seq(Sendable)
      BY <2>1, AppendProperties
    <3> HIDE DEF t, h, r
    <3>3. t \in Bus /\ t.pending = b.pending
      BY <2>3, <3>1, <3>2 DEF Bus
    <3>4. ~(m < MaxPending)
      BY <1>1, <2>4, MaxPendingAssumption
    <3> QED
      BY <1>3, <3>3, <3>4 DEF Discarded, t
  <2>5. CASE m < MaxPending
    <3>1. t = [rest EXCEPT !.pending = Append(@, x)]
      <4>1. ~(m >= MaxPending)
        BY <1>1, <2>5, MaxPendingAssumption
      <4> QED
        BY <2>3, <2>6, <4>1 DEF Full, Write
    <3>2. x \in Pending /\ x.cmd = h
      BY <2>1 DEF Pending
    <3> HIDE DEF x, t, h, r
    <3>3. /\ Append(b.pending, x) \in Seq(Pending) /\ Len(Append(b.pending, x)) = m + 1
          /\ \A i \in 1..m : Append(b.pending, x)[i] = b.pending[i]
          /\ Append(b.pending, x)[m + 1] = x
      BY <1>1, <3>2, AppendProperties
    <3>4. t \in Bus /\ t.pending = Append(b.pending, x) /\ t.out = r
      BY <2>1, <2>3, <3>1, <3>3 DEF Bus
    <3>5. Len(t.pending) <= MaxPending
      BY <1>1, <2>5, <3>3, <3>4, MaxPendingAssumption
    <3>6. Discarded(b) => Discarded(t)
      <4>1. DOMAIN t.pending = 1..(m + 1)
        BY <3>3, <3>4, LenProperties
      <4>2. \A i \in 1..m : i \in 1..(m + 1)
        BY <1>1
      <4> QED
        BY <1>1, <3>3, <3>4, <4>1, <4>2 DEF Discarded
    <3>7. /\ Flow(b) \in Seq(Sendable) /\ Len(Flow(b)) = m + n
          /\ \A i \in 1..(m + n) : Flow(b)[i] = IF i <= m THEN b.pending[i].cmd ELSE b.out[i - m]
      BY FlowFacts
    <3>8. /\ Flow(t) \in Seq(Sendable) /\ Len(Flow(t)) = (m + 1) + (n - 1)
          /\ \A i \in 1..((m + 1) + (n - 1)) :
               Flow(t)[i] = IF i <= m + 1 THEN t.pending[i].cmd ELSE r[i - (m + 1)]
      BY <2>1, <3>3, <3>4, FlowFacts
    <3> HIDE DEF m, n
    <3>9. (m + 1) + (n - 1) = m + n
      BY <1>1, <2>1
    <3>10. ASSUME NEW i \in 1..(m + n)
           PROVE  Flow(t)[i] = Flow(b)[i]
      <4>1. CASE i <= m
        <5>1. i \in 1..m /\ i <= m + 1
          BY <1>1, <4>1
        <5> QED
          BY <3>3, <3>4, <3>7, <3>8, <3>9, <4>1, <5>1
      <4>2. CASE i = m + 1
        <5>1. ~(i <= m) /\ i <= m + 1 /\ i - m = 1
          BY <1>1, <4>2
        <5> QED
          BY <2>2, <3>2, <3>3, <3>4, <3>7, <3>8, <3>9, <4>2, <5>1
      <4>3. CASE i > m + 1
        <5>1. ~(i <= m) /\ ~(i <= m + 1) /\ i - (m + 1) \in 1..(n - 1) /\ (i - (m + 1)) + 1 = i - m
          BY <1>1, <4>3
        <5> QED
          BY <2>1, <3>7, <3>8, <3>9, <5>1
      <4> QED
        BY <1>1, <4>1, <4>2, <4>3
    <3>11. Flow(t) = Flow(b)
      BY <3>7, <3>8, <3>9, <3>10, SeqEqual
    <3> QED
      BY <3>4, <3>5, <3>6, <3>11 DEF t
  <2> QED
    BY <1>1, <2>4, <2>5, MaxPendingAssumption
<1> QED
  BY <1>2, <1>3

\* The least of the places of commands is one of them, and the first place if
\* that is among them.
LEMMA LeastPlace ==
  ASSUME NEW n \in Nat, NEW I \in SUBSET (1..n), I # {}
  PROVE  Min(I) \in I /\ (1 \in I => Min(I) = 1)
<1>1. IsWellFoundedOn(OpToRel(<, Nat), Nat)
  BY NatLessThanWellFounded
<1>2. I \in SUBSET Nat
  OBVIOUS
<1>3. PICK x \in I : \A y \in I : ~(<<y, x>> \in OpToRel(<, Nat))
  BY <1>1, <1>2, WFMin
<1>4. \A y \in I : y \in Nat /\ 1 <= y
  OBVIOUS
<1>5. \A y \in I : ~(y < x)
  BY <1>2, <1>3 DEF OpToRel
<1>6. Min(I) \in I /\ \A y \in I : Min(I) <= y
  <2>1. \A y \in I : x <= y
    BY <1>4, <1>5
  <2> QED
    BY <2>1 DEF Min
<1>7. Min(I) \in Nat /\ 1 <= Min(I)
  BY <1>4, <1>6
<1>8. 1 \in I => Min(I) <= 1
  BY <1>6
<1> QED
  BY <1>6, <1>7, <1>8

\* The command that is answered is on its way to MTB-USB, and it is the first one
\* if none was discarded.
LEMMA AnsweredFacts ==
  ASSUME NEW b \in Bus, Answered(b) # 0
  PROVE  /\ Answered(b) \in 1..Len(b.pending) /\ b.pending[Answered(b)].awaited
         /\ ~Discarded(b) => Answered(b) = 1
<1> DEFINE I == {i \in 1..Len(b.pending) : b.pending[i].awaited}
<1>1. Len(b.pending) \in Nat /\ DOMAIN b.pending = 1..Len(b.pending)
  BY BusFacts
<1>2. I # {} /\ Answered(b) = Min(I)
  BY DEF Answered, SelectInSeq
<1>3. I \in SUBSET (1..Len(b.pending))
  OBVIOUS
<1>4. Answered(b) \in I /\ (1 \in I => Answered(b) = 1)
  <2> HIDE DEF I
  <2> QED
    BY <1>1, <1>2, <1>3, LeastPlace
<1>5. ~Discarded(b) => 1 \in I
  BY <1>1, <1>4 DEF Discarded
<1> QED
  BY <1>4, <1>5

\* So is the one the answer is paired with; it accepts the response, or has the
\* code of the command.
LEMMA PairedFacts ==
  ASSUME NEW b \in Bus, NEW a \in 1..Len(b.pending), NEW kind, kind = b.pending[a].cmd.kind
  PROVE  LET p    == PairedWithResponse(b, kind)
             q    == PairedWithNoResponse(b, kind)
         IN  /\ p \in 1..Len(b.pending) /\ Response(b.pending[p].cmd.kind) = Response(kind)
             /\ q \in 1..Len(b.pending) /\ b.pending[q].cmd.kind = kind
             /\ PairedWithBusError \in 1..Len(b.pending)
             /\ a = 1 => p = 1 /\ q = 1 /\ PairedWithBusError = 1
<1> DEFINE I == {i \in 1..Len(b.pending) : Response(b.pending[i].cmd.kind) = Response(kind)}
           J == {i \in 1..Len(b.pending) : b.pending[i].cmd.kind = kind}
<1>1. Len(b.pending) \in Nat
  BY BusFacts
<1>2. a \in I /\ a \in J
  OBVIOUS
<1>3. PairedWithResponse(b, kind) = Min(I) /\ PairedWithNoResponse(b, kind) = Min(J)
  BY <1>2 DEF PairedWithResponse, PairedWithNoResponse, SelectInSeq
<1>4. I \in SUBSET (1..Len(b.pending)) /\ J \in SUBSET (1..Len(b.pending))
  OBVIOUS
<1>5. /\ Min(I) \in I /\ (1 \in I => Min(I) = 1)
      /\ Min(J) \in J /\ (1 \in J => Min(J) = 1)
  <2> HIDE DEF I, J
  <2> QED
    BY <1>1, <1>2, <1>4, LeastPlace
<1>6. PairedWithBusError \in 1..Len(b.pending)
  BY <1>1 DEF PairedWithBusError
<1> QED
  BY <1>2, <1>3, <1>5, <1>6 DEF PairedWithBusError

\* A command MTB-USB had no room for is discarded.
LEMMA FullBufferFacts ==
  ASSUME NEW b \in Bus, Answered(b) # 0
  PROVE  /\ FullBuffer(b) \in Bus /\ Len(FullBuffer(b).pending) = Len(b.pending)
         /\ Discarded(FullBuffer(b))
<1> DEFINE a == Answered(b)
           x == [b.pending[a] EXCEPT !.awaited = FALSE]
           q == [b.pending EXCEPT ![a].awaited = FALSE]
<1>1. /\ Len(b.pending) \in Nat /\ b.pending \in Seq(Pending) /\ b.out \in Seq(Sendable)
      /\ b = [pending |-> b.pending, out |-> b.out] /\ DOMAIN b.pending = 1..Len(b.pending)
      /\ a \in 1..Len(b.pending) /\ b.pending[a] \in Pending
  BY BusFacts, AnsweredFacts
<1>2. FullBuffer(b) = [b EXCEPT !.pending = q]
  BY DEF FullBuffer
<1> HIDE DEF a
<1>3. x \in Pending /\ x.awaited = FALSE
  BY <1>1 DEF Pending
<1>4. q = [b.pending EXCEPT ![a] = x]
  BY <1>1
<1> HIDE DEF x, q
<1>5. q \in Seq(Pending) /\ Len(q) = Len(b.pending) /\ q[a] = x
  BY <1>1, <1>3, <1>4, ExceptSeq
<1>6. DOMAIN q = 1..Len(b.pending)
  BY <1>5, LenProperties
<1>7. FullBuffer(b).pending = q /\ FullBuffer(b) \in Bus
  BY <1>1, <1>2, <1>5 DEF Bus
<1> QED
  BY <1>1, <1>3, <1>5, <1>6, <1>7 DEF Discarded

-----------------------------------------------------------------------------
(* Handlers: types, requesters, and what they do with the outputs *)

LEMMA StateFields ==
  ASSUME NEW s \in State
  PROVE  s.module \in Module /\ s.bus \in Bus /\ s.owed \in Owed /\ s.overtaken \in BOOLEAN
BY DEF State

\* The typed parts a state is put together from.
LEMMA StateWith ==
  ASSUME NEW s \in State
  PROVE  /\ \A m \in Module : /\ [s EXCEPT !.module = m] \in State
                              /\ [s EXCEPT !.module = m].module = m
                              /\ [s EXCEPT !.module = m].bus = s.bus
                              /\ [s EXCEPT !.module = m].owed = s.owed
                              /\ [s EXCEPT !.module = m].overtaken = s.overtaken
         /\ \A b \in Bus : /\ [s EXCEPT !.bus = b] \in State
                           /\ [s EXCEPT !.bus = b].bus = b
                           /\ [s EXCEPT !.bus = b].module = s.module
                           /\ [s EXCEPT !.bus = b].owed = s.owed
                           /\ [s EXCEPT !.bus = b].overtaken = s.overtaken
BY DEF State

LEMMA SendCmdFacts ==
  ASSUME NEW s \in State, NEW kind, NEW then, NEW data,
         [kind |-> kind, then |-> then, data |-> data] \in Sendable
  PROVE  LET t == SendCmd(s, kind, then, data)
         IN  /\ t \in State /\ t.module = s.module /\ t.owed = s.owed /\ t.overtaken = s.overtaken
             /\ t.bus = Send(s.bus, [kind |-> kind, then |-> then, data |-> data])
<1> DEFINE b == Send(s.bus, [kind |-> kind, then |-> then, data |-> data])
<1>1. b \in Bus
  BY StateFields, SendFacts
<1>2. SendCmd(s, kind, then, data) = [s EXCEPT !.bus = b]
  BY DEF SendCmd
<1> HIDE DEF b
<1>3. /\ [s EXCEPT !.bus = b] \in State /\ [s EXCEPT !.bus = b].bus = b
      /\ [s EXCEPT !.bus = b].module = s.module
      /\ [s EXCEPT !.bus = b].owed = s.owed
      /\ [s EXCEPT !.bus = b].overtaken = s.overtaken
  BY <1>1, StateWith
<1> QED
  BY <1>2, <1>3 DEF b

\* What is sent is Sendable.
LEMMA SendableCmds ==
  /\ \A v \in Outputs : SetOutput(v) \in Sendable /\ SetOutput(v).kind = "SetOutput" /\ SetOutput(v).data = v
  /\ \A kind \in Kinds \ {"SetOutput"}, then \in {"request", "activation"} :
       /\ [kind |-> kind, then |-> then, data |-> NoData] \in Sendable
       /\ [kind |-> kind, then |-> then, data |-> NoData].kind # "SetOutput"
BY DEF Sendable, Command, SetOutput, Kinds

LEMMA SetOutputsFacts ==
  ASSUME NEW s \in State
  PROVE  LET t == SetOutputs(s)
         IN  /\ t \in State /\ SameRequesters(s, t) /\ OutputsSent(s, t) /\ t.owed = s.owed
             /\ t.module.want = s.module.want /\ t.module.confirmed = s.module.confirmed
             /\ t.module.sent = s.module.waiting
<1> DEFINE m == [s.module EXCEPT !.sent = s.module.waiting, !.waiting = <<>>]
           u == [s EXCEPT !.module = m]
<1>1. s.module \in Module /\ s.bus \in Bus /\ s.module.want \in Outputs
  BY StateFields DEF Module
<1>2. /\ m \in Module /\ m.sent = s.module.waiting /\ m.waiting = <<>> /\ m.want = s.module.want
      /\ m.confirmed = s.module.confirmed /\ m.writing = s.module.writing /\ m.fw = s.module.fw
  BY <1>1, EmptySeq DEF Module
<1>3. [s EXCEPT !.module.sent = s.module.waiting, !.module.waiting = <<>>] = u
  BY DEF State
<1> HIDE DEF m
<1>4. /\ u \in State /\ u.module = m /\ u.bus = s.bus /\ u.owed = s.owed /\ u.overtaken = s.overtaken
  BY <1>2, StateWith
<1>5. SetOutputs(s) = SendCmd(u, "SetOutput", "request", s.module.want)
  BY <1>3 DEF SetOutputs
<1> HIDE DEF u
<1>6. SetOutput(s.module.want) \in Sendable
  BY <1>1, SendableCmds
<1>7. LET t == SetOutputs(s)
      IN  /\ t \in State /\ t.module = m /\ t.owed = s.owed /\ t.overtaken = s.overtaken
          /\ t.bus = Send(s.bus, SetOutput(s.module.want))
  BY <1>4, <1>5, <1>6, SendCmdFacts DEF SetOutput
<1> QED
  BY <1>2, <1>7 DEF OutputsSent, SameRequesters

LEMMA IfUpgradingFacts ==
  ASSUME NEW s \in State
  PROVE  LET t == IfUpgrading(s)
         IN  /\ t \in State /\ t.bus = s.bus /\ t.owed = s.owed /\ t.overtaken = s.overtaken
             /\ t.module.want = s.module.want /\ t.module.confirmed = s.module.confirmed
             /\ t.module.waiting = s.module.waiting /\ t.module.sent = s.module.sent
             /\ t.module.writing = s.module.writing /\ t.module.fw = s.module.fw
<1>1. FwUpgdInit(s) \in State
  BY DEF FwUpgdInit, State, Module
<1> QED
  BY <1>1 DEF IfUpgrading, FwUpgdInit, State

LEMMA CopiesType ==
  ASSUME NEW q \in Queue, NEW c
  PROVE  Copies(q, c) \in Nat
<1>1. IsFiniteSet(1..Len(q)) /\ DOMAIN q = 1..Len(q)
  BY FS_Interval, LenProperties DEF Queue
<1>2. {i \in DOMAIN q : q[i] = c} \subseteq 1..Len(q)
  BY <1>1
<1>3. IsFiniteSet({i \in DOMAIN q : q[i] = c})
  BY <1>1, <1>2, FS_Subset
<1> QED
  BY <1>3, FS_CardinalityType DEF Copies

\* The requests sent are answered, those that wait are sent or there are none.
OutputsAnsweredAs(s, t, confirmed) ==
  /\ t.module.want = s.module.want /\ t.module.confirmed = confirmed
  /\ t.module.sent = s.module.waiting /\ t.module.waiting = <<>>
  /\ t.overtaken = s.overtaken
  /\ t.bus = IF s.module.waiting = <<>> THEN s.bus ELSE Send(s.bus, SetOutput(s.module.want))
  /\ \A c \in clients : t.owed[c]["outputs"] = s.owed[c]["outputs"] - Copies(s.module.sent, c)

LEMMA OutputsAnsweredFacts ==
  ASSUME NEW s \in State, NEW confirmed \in Outputs, clients \subseteq Sockets
  PROVE  LET t == OutputsAnswered(s, confirmed)
         IN  t \in State /\ SameRequesters(s, t) /\ OutputsAnsweredAs(s, t, confirmed)
<1> DEFINE m == s.module
           o == [c \in Sockets |->
                   IF c \in clients THEN [s.owed[c] EXCEPT !["outputs"] = @ - Copies(m.sent, c)]
                   ELSE s.owed[c]]
           mm == [m EXCEPT !.sent = <<>>, !.confirmed = confirmed]
           u == [s EXCEPT !.owed = o, !.module = mm]
           t == OutputsAnswered(s, confirmed)
<1>1. m \in Module /\ s.owed \in Owed /\ s.bus \in Bus /\ s.overtaken \in BOOLEAN
  BY StateFields
<1>2. m.sent \in Queue /\ \A c \in Sockets : Copies(m.sent, c) \in Nat
  BY <1>1, CopiesType DEF Module, Queue
<1>3. /\ o \in Owed
      /\ \A c \in Sockets : /\ o[c]["config"] = s.owed[c]["config"]
                            /\ o[c]["upgrade"] = s.owed[c]["upgrade"]
      /\ \A c \in clients : o[c]["outputs"] = s.owed[c]["outputs"] - Copies(m.sent, c)
  <2> HIDE DEF m
  <2>1. \A c \in Sockets : s.owed[c] \in [Requested -> Int]
    BY <1>1 DEF Owed
  <2>2. ASSUME NEW c \in Sockets
        PROVE  LET r == [s.owed[c] EXCEPT !["outputs"] = @ - Copies(m.sent, c)]
               IN  /\ r \in [Requested -> Int]
                   /\ r["config"] = s.owed[c]["config"] /\ r["upgrade"] = s.owed[c]["upgrade"]
                   /\ r["outputs"] = s.owed[c]["outputs"] - Copies(m.sent, c)
    BY <1>2, <2>1 DEF Requested
  <2>3. \A c \in Sockets : o[c] \in [Requested -> Int]
    BY <2>1, <2>2
  <2>4. o \in Owed
    BY <2>3 DEF Owed
  <2> QED
    BY <2>2, <2>4
<1>4. /\ mm \in Module /\ mm.sent = <<>> /\ mm.confirmed = confirmed /\ mm.waiting = m.waiting
      /\ mm.want = m.want /\ mm.writing = m.writing /\ mm.fw = m.fw
  BY <1>1, EmptySeq DEF Module
<1>5. t = IF m.waiting = <<>> THEN IfUpgrading(u) ELSE SetOutputs(u)
  BY DEF OutputsAnswered
<1> HIDE DEF o, mm, m
<1>6. u \in State /\ u.module = mm /\ u.owed = o /\ u.bus = s.bus /\ u.overtaken = s.overtaken
  BY <1>1, <1>3, <1>4 DEF State
<1> HIDE DEF u, t
<1>7. CASE m.waiting = <<>>
  <2>1. t = IfUpgrading(u)
    BY <1>5, <1>7
  <2>2. /\ t \in State /\ t.bus = u.bus /\ t.owed = u.owed /\ t.overtaken = u.overtaken
        /\ t.module.want = u.module.want /\ t.module.confirmed = u.module.confirmed
        /\ t.module.waiting = u.module.waiting /\ t.module.sent = u.module.sent
        /\ t.module.writing = u.module.writing /\ t.module.fw = u.module.fw
    BY <1>6, <2>1, IfUpgradingFacts
  <2> QED
    BY <1>3, <1>4, <1>6, <1>7, <2>2 DEF SameRequesters, OutputsAnsweredAs, m, t
<1>8. CASE m.waiting # <<>>
  <2>1. t = SetOutputs(u)
    BY <1>5, <1>8
  <2>2. /\ t \in State /\ SameRequesters(u, t) /\ OutputsSent(u, t) /\ t.owed = u.owed
        /\ t.module.want = u.module.want /\ t.module.confirmed = u.module.confirmed
        /\ t.module.sent = u.module.waiting
    BY <1>6, <2>1, SetOutputsFacts
  <2> QED
    BY <1>3, <1>4, <1>6, <1>8, <2>2 DEF SameRequesters, OutputsAnsweredAs, OutputsSent, m, t
<1> QED
  BY <1>7, <1>8

\* What is safe for the outputs.
LEMMA SafeType ==
  ASSUME NEW m \in Module
  PROVE  Safe(m) \in Outputs
BY UniAssumption DEF Safe, AllZero, Outputs, Configs, Module

LEMMA ResetFacts ==
  ASSUME NEW s \in State
  PROVE  LET t == Reset(s)
         IN  t \in State /\ SameRequesters(s, t) /\ OutputsPut(s, t) /\ t.owed = s.owed
<1> DEFINE m == s.module
           mm == [m EXCEPT !.want = Safe(m), !.confirmed = Safe(m), !.who = [p \in Ports |-> NoSocket]]
           t == [s EXCEPT !.module = mm, !.overtaken = @ \/ SetOutputUnderWay(s.bus)]
<1>1. m \in Module /\ s.owed \in Owed /\ s.bus \in Bus /\ s.overtaken \in BOOLEAN /\ Safe(m) \in Outputs
  BY StateFields, SafeType
<1>2. /\ mm \in Module /\ mm.want = mm.confirmed /\ mm.waiting = m.waiting /\ mm.sent = m.sent
      /\ mm.writing = m.writing /\ mm.fw = m.fw
  BY <1>1 DEF Module
<1>3. Reset(s) = t
  BY DEF Reset
<1> HIDE DEF mm, m
<1>4. (s.overtaken \/ SetOutputUnderWay(s.bus)) \in BOOLEAN
  OBVIOUS
<1>5. /\ t \in State /\ t.module = mm /\ t.owed = s.owed /\ t.bus = s.bus
      /\ t.overtaken = (s.overtaken \/ SetOutputUnderWay(s.bus))
  BY <1>1, <1>2, <1>4 DEF State
<1> HIDE DEF t
<1> QED
  BY <1>2, <1>3, <1>5 DEF SameRequesters, OutputsPut, SameQueues, SameOutputsOwed, m

-----------------------------------------------------------------------------
(* Copies of a socket in the queues *)

Places(q, c) == {i \in DOMAIN q : q[i] = c}

LEMMA PlacesFacts ==
  ASSUME NEW q \in Queue, NEW c
  PROVE  /\ Len(q) \in Nat /\ DOMAIN q = 1..Len(q) /\ Places(q, c) \subseteq 1..Len(q)
         /\ IsFiniteSet(Places(q, c)) /\ Cardinality(Places(q, c)) \in Nat
         /\ Copies(q, c) = Cardinality(Places(q, c))
<1>1. Len(q) \in Nat /\ DOMAIN q = 1..Len(q) /\ IsFiniteSet(1..Len(q))
  BY FS_Interval, LenProperties DEF Queue
<1>2. Places(q, c) \subseteq 1..Len(q)
  BY <1>1 DEF Places
<1>3. IsFiniteSet(Places(q, c))
  BY <1>1, <1>2, FS_Subset
<1> QED
  BY <1>1, <1>2, <1>3, FS_CardinalityType DEF Copies, Places

LEMMA CopiesOfEmpty ==
  ASSUME NEW c
  PROVE  Copies(<<>>, c) = 0
<1>1. Places(<<>>, c) = {}
  BY DEF Places
<1> QED
  BY <1>1, FS_EmptySet DEF Copies, Places

\* The copies in two queues one behind the other.
LEMMA CopiesConcat ==
  ASSUME NEW p \in Queue, NEW q \in Queue, NEW c
  PROVE  p \o q \in Queue /\ Copies(p \o q, c) = Copies(p, c) + Copies(q, c)
<1> DEFINE m == Len(p)
           n == Len(q)
           A == Places(p, c)
           B == Places(q, c)
           C == {i \in (m + 1)..(m + n) : q[i - m] = c}
           f == [i \in B |-> m + i]
<1>1. /\ m \in Nat /\ n \in Nat /\ A \subseteq 1..m /\ B \subseteq 1..n
      /\ IsFiniteSet(A) /\ IsFiniteSet(B) /\ Cardinality(A) \in Nat /\ Cardinality(B) \in Nat
      /\ Copies(p, c) = Cardinality(A) /\ Copies(q, c) = Cardinality(B)
      /\ DOMAIN p = 1..m /\ DOMAIN q = 1..n
  BY PlacesFacts
<1>2. /\ p \o q \in Queue /\ Len(p \o q) = m + n
      /\ \A i \in 1..(m + n) : (p \o q)[i] = IF i <= m THEN p[i] ELSE q[i - m]
  BY ConcatProperties DEF Queue
<1>3. DOMAIN (p \o q) = 1..(m + n)
  BY <1>2, LenProperties DEF Queue
<1> HIDE DEF m, n
<1>4. Places(p \o q, c) = A \cup C
  <2>1. ASSUME NEW i \in 1..(m + n)
        PROVE  (p \o q)[i] = c <=> i \in A \cup C
    <3>1. CASE i <= m
      <4>1. i \in 1..m /\ i \notin (m + 1)..(m + n)
        BY <1>1, <3>1
      <4> QED
        BY <1>1, <1>2, <3>1, <4>1 DEF Places
    <3>2. CASE ~(i <= m)
      <4>1. i \in (m + 1)..(m + n) /\ i \notin 1..m
        BY <1>1, <3>2
      <4> QED
        BY <1>1, <1>2, <3>2, <4>1
    <3> QED
      BY <3>1, <3>2
  <2>2. A \cup C \subseteq 1..(m + n)
    BY <1>1
  <2> QED
    BY <1>3, <2>1, <2>2 DEF Places
<1>5. A \cap C = {}
  BY <1>1
<1>6. IsFiniteSet(C) /\ Cardinality(C) = Cardinality(B)
  <2>1. \A i \in B : m + i \in C
    BY <1>1 DEF Places
  <2>2. \A k \in C : k - m \in B /\ m + (k - m) = k
    BY <1>1 DEF Places
  <2>3. \A i, k \in B : m + i = m + k => i = k
    BY <1>1
  <2> HIDE DEF B, C
  <2>4. f \in Bijection(B, C)
    <3>1. f \in [B -> C]
      BY <2>1
    <3>2. \A i, k \in B : f[i] = f[k] => i = k
      BY <2>3
    <3>3. \A k \in C : \E i \in B : f[i] = k
      BY <2>2
    <3> QED
      BY <3>1, <3>2, <3>3, Fun_IsBij
  <2>5. ExistsBijection(B, C)
    BY <2>4 DEF ExistsBijection
  <2> QED
    BY <1>1, <2>5, FS_Bijection
<1> HIDE DEF A, B, C
<1>7. Cardinality(A \cup C) = Cardinality(A) + Cardinality(C)
  <2>1. Cardinality(A \cup C) = Cardinality(A) + Cardinality(C) - Cardinality(A \cap C)
    BY <1>1, <1>6, FS_Union
  <2>2. Cardinality(A \cap C) = 0
    BY <1>5, FS_EmptySet
  <2> QED
    BY <1>1, <1>6, <2>1, <2>2
<1>8. Copies(p \o q, c) = Cardinality(A \cup C)
  BY <1>2, <1>4, PlacesFacts
<1> QED
  BY <1>1, <1>2, <1>6, <1>7, <1>8

LEMMA CopiesAppend ==
  ASSUME NEW q \in Queue, NEW x \in Sockets \cup {NoSocket}, NEW c
  PROVE  /\ Append(q, x) \in Queue /\ Append(q, x) # <<>>
         /\ Copies(Append(q, x), c) = Copies(q, c) + (IF x = c THEN 1 ELSE 0)
<1>1. /\ Append(q, x) \in Queue /\ Append(q, x) # <<>>
  BY AppendProperties DEF Queue
<1>2. /\ <<x>> \in Queue /\ Append(q, x) = q \o <<x>>
  BY AppendIsConcat DEF Queue
<1>3. Copies(<<x>>, c) = IF x = c THEN 1 ELSE 0
  <2>1. Places(<<x>>, c) = IF x = c THEN {1} ELSE {}
    BY DEF Places
  <2> QED
    BY <2>1, FS_EmptySet, FS_Singleton DEF Copies, Places
<1> QED
  BY <1>1, <1>2, <1>3, CopiesConcat

-----------------------------------------------------------------------------
(* Handlers that reset a client's outputs *)

\* Requests of c that are queued.
Queued(s, c) == Copies(s.module.waiting, c) + Copies(s.module.sent, c)

\* A request of nobody waits, or is sent at once if none is under way.
ClientReset(s, t) ==
  /\ t.module.confirmed = s.module.confirmed /\ t.overtaken = s.overtaken
  /\ \A c \in Sockets : Queued(t, c) = Queued(s, c)
  /\ \/ OutputsSent(s, t)
     \/ /\ t.bus = s.bus
        /\ t.module.waiting # <<>> /\ t.module.sent = s.module.sent /\ s.module.sent # <<>>

LEMMA ResetOutputsOfClientFacts ==
  ASSUME NEW s \in State, NEW c \in Sockets
  PROVE  LET t == ResetOutputsOfClient(s, c)
         IN  \/ t = s
             \/ t \in State /\ SameRequesters(s, t) /\ t.owed = s.owed /\ ClientReset(s, t)
<1> DEFINE m == s.module
           ports == {p \in Ports : m.who[p] = c}
           w == [p \in Ports |-> IF p \in ports THEN Safe(m)[p] ELSE m.want[p]]
           o == [p \in Ports |-> IF p \in ports THEN NoSocket ELSE m.who[p]]
           q == Append(m.waiting, NoSocket)
           mm == [m EXCEPT !.want = w, !.who = o, !.waiting = q]
           u == [s EXCEPT !.module = mm]
           t == ResetOutputsOfClient(s, c)
<1>1. /\ m \in Module /\ Safe(m) \in Outputs /\ m.want \in Outputs
      /\ m.who \in [Ports -> Sockets \cup {NoSocket}] /\ m.waiting \in Queue /\ m.sent \in Queue
  BY StateFields, SafeType DEF Module, Queue
<1>2. w \in Outputs /\ o \in [Ports -> Sockets \cup {NoSocket}]
  <2> HIDE DEF m
  <2> QED
    BY <1>1 DEF Outputs
<1>3. /\ q \in Queue /\ q # <<>>
      /\ \A x \in Sockets : Copies(q, x) = Copies(m.waiting, x)
  <2>1. \A x \in Sockets : x # NoSocket
    BY UniAssumption
  <2>2. \A x \in Sockets : Copies(m.waiting, x) \in Nat
    BY <1>1, CopiesType
  <2> HIDE DEF q
  <2>3. q \in Queue /\ q # <<>> /\ \A x : Copies(q, x) = Copies(m.waiting, x) + (IF NoSocket = x THEN 1 ELSE 0)
    <3> HIDE DEF m
    <3>1. NoSocket \in Sockets \cup {NoSocket}
      OBVIOUS
    <3> QED
      BY <1>1, <3>1, CopiesAppend DEF q
  <2> QED
    BY <2>1, <2>2, <2>3
<1>4. t = IF m.config = NoConfig \/ ports = {} THEN s
          ELSE IF m.sent = <<>> THEN SetOutputs(u) ELSE u
  <2>1. [s EXCEPT !.module.want = [p \in Ports |-> IF p \in ports THEN Safe(s.module)[p] ELSE @[p]],
                  !.module.who  = [p \in Ports |-> IF p \in ports THEN NoSocket ELSE @[p]],
                  !.module.waiting = Append(@, NoSocket)] = u
    BY DEF State
  <2> QED
    BY <2>1 DEF ResetOutputsOfClient
<1> HIDE DEF w, o, q, ports
<1>5. /\ mm \in Module /\ mm.waiting = q /\ mm.sent = m.sent /\ mm.confirmed = m.confirmed
      /\ mm.writing = m.writing /\ mm.fw = m.fw
  BY <1>1, <1>2, <1>3 DEF Module, Queue
<1> HIDE DEF mm
<1>6. u \in State /\ u.module = mm /\ u.bus = s.bus /\ u.owed = s.owed /\ u.overtaken = s.overtaken
  BY <1>5, StateWith
<1> HIDE DEF u, t, m
<1>7. CASE m.config = NoConfig \/ ports = {}
  BY <1>4, <1>7 DEF t
<1>8. CASE ~(m.config = NoConfig \/ ports = {}) /\ m.sent = <<>>
  <2>1. t = SetOutputs(u)
    BY <1>4, <1>8
  <2>2. /\ t \in State /\ SameRequesters(u, t) /\ OutputsSent(u, t) /\ t.owed = u.owed
        /\ t.module.confirmed = u.module.confirmed
        /\ t.module.sent = u.module.waiting
    BY <1>6, <2>1, SetOutputsFacts
  <2>3. t.module.sent = q /\ t.module.waiting = <<>>
    BY <1>5, <1>6, <2>2 DEF OutputsSent
  <2>4. ASSUME NEW x \in Sockets
        PROVE  Queued(t, x) = Queued(s, x)
    <3>1. Copies(m.waiting, x) \in Nat
      BY <1>1, CopiesType
    <3>2. Queued(t, x) = 0 + Copies(m.waiting, x)
      BY <1>3, <2>3, CopiesOfEmpty DEF Queued
    <3>3. Queued(s, x) = Copies(m.waiting, x) + 0
      BY <1>8, CopiesOfEmpty DEF Queued, m
    <3> QED
      BY <3>1, <3>2, <3>3
  <2>5. SameRequesters(s, t) /\ OutputsSent(s, t) /\ t.owed = s.owed
    BY <1>5, <1>6, <2>2 DEF SameRequesters, OutputsSent, m
  <2>6. ClientReset(s, t)
    BY <1>5, <1>6, <2>2, <2>4, <2>5 DEF ClientReset, OutputsSent, m
  <2> QED
    BY <2>2, <2>5, <2>6 DEF t
<1>9. CASE ~(m.config = NoConfig \/ ports = {}) /\ m.sent # <<>>
  <2>1. t = u
    BY <1>4, <1>9
  <2>2. \A x \in Sockets : Queued(t, x) = Queued(s, x)
    BY <1>3, <1>5, <1>6, <2>1 DEF Queued, m
  <2>3. ClientReset(s, t)
    BY <1>3, <1>5, <1>6, <1>9, <2>1, <2>2 DEF ClientReset, m
  <2>4. SameRequesters(s, t)
    BY <1>5, <1>6, <2>1 DEF SameRequesters, m
  <2> QED
    BY <1>6, <2>1, <2>3, <2>4 DEF t
<1> QED
  BY <1>7, <1>8, <1>9

\* clientResetOutputs resets the client's outputs, or all, or none.
LEMMA ClientResetOutputsFacts ==
  ASSUME NEW s \in State, NEW c \in Sockets, NEW elsewhere
  PROVE  LET t == ClientResetOutputs(s, c, elsewhere)
         IN  \/ t = s
             \/ /\ t \in State /\ SameRequesters(s, t) /\ t.owed = s.owed
                /\ ClientReset(s, t) \/ OutputsPut(s, t)
BY ResetOutputsOfClientFacts, ResetFacts DEF ClientResetOutputs

-----------------------------------------------------------------------------
(* Requests, their answers, and what changes who waits for one *)

LEMMA AskFacts ==
  ASSUME NEW s \in State, NEW c \in Sockets, NEW kind \in Requested
  PROVE  LET t == Ask(s, c, kind)
         IN  /\ t \in State /\ t.module = s.module /\ t.bus = s.bus /\ t.overtaken = s.overtaken
             /\ \A x \in Sockets, k \in Requested :
                  t.owed[x][k] = IF x = c /\ k = kind THEN s.owed[x][k] + 1 ELSE s.owed[x][k]
<1> DEFINE o == [s.owed EXCEPT ![c][kind] = @ + 1]
           t == [s EXCEPT !.owed = o]
<1>1. s.owed \in Owed /\ \A x \in Sockets, k \in Requested : s.owed[x][k] \in Int
  BY StateFields DEF Owed
<1>2. /\ o \in Owed
      /\ \A x \in Sockets, k \in Requested :
           o[x][k] = IF x = c /\ k = kind THEN s.owed[x][k] + 1 ELSE s.owed[x][k]
  BY <1>1 DEF Owed
<1>3. Ask(s, c, kind) = t
  BY DEF Ask, State
<1> HIDE DEF o
<1>4. t \in State /\ t.module = s.module /\ t.bus = s.bus /\ t.overtaken = s.overtaken /\ t.owed = o
  BY <1>2 DEF State
<1> QED
  BY <1>2, <1>3, <1>4

LEMMA ReplyFacts ==
  ASSUME NEW s \in State, NEW c, NEW kind \in Requested, clients \subseteq Sockets
  PROVE  LET t == Reply(s, c, kind)
         IN  /\ t \in State /\ t.module = s.module /\ t.bus = s.bus /\ t.overtaken = s.overtaken
             /\ \A x \in Sockets, k \in Requested :
                  t.owed[x][k] = IF x = c /\ c \in clients /\ k = kind THEN s.owed[x][k] - 1
                                 ELSE s.owed[x][k]
<1> DEFINE o == [s.owed EXCEPT ![c][kind] = @ - 1]
           t == [s EXCEPT !.owed = o]
<1>1. s.owed \in Owed /\ \A x \in Sockets, k \in Requested : s.owed[x][k] \in Int
  BY StateFields DEF Owed
<1>2. CASE c \in clients
  <2>1. c \in Sockets
    BY <1>2
  <2>2. /\ o \in Owed
        /\ \A x \in Sockets, k \in Requested :
             o[x][k] = IF x = c /\ k = kind THEN s.owed[x][k] - 1 ELSE s.owed[x][k]
    BY <1>1, <2>1 DEF Owed
  <2>3. Reply(s, c, kind) = t
    BY <1>2 DEF Reply, State
  <2> HIDE DEF o
  <2>4. t \in State /\ t.module = s.module /\ t.bus = s.bus /\ t.overtaken = s.overtaken /\ t.owed = o
    BY <2>2 DEF State
  <2> QED
    BY <1>2, <2>2, <2>3, <2>4
<1>3. CASE c \notin clients
  BY <1>3 DEF Reply
<1> QED
  BY <1>2, <1>3

\* A configuration is answered: the requester, if it is still there, was owed
\* the answer.
LEMMA ConfigAnsweredFacts ==
  ASSUME NEW s \in State, NEW config \in Configs \cup {NoConfig}, clients \subseteq Sockets
  PROVE  LET t == ConfigAnswered(s, config)
         IN  /\ t \in State /\ SameOutputs(s, t) /\ t.bus = s.bus
             /\ RequestersSound(s) => RequestersSound(t)
<1> DEFINE m == s.module
           mm == [m EXCEPT !.config = config, !.writing = NoRequest]
           u == [s EXCEPT !.module = mm]
           r == Reply(u, m.writing, "config")
           t == IfUpgrading(r)
<1>1. m \in Module
  BY StateFields
<1>2. /\ mm \in Module /\ mm.writing = NoRequest /\ mm.fw = m.fw /\ mm.want = m.want
      /\ mm.confirmed = m.confirmed /\ mm.waiting = m.waiting /\ mm.sent = m.sent
  BY <1>1 DEF Module
<1>3. ConfigAnswered(s, config) = t
  BY DEF ConfigAnswered
<1> HIDE DEF mm
<1>4. u \in State /\ u.module = mm /\ u.bus = s.bus /\ u.owed = s.owed /\ u.overtaken = s.overtaken
  BY <1>2, StateWith
<1> HIDE DEF u
<1>5. /\ r \in State /\ r.module = mm /\ r.bus = s.bus /\ r.overtaken = s.overtaken
      /\ \A x \in Sockets, k \in Requested :
           r.owed[x][k] = IF x = m.writing /\ m.writing \in clients /\ k = "config" THEN s.owed[x][k] - 1
                          ELSE s.owed[x][k]
  <2>1. "config" \in Requested
    BY DEF Requested
  <2> HIDE DEF m
  <2> QED
    BY <1>4, <2>1, ReplyFacts
<1> HIDE DEF r
<1>6. /\ t \in State /\ t.bus = s.bus /\ t.owed = r.owed /\ t.overtaken = s.overtaken
      /\ t.module.want = m.want /\ t.module.confirmed = m.confirmed
      /\ t.module.waiting = m.waiting /\ t.module.sent = m.sent
      /\ t.module.writing = NoRequest /\ t.module.fw = m.fw
  BY <1>2, <1>5, IfUpgradingFacts
<1> HIDE DEF t
<1>7. SameOutputs(s, t)
  BY <1>5, <1>6 DEF SameOutputs, SameQueues, SameOutputsOwed, m, Requested
<1>8. ASSUME RequestersSound(s)
      PROVE  RequestersSound(t)
  <2>1. t.module.writing \in clients \cup {NoSocket, NoRequest} /\ t.module.fw \in clients \cup {NoSocket, NoRequest}
    BY <1>6, <1>8 DEF RequestersSound, m
  <2>2. ASSUME NEW c \in Sockets
        PROVE  t.owed[c]["config"] = 0 /\ t.owed[c]["upgrade"] = s.owed[c]["upgrade"]
    <3>1. t.owed[c]["config"] = IF c = m.writing /\ m.writing \in clients THEN s.owed[c]["config"] - 1
                                ELSE s.owed[c]["config"]
      BY <1>5, <1>6 DEF Requested
    <3>2. t.owed[c]["upgrade"] = s.owed[c]["upgrade"]
      BY <1>5, <1>6 DEF Requested
    <3>3. c = m.writing => m.writing \in clients
      BY <1>8, UniAssumption DEF RequestersSound, m
    <3>4. s.owed[c]["config"] = IF m.writing = c THEN 1 ELSE 0
      BY <1>8 DEF RequestersSound, m
    <3> QED
      BY <3>1, <3>2, <3>3, <3>4
  <2>3. \A c \in Sockets : t.module.writing # c
    BY <1>6, UniAssumption
  <2> QED
    BY <1>6, <1>8, <2>1, <2>2, <2>3 DEF RequestersSound, m
<1> QED
  BY <1>3, <1>6, <1>7, <1>8 DEF t

\* Requesters stay sound where they stay as they were.
LEMMA SameRequestersSound ==
  ASSUME NEW s, NEW t, SameRequesters(s, t), RequestersSound(s)
  PROVE  RequestersSound(t)
BY DEF SameRequesters, RequestersSound

-----------------------------------------------------------------------------
(* Activation, loss, and the callbacks of commands *)

\* What changes other fields of the module leaves outputs and requesters alone.
LEMMA OtherFields ==
  ASSUME NEW s \in State, NEW m \in Module,
         m.want = s.module.want, m.confirmed = s.module.confirmed,
         m.waiting = s.module.waiting, m.sent = s.module.sent,
         m.writing = s.module.writing, m.fw = s.module.fw
  PROVE  LET t == [s EXCEPT !.module = m]
         IN  t \in State /\ SameRequesters(s, t) /\ SameOutputs(s, t) /\ t.bus = s.bus /\ t.owed = s.owed
<1> DEFINE t == [s EXCEPT !.module = m]
<1>1. t \in State /\ t.module = m /\ t.bus = s.bus /\ t.owed = s.owed /\ t.overtaken = s.overtaken
  BY StateWith
<1> HIDE DEF t
<1> QED
  BY <1>1 DEF SameRequesters, SameOutputs, SameQueues, SameOutputsOwed, t

LEMMA LostFacts ==
  ASSUME NEW s \in State
  PROVE  LET t == Lost(s)
         IN  t \in State /\ SameRequesters(s, t) /\ SameOutputs(s, t) /\ t.bus = s.bus /\ t.owed = s.owed
<1> DEFINE mm == [s.module EXCEPT !.active = FALSE, !.activating = FALSE, !.remaining = 0]
<1>1. /\ mm \in Module /\ mm.want = s.module.want /\ mm.confirmed = s.module.confirmed
      /\ mm.waiting = s.module.waiting /\ mm.sent = s.module.sent
      /\ mm.writing = s.module.writing /\ mm.fw = s.module.fw
  <2>1. s.module \in Module /\ 0 \in 0..Activations
    BY StateFields, UniAssumption
  <2> QED
    BY <2>1 DEF Module
<1>2. Lost(s) = [s EXCEPT !.module = mm]
  BY DEF Lost
<1> HIDE DEF mm
<1> QED
  BY <1>1, <1>2, OtherFields

LEMMA ActivationErrorFacts ==
  ASSUME NEW s \in State
  PROVE  LET t == ActivationError(s)
         IN  t \in State /\ SameRequesters(s, t) /\ SameOutputs(s, t) /\ t.bus = s.bus /\ t.owed = s.owed
<1> DEFINE left == IF s.module.remaining > 0 THEN s.module.remaining - 1 ELSE 0
           mm == [s.module EXCEPT !.activating = FALSE, !.remaining = left]
<1>0. s.module \in Module /\ left \in 0..Activations
  BY StateFields, UniAssumption DEF Module
<1>1. /\ mm \in Module /\ mm.want = s.module.want /\ mm.confirmed = s.module.confirmed
      /\ mm.waiting = s.module.waiting /\ mm.sent = s.module.sent
      /\ mm.writing = s.module.writing /\ mm.fw = s.module.fw
  <2> HIDE DEF left
  <2> QED
    BY <1>0 DEF Module
<1>2. ActivationError(s) = [s EXCEPT !.module = mm]
  BY DEF ActivationError, State
<1> HIDE DEF mm
<1> QED
  BY <1>1, <1>2, OtherFields

\* The next command of the activation.
LEMMA ProceedFacts ==
  ASSUME NEW s \in State, NEW kind \in Kinds \ {"SetOutput"}
  PROVE  LET t == Proceed(s, kind)
         IN  /\ t \in State /\ SameRequesters(s, t) /\ OutputsKept(s, t) /\ t.owed = s.owed
             /\ t.module = s.module
             /\ t.bus = Send(s.bus, [kind |-> kind, then |-> "activation", data |-> NoData])
<1> DEFINE t == Proceed(s, kind)
           cmd == [kind |-> kind, then |-> "activation", data |-> NoData]
<1>1. cmd \in Sendable /\ cmd.kind # "SetOutput"
  BY SendableCmds
<1>2. /\ t \in State /\ t.module = s.module /\ t.owed = s.owed /\ t.overtaken = s.overtaken
      /\ t.bus = Send(s.bus, cmd)
  BY <1>1, SendCmdFacts DEF Proceed
<1> HIDE DEF t, cmd
<1> QED
  BY <1>1, <1>2 DEF SameRequesters, OutputsKept, SameOutputs, SameQueues, SameOutputsOwed, SendsOther, t, cmd

LEMMA ActivateFacts ==
  ASSUME NEW s \in State
  PROVE  LET t == Activate(s)
         IN  t \in State /\ SameRequesters(s, t) /\ OutputsKept(s, t) /\ t.owed = s.owed
<1> DEFINE mm == [s.module EXCEPT !.activating = TRUE]
           u == [s EXCEPT !.module = mm]
           kind == IF s.module.config # NoConfig THEN "SetConfig" ELSE "GetConfig"
           t == Proceed(u, kind)
<1>1. /\ mm \in Module /\ mm.want = s.module.want /\ mm.confirmed = s.module.confirmed
      /\ mm.waiting = s.module.waiting /\ mm.sent = s.module.sent
      /\ mm.writing = s.module.writing /\ mm.fw = s.module.fw
  BY StateFields DEF Module
<1>2. Activate(s) = t
  BY DEF Activate, State
<1>3. kind \in Kinds \ {"SetOutput"}
  BY DEF Kinds
<1> HIDE DEF mm, kind
<1>4. u \in State /\ SameRequesters(s, u) /\ SameOutputs(s, u) /\ u.bus = s.bus /\ u.owed = s.owed
  BY <1>1, OtherFields
<1> HIDE DEF u
<1>5. /\ t \in State /\ SameRequesters(u, t) /\ OutputsKept(u, t) /\ t.owed = u.owed
  BY <1>3, <1>4, ProceedFacts
<1> HIDE DEF t
<1>6. SameRequesters(s, t) /\ OutputsKept(s, t)
  BY <1>4, <1>5 DEF SameRequesters, OutputsKept, SameOutputs, SameQueues, SameOutputsOwed, SendsOther
<1> QED
  BY <1>2, <1>4, <1>5, <1>6

LEMMA OutputsResetFacts ==
  ASSUME NEW s \in State, clients \subseteq Sockets
  PROVE  LET t == OutputsReset(s)
         IN  t \in State /\ SameRequesters(s, t) /\ OutputsPut(s, t)
<1> DEFINE r == Reset(s)
           mm == [r.module EXCEPT !.activating = FALSE, !.remaining = 0, !.active = TRUE, !.reboot = NoRequest]
           u == [r EXCEPT !.module = mm]
           t == OutputsReset(s)
<1>1. r \in State /\ SameRequesters(s, r) /\ OutputsPut(s, r) /\ r.owed = s.owed
  BY ResetFacts
<1>2. t = IF s.module.reboot = NoRequest THEN u ELSE Reply(u, s.module.reboot, "reboot")
  <2> HIDE DEF r
  <2>1. [r EXCEPT !.module.activating = FALSE, !.module.remaining = 0,
                  !.module.active = TRUE, !.module.reboot = NoRequest] = u
    BY <1>1 DEF State
  <2> QED
    BY <2>1 DEF OutputsReset, r
<1> HIDE DEF r, t
<1>3. /\ mm \in Module /\ mm.want = r.module.want /\ mm.confirmed = r.module.confirmed
      /\ mm.waiting = r.module.waiting /\ mm.sent = r.module.sent
      /\ mm.writing = r.module.writing /\ mm.fw = r.module.fw
  <2>1. r.module \in Module /\ 0 \in 0..Activations
    BY <1>1, StateFields, UniAssumption
  <2> QED
    BY <2>1 DEF Module
<1> HIDE DEF mm
<1>4. u \in State /\ SameRequesters(r, u) /\ SameOutputs(r, u) /\ u.bus = r.bus /\ u.owed = r.owed
  BY <1>1, <1>3, OtherFields
<1> HIDE DEF u
<1>5. /\ t \in State /\ t.module = u.module /\ t.bus = u.bus /\ t.overtaken = u.overtaken
      /\ \A x \in Sockets, k \in Requested : k # "reboot" => t.owed[x][k] = u.owed[x][k]
  <2>1. "reboot" \in Requested
    BY DEF Requested
  <2> QED
    BY <1>2, <1>4, <2>1, ReplyFacts
<1>6. SameRequesters(s, t)
  BY <1>1, <1>4, <1>5 DEF SameRequesters, Requested
<1>7. OutputsPut(s, t)
  BY <1>1, <1>4, <1>5 DEF OutputsPut, SameOutputs, SameQueues, SameOutputsOwed, Requested
<1> QED
  BY <1>5, <1>6, <1>7 DEF t

\* A callback sends at most one command.
SendsOne(s, t) == t.bus = s.bus \/ \E cmd \in Sendable : t.bus = Send(s.bus, cmd)

\* What the callback of a command does; confirmed is what a SetOutput confirms.
CalledBack(s, t, cmd, confirmed) ==
  /\ t \in State /\ SendsOne(s, t)
  /\ RequestersSound(s) => RequestersSound(t)
  /\ IF cmd.kind = "SetOutput" THEN OutputsAnsweredAs(s, t, confirmed)
     ELSE OutputsKept(s, t) \/ OutputsPut(s, t)

LEMMA KeptSendsOne ==
  ASSUME NEW s, NEW t, OutputsKept(s, t) \/ OutputsPut(s, t)
  PROVE  SendsOne(s, t)
BY DEF OutputsKept, OutputsPut, SendsOther, SendsOne

LEMMA OutputsAnsweredCallsBack ==
  ASSUME NEW s \in State, NEW cmd, cmd.kind = "SetOutput", NEW confirmed \in Outputs, clients \subseteq Sockets
  PROVE  CalledBack(s, OutputsAnswered(s, confirmed), cmd, confirmed)
<1> DEFINE t == OutputsAnswered(s, confirmed)
<1>1. t \in State /\ SameRequesters(s, t) /\ OutputsAnsweredAs(s, t, confirmed)
  BY OutputsAnsweredFacts
<1> HIDE DEF t
<1>2. SetOutput(s.module.want) \in Sendable
  <2>1. s.module.want \in Outputs
    BY StateFields DEF Module
  <2> QED
    BY <2>1, SendableCmds
<1>3. SendsOne(s, t)
  BY <1>1, <1>2 DEF OutputsAnsweredAs, SendsOne
<1> QED
  BY <1>1, <1>3, SameRequestersSound DEF CalledBack, t

LEMMA ConfigCallsBack ==
  ASSUME NEW s \in State, NEW cmd, cmd.kind # "SetOutput", NEW confirmed,
         NEW config \in Configs \cup {NoConfig}, clients \subseteq Sockets
  PROVE  CalledBack(s, ConfigAnswered(s, config), cmd, confirmed)
<1> DEFINE t == ConfigAnswered(s, config)
<1>1. /\ t \in State /\ SameOutputs(s, t) /\ t.bus = s.bus
      /\ RequestersSound(s) => RequestersSound(t)
  BY ConfigAnsweredFacts
<1> HIDE DEF t
<1> QED
  BY <1>1 DEF CalledBack, OutputsKept, SendsOther, SendsOne, t

LEMMA ProceedCallsBack ==
  ASSUME NEW s \in State, NEW cmd, cmd.kind # "SetOutput", NEW confirmed,
         NEW kind \in Kinds \ {"SetOutput"}
  PROVE  CalledBack(s, Proceed(s, kind), cmd, confirmed)
<1> DEFINE t == Proceed(s, kind)
<1>1. t \in State /\ SameRequesters(s, t) /\ OutputsKept(s, t)
  BY ProceedFacts
<1> HIDE DEF t
<1> QED
  BY <1>1, SameRequestersSound, KeptSendsOne DEF CalledBack, t

LEMMA OnOkFacts ==
  ASSUME NEW s \in State, NEW cmd \in Sendable, NEW data, clients \subseteq Sockets,
         cmd.kind = "SetOutput" => data \in Outputs,
         cmd.kind = "GetConfig" => data \in Configs
  PROVE  CalledBack(s, OnOk(s, cmd, data), cmd, data)
<1> DEFINE t == OnOk(s, cmd, data)
<1>1. cmd.kind \in Kinds /\ cmd.then \in {"request", "activation"}
  BY DEF Sendable, Command
<1>2. CASE cmd.kind = "SetOutput"
  <2>1. t = OutputsAnswered(s, data)
    BY <1>2 DEF OnOk, MtbBusOutputsSet
  <2> QED
    BY <1>2, <2>1, OutputsAnsweredCallsBack
<1>3. CASE cmd.kind = "GetConfig"
  <2> DEFINE mm == [s.module EXCEPT !.config = data]
             u == [s EXCEPT !.module = mm]
  <2>1. t = Proceed(u, "GetInputs")
    BY <1>3 DEF OnOk, ConfigSet
  <2>2. /\ mm \in Module /\ mm.want = s.module.want /\ mm.confirmed = s.module.confirmed
        /\ mm.waiting = s.module.waiting /\ mm.sent = s.module.sent
        /\ mm.writing = s.module.writing /\ mm.fw = s.module.fw
    BY <1>3, StateFields DEF Module
  <2> HIDE DEF mm
  <2>3. u \in State /\ SameRequesters(s, u) /\ SameOutputs(s, u) /\ u.bus = s.bus
    BY <2>2, OtherFields
  <2> HIDE DEF u, t
  <2>4. "GetInputs" \in Kinds \ {"SetOutput"}
    BY DEF Kinds
  <2>5. t \in State /\ SameRequesters(u, t) /\ OutputsKept(u, t)
    BY <2>1, <2>3, <2>4, ProceedFacts
  <2>6. SameRequesters(s, t) /\ OutputsKept(s, t)
    BY <2>3, <2>5 DEF SameRequesters, OutputsKept, SameOutputs, SameQueues, SameOutputsOwed, SendsOther
  <2> QED
    BY <1>3, <2>5, <2>6, SameRequestersSound, KeptSendsOne DEF CalledBack, t
<1>4. CASE cmd.kind = "GetInputs"
  <2>1. t = Proceed(s, "ResetOutputs") /\ "ResetOutputs" \in Kinds \ {"SetOutput"}
    BY <1>4 DEF OnOk, InputsRead, Kinds
  <2> QED
    BY <1>4, <2>1, ProceedCallsBack
<1>5. CASE cmd.kind = "ResetOutputs"
  <2>1. t = OutputsReset(s)
    BY <1>5 DEF OnOk
  <2> HIDE DEF t
  <2>2. t \in State /\ SameRequesters(s, t) /\ OutputsPut(s, t)
    BY <2>1, OutputsResetFacts
  <2> QED
    BY <1>5, <2>2, SameRequestersSound, KeptSendsOne DEF CalledBack, t
<1>6. CASE cmd.kind = "SetConfig" /\ cmd.then = "request"
  <2>1. t = ConfigAnswered(s, s.module.toWrite)
    BY <1>6 DEF OnOk, MtbBusConfigWritten
  <2>2. s.module.toWrite \in Configs \cup {NoConfig}
    BY StateFields DEF Module
  <2> QED
    BY <1>6, <2>1, <2>2, ConfigCallsBack
<1>7. CASE cmd.kind = "SetConfig" /\ cmd.then # "request"
  <2>1. t = Proceed(s, "GetInputs") /\ "GetInputs" \in Kinds \ {"SetOutput"}
    BY <1>7 DEF OnOk, ConfigSet, Kinds
  <2> QED
    BY <1>7, <2>1, ProceedCallsBack
<1> QED
  BY <1>1, <1>2, <1>3, <1>4, <1>5, <1>6, <1>7 DEF Kinds

LEMMA OnErrorFacts ==
  ASSUME NEW s \in State, NEW cmd \in Sendable, clients \subseteq Sockets
  PROVE  CalledBack(s, OnError(s, cmd), cmd, s.module.want)
<1> DEFINE t == OnError(s, cmd)
<1>0. cmd.kind = "SetOutput" => cmd.then = "request"
  BY DEF Sendable
<1>1. CASE cmd.then = "activation"
  <2>1. t = ActivationError(s) /\ cmd.kind # "SetOutput"
    BY <1>0, <1>1 DEF OnError
  <2> HIDE DEF t
  <2>2. t \in State /\ SameRequesters(s, t) /\ OutputsKept(s, t)
    BY <2>1, ActivationErrorFacts DEF OutputsKept, SendsOther
  <2> QED
    BY <2>1, <2>2, SameRequestersSound, KeptSendsOne DEF CalledBack, t
<1>2. CASE cmd.then # "activation" /\ cmd.kind = "SetOutput"
  <2>1. t = OutputsAnswered(s, s.module.want) /\ s.module.want \in Outputs
    BY <1>2, StateFields DEF OnError, MtbBusOutputsNotSet, Module
  <2> QED
    BY <1>2, <2>1, OutputsAnsweredCallsBack
<1>3. CASE cmd.then # "activation" /\ cmd.kind # "SetOutput"
  <2>1. t = ConfigAnswered(s, s.module.config)
    BY <1>3 DEF OnError, MtbBusConfigNotWritten
  <2>2. s.module.config \in Configs \cup {NoConfig}
    BY StateFields DEF Module
  <2> QED
    BY <1>3, <2>1, <2>2, ConfigCallsBack
<1> QED
  BY <1>1, <1>2, <1>3

-----------------------------------------------------------------------------
(* What is wanted of the outputs stays under way *)

\* Another command behind the others changes nothing.
LEMMA AppendSteady ==
  ASSUME NEW m, NEW f \in Seq(Sendable), NEW cmd \in Sendable, cmd.kind # "SetOutput"
  PROVE  /\ Ordered(m, f) => Ordered(m, Append(f, cmd))
         /\ Steady(m, f) => Steady(m, Append(f, cmd))
<1>1. /\ Writes(Append(f, cmd)) <=> Writes(f)
      /\ \A v : LastWrites(f, v) => LastWrites(Append(f, cmd), v)
  BY AppendWrites
<1> QED
  BY <1>1 DEF Ordered, Steady

\* Neither does the answer of another command.
LEMMA TailSteady ==
  ASSUME NEW m, NEW f \in Seq(Sendable), f # <<>>, f[1].kind # "SetOutput"
  PROVE  /\ Ordered(m, f) => Ordered(m, Tail(f))
         /\ Steady(m, f) => Steady(m, Tail(f))
<1>1. /\ Writes(Tail(f)) <=> Writes(f)
      /\ \A v : LastWrites(f, v) => IF Writes(Tail(f)) THEN LastWrites(Tail(f), v) ELSE FALSE
  BY TailWrites
<1> QED
  BY <1>1 DEF Ordered, Steady

\* What is sent last is what is wanted.
LEMMA SentSteady ==
  ASSUME NEW m, NEW f \in Seq(Sendable), m.waiting = <<>>, m.want \in Outputs
  PROVE  Ordered(m, Append(f, SetOutput(m.want))) /\ Steady(m, Append(f, SetOutput(m.want)))
<1>1. /\ SetOutput(m.want) \in Sendable /\ SetOutput(m.want).kind = "SetOutput"
      /\ SetOutput(m.want).data = m.want
  BY SendableCmds
<1>2. Writes(Append(f, SetOutput(m.want))) /\ LastWrites(Append(f, SetOutput(m.want)), m.want)
  BY <1>1, AppendWrites
<1> QED
  BY <1>2 DEF Ordered, Steady

\* Outputs put to rest while no SetOutput is under way are confirmed, and
\* nothing waits.
LEMMA PutSteady ==
  ASSUME NEW m, NEW n, NEW f, ~Writes(f),
         n.want = n.confirmed, n.waiting = m.waiting, n.sent = m.sent
  PROVE  Ordered(n, f) /\ (Steady(m, f) => Steady(n, f))
BY DEF Ordered, Steady

\* The last SetOutput is answered and nothing waits: what is wanted is confirmed,
\* if that is what the module reports, whatever it reported before.
LEMMA ConfirmedSteady ==
  ASSUME NEW m, NEW n, NEW f \in Seq(Sendable), f # <<>>, f[1].kind = "SetOutput", Ordered(m, f),
         m.waiting = <<>>, n.waiting = <<>>, n.sent = <<>>, n.want = m.want
  PROVE  /\ Ordered(n, Tail(f))
         /\ n.confirmed \in {f[1].data, m.want} => Steady(n, Tail(f))
<1>1. Writes(f)
  <2>1. 1 \in DOMAIN f
    BY EmptySeq, LenProperties
  <2> QED
    BY <2>1 DEF Writes
<1>2. LastWrites(f, m.want)
  BY <1>1 DEF Ordered
<1>3. IF Writes(Tail(f)) THEN LastWrites(Tail(f), m.want) ELSE f[1].data = m.want
  BY <1>2, TailWrites
<1> QED
  BY <1>3 DEF Ordered, Steady

\* The first command is answered: m is the module before, n the module after,
\* f the flow before and g the flow after.
SetOutputAnswered(m, n, f, g) ==
  /\ f[1].kind = "SetOutput"
  /\ n.want = m.want /\ n.sent = m.waiting /\ n.waiting = <<>>
  /\ g = IF m.waiting = <<>> THEN Tail(f) ELSE Append(Tail(f), SetOutput(m.want))

OtherAnswered(m, n, f, g) ==
  /\ f[1].kind # "SetOutput" /\ n.waiting = m.waiting /\ n.sent = m.sent
  /\ \/ /\ n.want = m.want /\ n.confirmed = m.confirmed
        /\ g = Tail(f) \/ \E cmd \in Sendable : cmd.kind # "SetOutput" /\ g = Append(Tail(f), cmd)
     \/ n.want = n.confirmed /\ ~Writes(Tail(f)) /\ g = Tail(f)

LEMMA SetOutputAnsweredSteady ==
  ASSUME NEW m \in Module, NEW n \in Module, NEW f \in Seq(Sendable), f # <<>>, NEW g,
         Ordered(m, f), SetOutputAnswered(m, n, f, g)
  PROVE  /\ Ordered(n, g)
         /\ n.confirmed \in {f[1].data, m.want} => Steady(n, g)
<1>1. Tail(f) \in Seq(Sendable) /\ m.want \in Outputs
  BY HeadTailProperties DEF Module
<1>2. CASE m.waiting = <<>>
  BY <1>2, ConfirmedSteady DEF SetOutputAnswered
<1>3. CASE m.waiting # <<>>
  BY <1>1, <1>3, SentSteady DEF SetOutputAnswered
<1> QED
  BY <1>2, <1>3

LEMMA OtherAnsweredSteady ==
  ASSUME NEW m \in Module, NEW n \in Module, NEW f \in Seq(Sendable), f # <<>>, NEW g,
         OtherAnswered(m, n, f, g)
  PROVE  /\ Ordered(m, f) => Ordered(n, g)
         /\ Steady(m, f) => Steady(n, g)
<1>1. Tail(f) \in Seq(Sendable)
  BY HeadTailProperties
<1>2. /\ Ordered(m, f) => Ordered(m, Tail(f))
      /\ Steady(m, f) => Steady(m, Tail(f))
  BY TailSteady DEF OtherAnswered
<1>3. CASE g = Tail(f) /\ n.want = m.want /\ n.confirmed = m.confirmed
  BY <1>2, <1>3 DEF OtherAnswered, Ordered, Steady
<1>4. CASE /\ n.want = m.want /\ n.confirmed = m.confirmed
           /\ \E cmd \in Sendable : cmd.kind # "SetOutput" /\ g = Append(Tail(f), cmd)
  <2>1. /\ Ordered(m, f) => Ordered(m, g)
        /\ Steady(m, f) => Steady(m, g)
    BY <1>1, <1>2, <1>4, AppendSteady
  <2> QED
    BY <1>4, <2>1 DEF OtherAnswered, Ordered, Steady
<1>5. CASE n.want = n.confirmed /\ ~Writes(Tail(f)) /\ g = Tail(f)
  BY <1>1, <1>2, <1>5, PutSteady DEF OtherAnswered
<1> QED
  BY <1>3, <1>4, <1>5 DEF OtherAnswered

\* The same for the steps that are no answer.
StaysSteady(s, t) == (OrderedIf(s) => OrderedIf(t)) /\ (SteadyIf(s) => SteadyIf(t))

LEMMA KeptSteady ==
  ASSUME NEW s \in State, NEW t \in State, OutputsKept(s, t)
  PROVE  StaysSteady(s, t)
<1>1. CASE t.bus = s.bus
  BY <1>1 DEF OutputsKept, SameOutputs, SameQueues, StaysSteady, OrderedIf, SteadyIf, Ordered, Steady
<1>2. CASE \E cmd \in Sendable : cmd.kind # "SetOutput" /\ t.bus = Send(s.bus, cmd)
  <2>1. PICK cmd \in Sendable : cmd.kind # "SetOutput" /\ t.bus = Send(s.bus, cmd)
    BY <1>2
  <2>2. /\ s.bus \in Bus /\ Flow(s.bus) \in Seq(Sendable)
    BY StateFields, FlowFacts
  <2>3. /\ Flow(t.bus) = Append(Flow(s.bus), cmd)
        /\ Discarded(t.bus) <=> Discarded(s.bus)
    BY <2>1, <2>2, SentBus
  <2>4. /\ Ordered(s.module, Flow(s.bus)) => Ordered(s.module, Flow(t.bus))
        /\ Steady(s.module, Flow(s.bus)) => Steady(s.module, Flow(t.bus))
    BY <2>1, <2>2, <2>3, AppendSteady
  <2>5. /\ Ordered(s.module, Flow(t.bus)) => Ordered(t.module, Flow(t.bus))
        /\ Steady(s.module, Flow(t.bus)) => Steady(t.module, Flow(t.bus))
    BY DEF OutputsKept, SameOutputs, SameQueues, Ordered, Steady
  <2>6. t.overtaken = s.overtaken
    BY DEF OutputsKept, SameOutputs
  <2> QED
    BY <2>3, <2>4, <2>5, <2>6 DEF StaysSteady, OrderedIf, SteadyIf
<1> QED
  BY <1>1, <1>2 DEF OutputsKept, SendsOther

LEMMA PutsSteady ==
  ASSUME NEW s \in State, NEW t \in State, OutputsPut(s, t)
  PROVE  StaysSteady(s, t)
<1> SUFFICES ASSUME ~t.overtaken, ~Discarded(t.bus)
             PROVE  /\ Ordered(t.module, Flow(t.bus))
                    /\ SteadyIf(s) => Steady(t.module, Flow(t.bus))
  BY DEF StaysSteady, OrderedIf, SteadyIf
<1>1. t.bus = s.bus /\ ~s.overtaken /\ ~SetOutputUnderWay(s.bus) /\ s.bus \in Bus
  BY StateFields DEF OutputsPut
<1>2. ~Writes(Flow(s.bus)) /\ (SteadyIf(s) => Steady(s.module, Flow(s.bus)))
  BY <1>1, UnderWayFlow DEF SteadyIf
<1> QED
  BY <1>1, <1>2, PutSteady DEF OutputsPut, SameQueues

LEMMA SendingSteady ==
  ASSUME NEW s \in State, NEW t \in State, OutputsSent(s, t)
  PROVE  OrderedIf(t) /\ SteadyIf(t)
<1>1. s.bus \in Bus /\ Flow(s.bus) \in Seq(Sendable) /\ t.module.want \in Outputs
  BY StateFields, FlowFacts DEF Module
<1>2. SetOutput(t.module.want) \in Sendable
  BY <1>1, SendableCmds
<1>3. Flow(t.bus) = Append(Flow(s.bus), SetOutput(t.module.want))
  <2>1. t.bus = Send(s.bus, SetOutput(t.module.want))
    BY DEF OutputsSent
  <2> QED
    BY <1>1, <1>2, <2>1, SentBus
<1>4. Ordered(t.module, Flow(t.bus)) /\ Steady(t.module, Flow(t.bus))
  BY <1>1, <1>3, SentSteady DEF OutputsSent
<1> QED
  BY <1>4 DEF OrderedIf, SteadyIf

-----------------------------------------------------------------------------
(* Answers of MTB-USB *)

\* No request leaves the queues without an answer.
NothingForgotten(s, t) ==
  \A c \in clients :
    t.owed[c]["outputs"] - Queued(t, c) = s.owed[c]["outputs"] - Queued(s, c)

LEMMA QueuedType ==
  ASSUME NEW s \in State, NEW c \in Sockets
  PROVE  /\ Copies(s.module.waiting, c) \in Nat /\ Copies(s.module.sent, c) \in Nat
         /\ Queued(s, c) \in Nat /\ s.owed[c]["outputs"] \in Int
<1>1. s.module.waiting \in Queue /\ s.module.sent \in Queue
  BY StateFields DEF Module, Queue
<1>2. Copies(s.module.waiting, c) \in Nat /\ Copies(s.module.sent, c) \in Nat
  BY <1>1, CopiesType
<1>3. s.owed[c]["outputs"] \in Int
  BY StateFields DEF Owed, Requested
<1> QED
  BY <1>2, <1>3 DEF Queued

LEMMA SameQueuesForgetNothing ==
  ASSUME NEW s, NEW t, SameQueues(s, t), clients \subseteq Sockets
  PROVE  NothingForgotten(s, t)
BY DEF SameQueues, SameOutputsOwed, NothingForgotten, Queued

LEMMA CalledBackForgetsNothing ==
  ASSUME NEW s \in State, NEW t, NEW cmd, NEW confirmed, CalledBack(s, t, cmd, confirmed), clients \subseteq Sockets
  PROVE  NothingForgotten(s, t)
<1>1. CASE OutputsAnsweredAs(s, t, confirmed)
  <2> SUFFICES ASSUME NEW c \in clients
               PROVE  t.owed[c]["outputs"] - Queued(t, c) = s.owed[c]["outputs"] - Queued(s, c)
    BY DEF NothingForgotten
  <2>1. t.owed[c]["outputs"] = s.owed[c]["outputs"] - Copies(s.module.sent, c)
    BY <1>1 DEF OutputsAnsweredAs
  <2>2. Queued(t, c) = 0 + Copies(s.module.waiting, c)
    BY <1>1, CopiesOfEmpty DEF OutputsAnsweredAs, Queued
  <2>3. /\ Copies(s.module.waiting, c) \in Nat /\ Copies(s.module.sent, c) \in Nat
        /\ s.owed[c]["outputs"] \in Int
    BY QueuedType
  <2> QED
    BY <2>1, <2>2, <2>3 DEF Queued
<1>2. CASE OutputsKept(s, t) \/ OutputsPut(s, t)
  BY <1>2, SameQueuesForgetNothing DEF OutputsKept, OutputsPut, SameOutputs
<1> QED
  BY <1>1, <1>2 DEF CalledBack

\* What a handler that makes t of s keeps.
Sound(t) == t \in State /\ Len(t.bus.pending) <= MaxPending

HandlerKeeps(s, t) ==
  /\ Sound(t)
  /\ RequestersSound(s) => RequestersSound(t)
  /\ StaysSteady(s, t)
  /\ NothingForgotten(s, t)

\* What the callback of cmd keeps: a SetOutput that confirms what it carried
\* leaves the outputs steady, whatever was confirmed before.
AnswerSteady(s, t, cmd, confirmed) ==
  /\ OrderedIf(s) => OrderedIf(t)
  /\ IF cmd.kind = "SetOutput"
     THEN confirmed \in {cmd.data, s.module.want} /\ OrderedIf(s) => SteadyIf(t)
     ELSE SteadyIf(s) => SteadyIf(t)

AnswerKeeps(s, t, cmd, confirmed) ==
  /\ Sound(t)
  /\ RequestersSound(s) => RequestersSound(t)
  /\ AnswerSteady(s, t, cmd, confirmed)
  /\ NothingForgotten(s, t)

\* f is the flow before the answer to its first command, g the one after it, if
\* the callback made u of s.
AnswerFlow(s, u, f, g) ==
  /\ u.bus = s.bus => g = Tail(f)
  /\ \A cmd \in Sendable : u.bus = Send(s.bus, cmd) => g = Append(Tail(f), cmd)
  /\ SetOutputUnderWay(s.bus) \/ ~Writes(Tail(f))

LEMMA CalledBackSteady ==
  ASSUME NEW s \in State, NEW u \in State, NEW cmd \in Sendable, NEW confirmed,
         CalledBack(s, u, cmd, confirmed),
         NEW f \in Seq(Sendable), f # <<>>, f[1] = cmd, NEW g, AnswerFlow(s, u, f, g), ~u.overtaken
  PROVE  /\ Ordered(s.module, f) => Ordered(u.module, g)
         /\ cmd.kind # "SetOutput" /\ Steady(s.module, f) => Steady(u.module, g)
         /\ cmd.kind = "SetOutput" /\ Ordered(s.module, f) /\ confirmed \in {cmd.data, s.module.want}
              => Steady(u.module, g)
<1>1. s.module \in Module /\ u.module \in Module /\ s.module.want \in Outputs
  BY StateFields DEF Module
<1>2. SetOutput(s.module.want) \in Sendable
  BY <1>1, SendableCmds
<1>3. CASE cmd.kind = "SetOutput"
  <2>1. OutputsAnsweredAs(s, u, confirmed)
    BY <1>3 DEF CalledBack
  <2>2. SetOutputAnswered(s.module, u.module, f, g) /\ u.module.confirmed = confirmed
    BY <1>2, <1>3, <2>1 DEF OutputsAnsweredAs, SetOutputAnswered, AnswerFlow
  <2> QED
    BY <1>1, <1>3, <2>2, SetOutputAnsweredSteady
<1>4. CASE cmd.kind # "SetOutput" /\ OutputsKept(s, u)
  <2>1. OtherAnswered(s.module, u.module, f, g)
    BY <1>4 DEF OutputsKept, SameOutputs, SameQueues, SendsOther, OtherAnswered, AnswerFlow
  <2> QED
    BY <1>1, <1>4, <2>1, OtherAnsweredSteady
<1>5. CASE cmd.kind # "SetOutput" /\ OutputsPut(s, u)
  <2>1. OtherAnswered(s.module, u.module, f, g)
    BY <1>5 DEF OutputsPut, SameQueues, OtherAnswered, AnswerFlow
  <2> QED
    BY <1>1, <1>5, <2>1, OtherAnsweredSteady
<1> QED
  BY <1>3, <1>4, <1>5 DEF CalledBack

LEMMA NowState ==
  ASSUME UniType
  PROVE  /\ Now \in State /\ Now.module = module /\ Now.bus = bus /\ Now.owed = owed
         /\ Now.overtaken = overtaken /\ Len(bus.pending) <= MaxPending /\ clients \subseteq Sockets
BY DEF UniType, Now

\* A response: the callback runs before the command is erased.
LEMMA RespondFacts ==
  ASSUME UniType, SomethingAwaited, NEW data \in Readings
  PROVE  LET paired == PairedWithResponse(bus, AnsweredCmd.kind)
             cmd    == bus.pending[paired].cmd
             called == OnOk(Now, cmd, data)
             t      == [called EXCEPT !.bus = SendNextOut(Erase(@, Answered(bus), paired))]
         IN  AnswerKeeps(Now, t, cmd, data)
<1> DEFINE a == Answered(bus)
           p == PairedWithResponse(bus, AnsweredCmd.kind)
           cmd == bus.pending[p].cmd
           u == OnOk(Now, cmd, data)
           e == Erase(u.bus, a, p)
           d == SendNextOut(e)
           t == [u EXCEPT !.bus = d]
<1>1. /\ Now \in State /\ Now.module = module /\ Now.bus = bus /\ Now.overtaken = overtaken
      /\ bus \in Bus /\ Len(bus.pending) <= MaxPending /\ clients \subseteq Sockets
  BY NowState, StateFields
<1>2. /\ a \in 1..Len(bus.pending) /\ bus.pending[a].awaited
      /\ ~Discarded(bus) => a = 1
  BY <1>1, AnsweredFacts DEF SomethingAwaited
<1>3. /\ p \in 1..Len(bus.pending) /\ Response(cmd.kind) = Response(AnsweredCmd.kind)
      /\ a = 1 => p = 1
  <2>1. AnsweredCmd.kind = bus.pending[a].cmd.kind
    BY DEF AnsweredCmd
  <2> HIDE DEF a
  <2> QED
    BY <1>1, <1>2, <2>1, PairedFacts
<1>4. cmd \in Sendable /\ AnsweredCmd \in Sendable /\ cmd.kind \in Kinds /\ AnsweredCmd.kind \in Kinds
  BY <1>1, <1>2, <1>3, BusFacts DEF AnsweredCmd, Sendable, Command
<1>5. /\ cmd.kind = "SetOutput" => data \in Outputs
      /\ cmd.kind = "GetConfig" => data \in Configs
  <2>1. /\ cmd.kind = "SetOutput" => AnsweredCmd.kind = "SetOutput"
        /\ cmd.kind = "GetConfig" => AnsweredCmd.kind = "GetConfig"
    BY <1>3, <1>4 DEF Response, Kinds
  <2>2. /\ AnsweredCmd.kind = "SetOutput" => data \in Outputs
        /\ AnsweredCmd.kind = "GetConfig" => data \in Configs
    BY DEF Readings
  <2> QED
    BY <2>1, <2>2
<1>6. CalledBack(Now, u, cmd, data)
  <2> HIDE DEF cmd
  <2> QED
    BY <1>1, <1>4, <1>5, OnOkFacts
<1> HIDE DEF u
<1>7. /\ u \in State /\ u.bus \in Bus
      /\ Len(u.bus.pending) \in Nat /\ Len(bus.pending) <= Len(u.bus.pending)
      /\ Len(u.bus.pending) <= MaxPending
      /\ \A i \in 1..Len(bus.pending) : u.bus.pending[i] = bus.pending[i]
      /\ Discarded(u.bus) <=> Discarded(bus)
  <2>1. u \in State /\ (u.bus = bus \/ \E x \in Sendable : u.bus = Send(bus, x))
    BY <1>1, <1>6 DEF CalledBack, SendsOne
  <2>2. CASE u.bus = bus
    BY <1>1, <2>1, <2>2, BusFacts
  <2>3. CASE \E x \in Sendable : u.bus = Send(bus, x)
    BY <1>1, <2>1, <2>3, SentBus
  <2> QED
    BY <2>1, <2>2, <2>3
<1>8. /\ a \in 1..Len(u.bus.pending) /\ p \in 1..Len(u.bus.pending) /\ u.bus.pending[a].awaited
  BY <1>2, <1>3, <1>7
<1> HIDE DEF a, p
<1>9. /\ e \in Bus /\ Len(e.pending) = Len(u.bus.pending) - 1
      /\ Discarded(u.bus) => Discarded(e)
  BY <1>7, <1>8, EraseFacts
<1> HIDE DEF e
<1>10. Len(e.pending) < MaxPending /\ Len(e.pending) <= MaxPending
  BY <1>7, <1>9, MaxPendingAssumption
<1>11. /\ d \in Bus /\ Len(d.pending) <= MaxPending
       /\ Discarded(e) => Discarded(d)
       /\ Flow(d) = Flow(e)
  BY <1>9, <1>10, SendNextFacts
<1> HIDE DEF d
<1>12. /\ t \in State /\ t.bus = d /\ t.module = u.module /\ t.owed = u.owed /\ t.overtaken = u.overtaken
  BY <1>7, <1>11, StateWith
<1> HIDE DEF t
<1>13. ASSUME ~t.overtaken, ~Discarded(t.bus)
       PROVE  /\ ~overtaken /\ ~Discarded(bus)
              /\ Ordered(module, Flow(bus)) => Ordered(t.module, Flow(t.bus))
              /\ cmd.kind # "SetOutput" /\ Steady(module, Flow(bus)) => Steady(t.module, Flow(t.bus))
              /\ cmd.kind = "SetOutput" /\ Ordered(module, Flow(bus)) /\ data \in {cmd.data, module.want}
                   => Steady(t.module, Flow(t.bus))
  <2>1. ~Discarded(u.bus) /\ ~Discarded(bus) /\ a = 1 /\ p = 1
    BY <1>2, <1>3, <1>7, <1>9, <1>11, <1>12, <1>13 DEF a, p
  <2>2. ~overtaken
    BY <1>1, <1>6, <1>12, <1>13
       DEF CalledBack, OutputsAnsweredAs, OutputsKept, OutputsPut, SameOutputs
  <2>4. /\ bus.pending # <<>> /\ bus.pending[1].awaited
        /\ u.bus.pending # <<>> /\ u.bus.pending[1].awaited
    BY <1>2, <1>7, <1>8, <2>1, EmptySeq DEF a
  <2>5. /\ Flow(bus) \in Seq(Sendable) /\ Flow(bus) # <<>> /\ Flow(bus)[1] = cmd
    BY <1>1, <2>1, <2>4, FlowFacts, EraseFirst
  <2>6. Flow(t.bus) = Tail(Flow(u.bus))
    BY <1>7, <1>11, <1>12, <2>1, <2>4, EraseFirst DEF e
  <2>7. \A x \in Sendable : u.bus = Send(bus, x) => Flow(t.bus) = Append(Tail(Flow(bus)), x)
    <3> SUFFICES ASSUME NEW x \in Sendable, u.bus = Send(bus, x)
                 PROVE  Flow(t.bus) = Append(Tail(Flow(bus)), x)
      OBVIOUS
    <3>1. Flow(u.bus) = Append(Flow(bus), x)
      BY <1>1, SentBus
    <3>2. Tail(Append(Flow(bus), x)) = Append(Tail(Flow(bus)), x)
      BY <2>5, HeadTailAppend
    <3> QED
      BY <2>6, <3>1, <3>2
  <2>8. u.bus = bus => Flow(t.bus) = Tail(Flow(bus))
    BY <2>6
  <2>9. SetOutputUnderWay(bus) \/ ~Writes(Tail(Flow(bus)))
    BY <1>1, <2>5, UnderWayFlow, TailWrites
  <2> HIDE DEF cmd
  <2>10. AnswerFlow(Now, u, Flow(bus), Flow(t.bus))
    BY <1>1, <2>7, <2>8, <2>9 DEF AnswerFlow
  <2>11. ~u.overtaken
    BY <1>12, <1>13
  <2>12. /\ Ordered(module, Flow(bus)) => Ordered(u.module, Flow(t.bus))
         /\ cmd.kind # "SetOutput" /\ Steady(module, Flow(bus)) => Steady(u.module, Flow(t.bus))
         /\ cmd.kind = "SetOutput" /\ Ordered(module, Flow(bus)) /\ data \in {cmd.data, module.want}
              => Steady(u.module, Flow(t.bus))
    BY <1>1, <1>4, <1>6, <1>7, <2>5, <2>10, <2>11, CalledBackSteady
  <2> QED
    BY <1>12, <2>1, <2>2, <2>12
<1>14. RequestersSound(Now) => RequestersSound(t)
  BY <1>6, <1>12 DEF CalledBack, RequestersSound
<1>15. NothingForgotten(Now, t)
  <2>1. NothingForgotten(Now, u)
    BY <1>1, <1>6, CalledBackForgetsNothing
  <2> QED
    BY <1>12, <2>1 DEF NothingForgotten, Queued
<1>16. Sound(t)
  BY <1>11, <1>12 DEF Sound
<1>17. AnswerSteady(Now, t, cmd, data)
  <2> HIDE DEF cmd
  <2> QED
    BY <1>1, <1>13 DEF AnswerSteady, OrderedIf, SteadyIf
<1> QED
  BY <1>14, <1>15, <1>16, <1>17 DEF AnswerKeeps, t, d, e, u, a, p

\* An error: the command is erased before its callback runs.
LEMMA FailFacts ==
  ASSUME UniType, SomethingAwaited, NEW p \in 1..Len(bus.pending), Answered(bus) = 1 => p = 1
  PROVE  LET erased == [Now EXCEPT !.bus = Erase(@, Answered(bus), p)]
             called == OnError(erased, bus.pending[p].cmd)
         IN  AnswerKeeps(Now, [called EXCEPT !.bus = SendNextOut(@)], bus.pending[p].cmd, module.want)
<1> DEFINE a == Answered(bus)
           cmd == bus.pending[p].cmd
           e == Erase(bus, a, p)
           v == [Now EXCEPT !.bus = e]
           u == OnError(v, cmd)
           d == SendNextOut(u.bus)
           t == [u EXCEPT !.bus = d]
<1>1. /\ Now \in State /\ Now.module = module /\ Now.bus = bus /\ Now.overtaken = overtaken
      /\ bus \in Bus /\ Len(bus.pending) <= MaxPending /\ clients \subseteq Sockets
  BY NowState, StateFields
<1>2. /\ a \in 1..Len(bus.pending) /\ bus.pending[a].awaited
      /\ ~Discarded(bus) => a = 1
  BY <1>1, AnsweredFacts DEF SomethingAwaited
<1>3. /\ e \in Bus /\ Len(e.pending) = Len(bus.pending) - 1
      /\ Discarded(bus) => Discarded(e)
  <2> HIDE DEF a
  <2> QED
    BY <1>1, <1>2, EraseFacts
<1>4. cmd \in Sendable
  BY <1>1, BusFacts
<1>5. ~Discarded(bus) => a = 1 /\ p = 1
  BY <1>2
<1>6. [Now EXCEPT !.bus = Erase(@, Answered(bus), p)] = v
  BY DEF Now
<1> HIDE DEF e
<1>7. /\ v \in State /\ v.bus = e /\ v.module = module /\ v.owed = Now.owed /\ v.overtaken = overtaken
  BY <1>1, <1>3, StateWith
<1> HIDE DEF v
<1>8. CalledBack(v, u, cmd, v.module.want)
  <2> HIDE DEF cmd
  <2> QED
    BY <1>1, <1>4, <1>7, OnErrorFacts
<1> HIDE DEF u
<1>9. /\ Len(e.pending) \in Nat /\ Len(e.pending) < MaxPending /\ Len(e.pending) <= MaxPending
  BY <1>1, <1>3, BusFacts, MaxPendingAssumption
<1>10. /\ u \in State /\ u.bus \in Bus /\ Len(u.bus.pending) <= MaxPending
       /\ Discarded(u.bus) <=> Discarded(e)
       /\ Len(u.bus.pending) < MaxPending \/ u.bus.out = <<>>
  <2>1. u \in State /\ (u.bus = e \/ \E x \in Sendable : u.bus = Send(e, x))
    BY <1>7, <1>8 DEF CalledBack, SendsOne
  <2>2. CASE u.bus = e
    BY <1>3, <1>9, <2>1, <2>2
  <2>3. CASE \E x \in Sendable : u.bus = Send(e, x)
    BY <1>3, <1>9, <2>1, <2>3, SentBus
  <2> QED
    BY <2>1, <2>2, <2>3
<1>11. /\ d \in Bus /\ Len(d.pending) <= MaxPending
       /\ Discarded(u.bus) => Discarded(d)
       /\ Flow(d) = Flow(u.bus)
  BY <1>10, SendNextFacts
<1> HIDE DEF d
<1>12. /\ t \in State /\ t.bus = d /\ t.module = u.module /\ t.owed = u.owed /\ t.overtaken = u.overtaken
  BY <1>10, <1>11, StateWith
<1> HIDE DEF t
<1>13. ASSUME ~t.overtaken, ~Discarded(t.bus)
       PROVE  /\ ~overtaken /\ ~Discarded(bus)
              /\ Ordered(module, Flow(bus)) => Ordered(t.module, Flow(t.bus))
              /\ cmd.kind # "SetOutput" /\ Steady(module, Flow(bus)) => Steady(t.module, Flow(t.bus))
              /\ cmd.kind = "SetOutput" /\ Ordered(module, Flow(bus)) /\ module.want \in {cmd.data, module.want}
                   => Steady(t.module, Flow(t.bus))
  <2>1. ~Discarded(bus) /\ a = 1 /\ p = 1
    BY <1>3, <1>5, <1>10, <1>11, <1>12, <1>13
  <2>2. ~overtaken
    BY <1>7, <1>8, <1>12, <1>13
       DEF CalledBack, OutputsAnsweredAs, OutputsKept, OutputsPut, SameOutputs
  <2>4. bus.pending # <<>> /\ bus.pending[1].awaited
    BY <1>2, <2>1, EmptySeq
  <2>5. /\ Flow(bus) \in Seq(Sendable) /\ Flow(bus) # <<>> /\ Flow(bus)[1] = cmd
        /\ Flow(e) = Tail(Flow(bus))
    BY <1>1, <2>1, <2>4, FlowFacts, EraseFirst DEF e
  <2>6. AnswerFlow(v, u, Flow(bus), Flow(t.bus))
    <3>1. Flow(t.bus) = Flow(u.bus)
      BY <1>11, <1>12
    <3>2. u.bus = e => Flow(t.bus) = Tail(Flow(bus))
      BY <2>5, <3>1
    <3>3. \A x \in Sendable : u.bus = Send(e, x) => Flow(t.bus) = Append(Tail(Flow(bus)), x)
      <4> SUFFICES ASSUME NEW x \in Sendable, u.bus = Send(e, x)
                   PROVE  Flow(t.bus) = Append(Tail(Flow(bus)), x)
        OBVIOUS
      <4>1. Flow(u.bus) = Append(Flow(e), x)
        BY <1>3, SentBus
      <4> QED
        BY <2>5, <3>1, <4>1
    <3>4. SetOutputUnderWay(e) \/ ~Writes(Tail(Flow(bus)))
      BY <1>3, <2>5, UnderWayFlow
    <3> QED
      BY <1>7, <3>2, <3>3, <3>4 DEF AnswerFlow
  <2> HIDE DEF cmd
  <2>7. ~u.overtaken
    BY <1>12, <1>13
  <2>8. /\ Ordered(module, Flow(bus)) => Ordered(u.module, Flow(t.bus))
        /\ cmd.kind # "SetOutput" /\ Steady(module, Flow(bus)) => Steady(u.module, Flow(t.bus))
        /\ cmd.kind = "SetOutput" /\ Ordered(module, Flow(bus)) /\ module.want \in {cmd.data, module.want}
             => Steady(u.module, Flow(t.bus))
    BY <1>4, <1>7, <1>8, <1>10, <2>5, <2>6, <2>7, CalledBackSteady
  <2> QED
    BY <1>12, <2>1, <2>2, <2>8
<1>14. RequestersSound(Now) => RequestersSound(t)
  <2>1. RequestersSound(Now) => RequestersSound(v)
    BY <1>1, <1>7 DEF RequestersSound
  <2> QED
    BY <1>8, <1>12, <2>1 DEF CalledBack, RequestersSound
<1>15. NothingForgotten(Now, t)
  <2>1. NothingForgotten(v, u)
    BY <1>1, <1>7, <1>8, CalledBackForgetsNothing
  <2> QED
    BY <1>1, <1>7, <1>12, <2>1 DEF NothingForgotten, Queued
<1>16. Sound(t)
  BY <1>11, <1>12 DEF Sound
<1>17. AnswerSteady(Now, t, cmd, module.want)
  <2> HIDE DEF cmd
  <2> QED
    BY <1>1, <1>13 DEF AnswerSteady, OrderedIf, SteadyIf
<1> QED
  BY <1>6, <1>14, <1>15, <1>16, <1>17 DEF AnswerKeeps, t, d, u

-----------------------------------------------------------------------------
(* Handlers of messages, of the timer and of requests *)

\* A handler that leaves the requests alone.
LEMMA CalmKeeps ==
  ASSUME NEW s \in State, NEW t \in State, Len(s.bus.pending) <= MaxPending, clients \subseteq Sockets,
         SameRequesters(s, t), OutputsKept(s, t) \/ OutputsPut(s, t)
  PROVE  HandlerKeeps(s, t)
<1>1. Sound(t)
  <2>1. s.bus \in Bus
    BY StateFields
  <2>2. t.bus = s.bus \/ \E cmd \in Sendable : t.bus = Send(s.bus, cmd)
    BY KeptSendsOne DEF SendsOne
  <2>3. CASE \E cmd \in Sendable : t.bus = Send(s.bus, cmd)
    BY <2>1, <2>3, SentBus DEF Sound
  <2> QED
    BY <2>2, <2>3 DEF Sound
<1>2. RequestersSound(s) => RequestersSound(t)
  BY SameRequestersSound
<1>3. StaysSteady(s, t)
  BY KeptSteady, PutsSteady
<1>4. NothingForgotten(s, t)
  BY SameQueuesForgetNothing DEF OutputsKept, OutputsPut, SameOutputs
<1> QED
  BY <1>1, <1>2, <1>3, <1>4 DEF HandlerKeeps

\* One handler after the other.
LEMMA KeepsAfterOther ==
  ASSUME NEW s \in State, NEW u \in State, NEW t, clients \subseteq Sockets,
         SameRequesters(s, u), SameOutputs(s, u), u.bus = s.bus, HandlerKeeps(u, t)
  PROVE  HandlerKeeps(s, t)
<1>1. RequestersSound(s) => RequestersSound(u)
  BY SameRequestersSound
<1>2. StaysSteady(s, u)
  BY DEF SameOutputs, SameQueues, StaysSteady, OrderedIf, SteadyIf, Ordered, Steady
<1>3. NothingForgotten(u, t) => NothingForgotten(s, t)
  BY DEF SameOutputs, SameQueues, SameOutputsOwed, NothingForgotten, Queued
<1> QED
  BY <1>1, <1>2, <1>3 DEF HandlerKeeps, StaysSteady

LEMMA LoadConfigKeeps ==
  ASSUME UniType, NEW config \in Configs
  PROVE  HandlerKeeps(Now, [Now EXCEPT !.module.active = TRUE, !.module.config = config])
<1> DEFINE mm == [Now.module EXCEPT !.active = TRUE, !.config = config]
           t == [Now EXCEPT !.module = mm]
<1>1. /\ Now \in State /\ Now.module \in Module
      /\ Len(Now.bus.pending) <= MaxPending /\ clients \subseteq Sockets
  BY NowState, StateFields
<1>2. /\ mm \in Module /\ mm.want = Now.module.want /\ mm.confirmed = Now.module.confirmed
      /\ mm.waiting = Now.module.waiting /\ mm.sent = Now.module.sent
      /\ mm.writing = Now.module.writing /\ mm.fw = Now.module.fw
  <2> HIDE DEF Now
  <2> QED
    BY <1>1 DEF Module
<1>3. [Now EXCEPT !.module.active = TRUE, !.module.config = config] = t
  BY DEF Now
<1> HIDE DEF mm
<1>4. t \in State /\ SameRequesters(Now, t) /\ SameOutputs(Now, t) /\ t.bus = Now.bus
  BY <1>1, <1>2, OtherFields
<1> HIDE DEF t
<1> QED
  BY <1>1, <1>3, <1>4, CalmKeeps DEF OutputsKept, SendsOther

LEMMA ActivateKeeps ==
  ASSUME NEW s \in State, Len(s.bus.pending) <= MaxPending, clients \subseteq Sockets
  PROVE  HandlerKeeps(s, Activate(s)) /\ HandlerKeeps(s, OutputsReset(s))
<1> DEFINE t == Activate(s)
           u == OutputsReset(s)
<1>1. t \in State /\ SameRequesters(s, t) /\ OutputsKept(s, t)
  BY ActivateFacts
<1>2. u \in State /\ SameRequesters(s, u) /\ OutputsPut(s, u)
  BY OutputsResetFacts
<1> HIDE DEF t, u
<1>3. HandlerKeeps(s, t) /\ HandlerKeeps(s, u)
  BY <1>1, <1>2, CalmKeeps
<1> QED
  BY <1>3 DEF t, u

LEMMA MtbBusActivateKeeps ==
  ASSUME UniType, NEW boot \in BOOLEAN
  PROVE  LET informed == [Now EXCEPT !.module.remaining = Activations, !.module.boot = boot]
         IN  HandlerKeeps(Now, IF boot THEN OutputsReset(informed) ELSE Activate(informed))
<1> DEFINE mm == [Now.module EXCEPT !.remaining = Activations, !.boot = boot]
           u == [Now EXCEPT !.module = mm]
<1>1. /\ Now \in State /\ Now.module \in Module /\ Activations \in 0..Activations
      /\ Len(Now.bus.pending) <= MaxPending /\ clients \subseteq Sockets
  BY NowState, StateFields, UniAssumption
<1>2. /\ mm \in Module /\ mm.want = Now.module.want /\ mm.confirmed = Now.module.confirmed
      /\ mm.waiting = Now.module.waiting /\ mm.sent = Now.module.sent
      /\ mm.writing = Now.module.writing /\ mm.fw = Now.module.fw
  <2> HIDE DEF Now
  <2> QED
    BY <1>1 DEF Module
<1>3. [Now EXCEPT !.module.remaining = Activations, !.module.boot = boot] = u
  BY DEF Now
<1> HIDE DEF mm
<1>4. u \in State /\ SameRequesters(Now, u) /\ SameOutputs(Now, u) /\ u.bus = Now.bus
  BY <1>1, <1>2, OtherFields
<1> HIDE DEF u
<1>5. HandlerKeeps(u, OutputsReset(u)) /\ HandlerKeeps(u, Activate(u))
  BY <1>1, <1>4, ActivateKeeps
<1>6. HandlerKeeps(Now, OutputsReset(u)) /\ HandlerKeeps(Now, Activate(u))
  BY <1>1, <1>4, <1>5, KeepsAfterOther
<1> QED
  BY <1>3, <1>6

LEMMA LostKeeps ==
  ASSUME UniType
  PROVE  HandlerKeeps(Now, Lost(Now))
<1> DEFINE t == Lost(Now)
<1>1. /\ Now \in State /\ Len(Now.bus.pending) <= MaxPending /\ clients \subseteq Sockets
  BY NowState
<1>2. t \in State /\ SameRequesters(Now, t) /\ SameOutputs(Now, t) /\ t.bus = Now.bus
  BY <1>1, LostFacts
<1> HIDE DEF t
<1> QED
  BY <1>1, <1>2, CalmKeeps DEF OutputsKept, SendsOther, t

LEMMA DisconnectedKeeps ==
  ASSUME UniType
  PROVE  HandlerKeeps(Now, Reset([Now EXCEPT !.module.active = FALSE]))
<1> DEFINE mm == [Now.module EXCEPT !.active = FALSE]
           u == [Now EXCEPT !.module = mm]
           t == Reset(u)
<1>1. /\ Now \in State /\ Now.module \in Module
      /\ Len(Now.bus.pending) <= MaxPending /\ clients \subseteq Sockets
  BY NowState, StateFields
<1>2. /\ mm \in Module /\ mm.want = Now.module.want /\ mm.confirmed = Now.module.confirmed
      /\ mm.waiting = Now.module.waiting /\ mm.sent = Now.module.sent
      /\ mm.writing = Now.module.writing /\ mm.fw = Now.module.fw
  <2> HIDE DEF Now
  <2> QED
    BY <1>1 DEF Module
<1>3. Reset([Now EXCEPT !.module.active = FALSE]) = t
  BY DEF Now
<1> HIDE DEF mm
<1>4. u \in State /\ SameRequesters(Now, u) /\ SameOutputs(Now, u) /\ u.bus = Now.bus
  BY <1>1, <1>2, OtherFields
<1> HIDE DEF u
<1>5. t \in State /\ SameRequesters(u, t) /\ OutputsPut(u, t)
  BY <1>4, ResetFacts
<1> HIDE DEF t
<1>6. HandlerKeeps(u, t)
  BY <1>1, <1>4, <1>5, CalmKeeps
<1> QED
  BY <1>1, <1>3, <1>4, <1>6, KeepsAfterOther

LEMMA ClientResetOutputsKeeps ==
  ASSUME NEW s \in State, Len(s.bus.pending) <= MaxPending, clients \subseteq Sockets,
         NEW c \in Sockets, NEW elsewhere
  PROVE  HandlerKeeps(s, ClientResetOutputs(s, c, elsewhere))
<1> DEFINE t == ClientResetOutputs(s, c, elsewhere)
<1>1. \/ t = s
      \/ /\ t \in State /\ SameRequesters(s, t) /\ t.owed = s.owed
         /\ ClientReset(s, t) \/ OutputsPut(s, t)
  BY ClientResetOutputsFacts
<1> HIDE DEF t
<1> SUFFICES HandlerKeeps(s, t)
  BY DEF t
<1>2. CASE t = s
  BY <1>2 DEF HandlerKeeps, Sound, StaysSteady, NothingForgotten
<1>3. CASE t \in State /\ SameRequesters(s, t) /\ OutputsPut(s, t)
  BY <1>3, CalmKeeps
<1>4. CASE t \in State /\ SameRequesters(s, t) /\ t.owed = s.owed /\ ClientReset(s, t)
  <2>1. s.bus \in Bus /\ t.module.want \in Outputs
    BY <1>4, StateFields DEF Module
  <2>2. SetOutput(t.module.want) \in Sendable
    BY <2>1, SendableCmds
  <2>3. RequestersSound(s) => RequestersSound(t)
    BY <1>4, SameRequestersSound
  <2>4. NothingForgotten(s, t)
    BY <1>4 DEF ClientReset, NothingForgotten
  <2>5. CASE OutputsSent(s, t)
    <3>1. Len(t.bus.pending) <= MaxPending
      BY <2>1, <2>2, <2>5, SentBus DEF OutputsSent
    <3>2. StaysSteady(s, t)
      BY <1>4, <2>5, SendingSteady DEF StaysSteady
    <3> QED
      BY <1>4, <2>3, <2>4, <3>1, <3>2 DEF HandlerKeeps, Sound
  <2>6. CASE /\ t.bus = s.bus
             /\ t.module.waiting # <<>> /\ t.module.sent = s.module.sent /\ s.module.sent # <<>>
    <3>1. StaysSteady(s, t)
      BY <1>4, <2>6 DEF ClientReset, StaysSteady, OrderedIf, SteadyIf, Ordered, Steady
    <3> QED
      BY <1>4, <2>3, <2>4, <2>6, <3>1 DEF HandlerKeeps, Sound
  <2> QED
    BY <1>4, <2>5, <2>6 DEF ClientReset
<1> QED
  BY <1>1, <1>2, <1>3, <1>4

LEMMA FullKeeps ==
  ASSUME UniType, SomethingAwaited
  PROVE  HandlerKeeps(Now, [Now EXCEPT !.bus = FullBuffer(bus)])
<1> DEFINE b == FullBuffer(bus)
           t == [Now EXCEPT !.bus = b]
<1>1. Now \in State /\ Now.bus = bus /\ bus \in Bus /\ Len(bus.pending) <= MaxPending /\ clients \subseteq Sockets
  BY NowState, StateFields
<1>2. b \in Bus /\ Len(b.pending) = Len(bus.pending) /\ Discarded(b)
  BY <1>1, FullBufferFacts DEF SomethingAwaited
<1> HIDE DEF b
<1>3. /\ t \in State /\ t.bus = b /\ t.module = Now.module /\ t.owed = Now.owed
      /\ t.overtaken = Now.overtaken
  BY <1>1, <1>2, StateWith
<1> HIDE DEF t
<1> SUFFICES HandlerKeeps(Now, t)
  BY DEF t, b
<1>4. Sound(t)
  BY <1>1, <1>2, <1>3 DEF Sound
<1>5. RequestersSound(Now) => RequestersSound(t)
  BY <1>3 DEF RequestersSound
<1>6. StaysSteady(Now, t)
  BY <1>2, <1>3 DEF StaysSteady, OrderedIf, SteadyIf
<1>7. NothingForgotten(Now, t)
  BY <1>3 DEF NothingForgotten, Queued
<1> QED
  BY <1>4, <1>5, <1>6, <1>7 DEF HandlerKeeps

\* A handler that changes who waits for what, but leaves the outputs alone.
LEMMA RequestsKeep ==
  ASSUME NEW s \in State, NEW t \in State, Len(s.bus.pending) <= MaxPending, clients \subseteq Sockets,
         RequestersSound(s) => RequestersSound(t), OutputsKept(s, t)
  PROVE  HandlerKeeps(s, t)
<1>1. Sound(t)
  <2>1. s.bus \in Bus
    BY StateFields
  <2> QED
    BY <2>1, SentBus DEF Sound, OutputsKept, SendsOther
<1>2. StaysSteady(s, t)
  BY KeptSteady
<1>3. NothingForgotten(s, t)
  BY SameQueuesForgetNothing DEF OutputsKept, SameOutputs
<1> QED
  BY <1>1, <1>2, <1>3 DEF HandlerKeeps, StaysSteady

LEMMA KeepsAfterAsking ==
  ASSUME NEW s \in State, NEW u \in State, NEW t, clients \subseteq Sockets,
         RequestersSound(s) => RequestersSound(u), SameOutputs(s, u), u.bus = s.bus, HandlerKeeps(u, t)
  PROVE  HandlerKeeps(s, t)
<1>1. StaysSteady(s, u)
  BY DEF SameOutputs, SameQueues, StaysSteady, OrderedIf, SteadyIf, Ordered, Steady
<1>2. NothingForgotten(u, t) => NothingForgotten(s, t)
  BY DEF SameOutputs, SameQueues, SameOutputsOwed, NothingForgotten, Queued
<1> QED
  BY <1>1, <1>2 DEF HandlerKeeps, StaysSteady

\* A request that is asked, and other fields of the module that change with it.
LEMMA AskedFacts ==
  ASSUME NEW s \in State, NEW c \in Sockets, NEW kind \in Requested, NEW m \in Module
  PROVE  LET t == [Ask(s, c, kind) EXCEPT !.module = m]
         IN  /\ t \in State /\ t.module = m /\ t.bus = s.bus /\ t.overtaken = s.overtaken
             /\ \A x \in Sockets, k \in Requested :
                  t.owed[x][k] = IF x = c /\ k = kind THEN s.owed[x][k] + 1 ELSE s.owed[x][k]
<1> DEFINE u == Ask(s, c, kind)
           t == [u EXCEPT !.module = m]
<1>1. /\ u \in State /\ u.bus = s.bus /\ u.overtaken = s.overtaken
      /\ \A x \in Sockets, k \in Requested :
           u.owed[x][k] = IF x = c /\ k = kind THEN s.owed[x][k] + 1 ELSE s.owed[x][k]
  BY AskFacts
<1> HIDE DEF u
<1>2. t \in State /\ t.module = m /\ t.bus = u.bus /\ t.overtaken = u.overtaken /\ t.owed = u.owed
  BY <1>1, StateWith
<1> HIDE DEF t
<1> QED
  BY <1>1, <1>2 DEF t, u

LEMMA RebootKeeps ==
  ASSUME UniType, NEW c \in Sockets
  PROVE  HandlerKeeps(Now, Lost([Ask(Now, c, "reboot") EXCEPT !.module.reboot = c]))
<1> DEFINE mm == [Now.module EXCEPT !.reboot = c]
           u == [Ask(Now, c, "reboot") EXCEPT !.module = mm]
           t == Lost(u)
<1>1. /\ Now \in State /\ Now.module \in Module /\ "reboot" \in Requested
      /\ Len(Now.bus.pending) <= MaxPending /\ clients \subseteq Sockets
  BY NowState, StateFields DEF Requested
<1>2. /\ mm \in Module /\ mm.want = Now.module.want /\ mm.confirmed = Now.module.confirmed
      /\ mm.waiting = Now.module.waiting /\ mm.sent = Now.module.sent
      /\ mm.writing = Now.module.writing /\ mm.fw = Now.module.fw
  <2> HIDE DEF Now
  <2> QED
    BY <1>1 DEF Module
<1>3. Lost([Ask(Now, c, "reboot") EXCEPT !.module.reboot = c]) = t
  BY DEF Ask, Now
<1> HIDE DEF mm
<1>4. /\ u \in State /\ u.module = mm /\ u.bus = Now.bus /\ u.overtaken = Now.overtaken
      /\ \A x \in Sockets, k \in Requested :
           u.owed[x][k] = IF x = c /\ k = "reboot" THEN Now.owed[x][k] + 1 ELSE Now.owed[x][k]
  BY <1>1, <1>2, AskedFacts
<1> HIDE DEF u
<1>5. SameRequesters(Now, u) /\ SameOutputs(Now, u)
  BY <1>2, <1>4 DEF SameRequesters, SameOutputs, SameQueues, SameOutputsOwed, Requested
<1>6. t \in State /\ SameRequesters(u, t) /\ SameOutputs(u, t) /\ t.bus = u.bus
  BY <1>4, LostFacts
<1> HIDE DEF t
<1>7. HandlerKeeps(u, t)
  BY <1>1, <1>4, <1>6, CalmKeeps DEF OutputsKept, SendsOther
<1> QED
  BY <1>1, <1>3, <1>4, <1>5, <1>7, KeepsAfterOther

LEMMA UpgradeKeeps ==
  ASSUME UniType, NEW c \in clients, ~Upgrading(module), NEW parses
  PROVE  LET upgrading == [Now EXCEPT !.module.fw = c]
             asked     == Ask(upgrading, c, "upgrade")
         IN  HandlerKeeps(Now, IF ~parses THEN upgrading
                               ELSE IF ~Writing(module) /\ module.sent = <<>> THEN FwUpgdInit(asked)
                               ELSE asked)
<1> DEFINE mm == [Now.module EXCEPT !.fw = c]
           nn == [mm EXCEPT !.begun = TRUE]
           u == [Now EXCEPT !.module = mm]
           v == Ask(u, c, "upgrade")
           t == [v EXCEPT !.module = nn]
<1>1. /\ Now \in State /\ Now.module = module /\ Now.module \in Module /\ "upgrade" \in Requested
      /\ Len(Now.bus.pending) <= MaxPending /\ clients \subseteq Sockets /\ c \in Sockets
  BY NowState, StateFields DEF Requested
<1>2. /\ mm \in Module /\ mm.want = Now.module.want /\ mm.confirmed = Now.module.confirmed
      /\ mm.waiting = Now.module.waiting /\ mm.sent = Now.module.sent
      /\ mm.writing = Now.module.writing /\ mm.fw = c
  <2> HIDE DEF Now
  <2> QED
    BY <1>1 DEF Module
<1>3. /\ nn \in Module /\ nn.want = mm.want /\ nn.confirmed = mm.confirmed
      /\ nn.waiting = mm.waiting /\ nn.sent = mm.sent /\ nn.writing = mm.writing /\ nn.fw = mm.fw
  <2> HIDE DEF mm
  <2> QED
    BY <1>2 DEF Module
<1>4. /\ u \in State /\ u.module = mm /\ u.bus = Now.bus /\ u.owed = Now.owed
      /\ u.overtaken = Now.overtaken
  <2> HIDE DEF Now, mm
  <2> QED
    BY <1>1, <1>2, StateWith
<1>5. [Now EXCEPT !.module.fw = c] = u
  BY DEF Now
<1>6. FwUpgdInit(v) = [v EXCEPT !.module.begun = TRUE]
  BY DEF FwUpgdInit
<1> HIDE DEF u
<1>7. /\ v \in State /\ v.module = mm /\ v.bus = Now.bus /\ v.overtaken = Now.overtaken
      /\ \A x \in Sockets, k \in Requested :
           v.owed[x][k] = IF x = c /\ k = "upgrade" THEN Now.owed[x][k] + 1 ELSE Now.owed[x][k]
  <2>1. u \in State /\ c \in Sockets /\ "upgrade" \in Requested
    BY <1>1, <1>4
  <2>2. /\ v \in State /\ v.module = u.module /\ v.bus = u.bus /\ v.overtaken = u.overtaken
        /\ \A x \in Sockets, k \in Requested :
             v.owed[x][k] = IF x = c /\ k = "upgrade" THEN u.owed[x][k] + 1 ELSE u.owed[x][k]
    BY <2>1, AskFacts
  <2> HIDE DEF v, mm, Now
  <2> QED
    BY <1>4, <2>2
<1>8. [v EXCEPT !.module.begun = TRUE] = t
  BY <1>7
<1> HIDE DEF v, mm, nn, Now
<1>9. SameOutputs(Now, u) /\ SameOutputs(Now, v)
  BY <1>2, <1>4, <1>7 DEF SameOutputs, SameQueues, SameOutputsOwed, Requested
<1>10. module.fw = NoRequest /\ NoRequest \notin Sockets
  BY UniAssumption DEF Upgrading
<1>11. RequestersSound(Now) => RequestersSound(u)
  BY <1>1, <1>2, <1>4, <1>10 DEF RequestersSound
<1>12. RequestersSound(Now) => RequestersSound(v)
  <2> SUFFICES ASSUME RequestersSound(Now)
               PROVE  RequestersSound(v)
    OBVIOUS
  <2>1. ASSUME NEW x \in Sockets
        PROVE  /\ v.owed[x]["config"] = IF v.module.writing = x THEN 1 ELSE 0
               /\ v.owed[x]["upgrade"] \in 0..(IF v.module.fw = x THEN 1 ELSE 0)
    <3>1. Now.owed[x]["upgrade"] = 0 /\ Now.owed[x]["config"] = IF mm.writing = x THEN 1 ELSE 0
      BY <1>1, <1>2, <1>10 DEF RequestersSound
    <3>2. /\ v.owed[x]["config"] = Now.owed[x]["config"]
          /\ v.owed[x]["upgrade"] = IF x = c THEN 1 ELSE 0
      BY <1>7, <3>1 DEF Requested
    <3> QED
      BY <1>2, <1>7, <3>1, <3>2
  <2> QED
    BY <1>1, <1>2, <1>7, <2>1 DEF RequestersSound
<1>13. t \in State /\ SameRequesters(v, t) /\ SameOutputs(v, t) /\ t.bus = v.bus
  BY <1>3, <1>7, OtherFields DEF t
<1> HIDE DEF t
<1>14. HandlerKeeps(Now, u) /\ HandlerKeeps(Now, v)
  BY <1>1, <1>4, <1>7, <1>9, <1>11, <1>12, RequestsKeep DEF OutputsKept, SendsOther
<1>15. HandlerKeeps(v, t)
  BY <1>1, <1>7, <1>13, CalmKeeps DEF OutputsKept, SendsOther
<1>16. HandlerKeeps(Now, t)
  BY <1>1, <1>7, <1>9, <1>12, <1>15, KeepsAfterAsking
<1> QED
  BY <1>5, <1>6, <1>8, <1>14, <1>16 DEF v

LEMMA SetConfigKeeps ==
  ASSUME UniType, NEW c \in clients, NEW config \in Configs, ~Writing(module)
  PROVE  LET asked == [Ask(Now, c, "config") EXCEPT !.module.toWrite = config, !.module.writing = c]
         IN  /\ HandlerKeeps(Now, SendCmd(asked, "SetConfig", "request", NoData))
             /\ HandlerKeeps(Now, MtbBusConfigWritten(asked))
<1> DEFINE mm == [Now.module EXCEPT !.toWrite = config, !.writing = c]
           u == [Ask(Now, c, "config") EXCEPT !.module = mm]
           t == SendCmd(u, "SetConfig", "request", NoData)
           v == ConfigAnswered(u, config)
<1>1. /\ Now \in State /\ Now.module = module /\ Now.module \in Module /\ "config" \in Requested
      /\ Len(Now.bus.pending) <= MaxPending /\ clients \subseteq Sockets /\ c \in Sockets
  BY NowState, StateFields DEF Requested
<1>2. /\ mm \in Module /\ mm.want = Now.module.want /\ mm.confirmed = Now.module.confirmed
      /\ mm.waiting = Now.module.waiting /\ mm.sent = Now.module.sent
      /\ mm.writing = c /\ mm.fw = Now.module.fw /\ mm.toWrite = config
  <2> HIDE DEF Now
  <2> QED
    BY <1>1 DEF Module
<1>3. [Ask(Now, c, "config") EXCEPT !.module.toWrite = config, !.module.writing = c] = u
  BY DEF Ask, Now
<1> HIDE DEF mm
<1>4. /\ u \in State /\ u.module = mm /\ u.bus = Now.bus /\ u.overtaken = Now.overtaken
      /\ \A x \in Sockets, k \in Requested :
           u.owed[x][k] = IF x = c /\ k = "config" THEN Now.owed[x][k] + 1 ELSE Now.owed[x][k]
  BY <1>1, <1>2, AskedFacts
<1> HIDE DEF u, Now
<1>5. SameOutputs(Now, u)
  BY <1>2, <1>4 DEF SameOutputs, SameQueues, SameOutputsOwed, Requested
<1>6. module.writing = NoRequest /\ NoRequest \notin Sockets
  BY UniAssumption DEF Writing
<1>7. RequestersSound(Now) => RequestersSound(u)
  <2> SUFFICES ASSUME RequestersSound(Now)
               PROVE  RequestersSound(u)
    OBVIOUS
  <2>1. ASSUME NEW x \in Sockets
        PROVE  /\ u.owed[x]["config"] = IF u.module.writing = x THEN 1 ELSE 0
               /\ u.owed[x]["upgrade"] \in 0..(IF u.module.fw = x THEN 1 ELSE 0)
    <3>1. Now.owed[x]["config"] = 0 /\ Now.owed[x]["upgrade"] \in 0..(IF mm.fw = x THEN 1 ELSE 0)
      BY <1>1, <1>2, <1>6 DEF RequestersSound
    <3>2. /\ u.owed[x]["upgrade"] = Now.owed[x]["upgrade"]
          /\ u.owed[x]["config"] = IF x = c THEN 1 ELSE 0
      BY <1>4, <3>1 DEF Requested
    <3> QED
      BY <1>2, <1>4, <3>1, <3>2
  <2>2. mm.fw \in clients \cup {NoSocket, NoRequest}
    BY <1>1, <1>2 DEF RequestersSound
  <2> QED
    BY <1>1, <1>2, <1>4, <2>1, <2>2 DEF RequestersSound
<1>8. /\ [kind |-> "SetConfig", then |-> "request", data |-> NoData] \in Sendable
      /\ [kind |-> "SetConfig", then |-> "request", data |-> NoData].kind # "SetOutput"
  BY SendableCmds DEF Kinds
<1>9. /\ t \in State /\ t.module = u.module /\ t.owed = u.owed /\ t.overtaken = u.overtaken
      /\ t.bus = Send(u.bus, [kind |-> "SetConfig", then |-> "request", data |-> NoData])
  BY <1>4, <1>8, SendCmdFacts
<1> HIDE DEF t
<1>10. SameRequesters(u, t) /\ OutputsKept(u, t)
  BY <1>8, <1>9 DEF SameRequesters, OutputsKept, SendsOther, SameOutputs, SameQueues, SameOutputsOwed
<1>11. HandlerKeeps(u, t)
  BY <1>1, <1>4, <1>9, <1>10, CalmKeeps
<1>12. v \in State /\ SameOutputs(u, v) /\ v.bus = u.bus /\ (RequestersSound(u) => RequestersSound(v))
  BY <1>1, <1>4, ConfigAnsweredFacts
<1>13. MtbBusConfigWritten(u) = v
  BY <1>2, <1>4 DEF MtbBusConfigWritten
<1> HIDE DEF v
<1>14. HandlerKeeps(u, v)
  BY <1>1, <1>4, <1>12, RequestsKeep DEF OutputsKept, SendsOther
<1>15. HandlerKeeps(Now, t) /\ HandlerKeeps(Now, v)
  BY <1>1, <1>4, <1>5, <1>7, <1>11, <1>14, KeepsAfterAsking
<1> QED
  BY <1>3, <1>13, <1>15 DEF t

\* The outputs a module_set_outputs asks for, the rest as it was.
LEMMA QueuedFacts ==
  ASSUME UniType, NEW c \in Sockets, NEW req \in [Ports -> Values \cup {Keep}]
  PROVE  LET ports  == Changed(module, req)
             queued == [Ask(Now, c, "outputs") EXCEPT
                          !.module.want = [p \in Ports |-> IF p \in ports THEN req[p] ELSE @[p]],
                          !.module.who  = [p \in Ports |-> IF p \in ports THEN c ELSE @[p]],
                          !.module.waiting = Append(@, c)]
         IN  /\ queued \in State /\ queued.bus = bus /\ queued.overtaken = overtaken
             /\ SameRequesters(Now, queued)
             /\ queued.module.waiting = Append(module.waiting, c) /\ queued.module.sent = module.sent
             /\ \A x \in Sockets : queued.owed[x]["outputs"] =
                                     IF x = c THEN owed[x]["outputs"] + 1 ELSE owed[x]["outputs"]
<1> DEFINE ports == Changed(module, req)
           w == [p \in Ports |-> IF p \in ports THEN req[p] ELSE module.want[p]]
           o == [p \in Ports |-> IF p \in ports THEN c ELSE module.who[p]]
           mm == [Now.module EXCEPT !.want = w, !.who = o, !.waiting = Append(@, c)]
           u == [Ask(Now, c, "outputs") EXCEPT !.module = mm]
<1>1. /\ Now \in State /\ Now.module = module /\ Now.module \in Module /\ "outputs" \in Requested
      /\ Now.bus = bus /\ Now.owed = owed /\ Now.overtaken = overtaken
  BY NowState, StateFields DEF Requested
<1>2. w \in Outputs
  <2>1. \A p \in ports : req[p] \in Values
    BY DEF Changed
  <2>2. module.want \in [Ports -> Values]
    BY <1>1 DEF Module, Outputs
  <2> HIDE DEF ports
  <2> QED
    BY <2>1, <2>2 DEF Outputs
<1>3. o \in [Ports -> Sockets \cup {NoSocket}]
  <2>1. module.who \in [Ports -> Sockets \cup {NoSocket}]
    BY <1>1 DEF Module
  <2> HIDE DEF ports
  <2> QED
    BY <2>1
<1>4. [Ask(Now, c, "outputs") EXCEPT
         !.module.want = [p \in Ports |-> IF p \in ports THEN req[p] ELSE @[p]],
         !.module.who  = [p \in Ports |-> IF p \in ports THEN c ELSE @[p]],
         !.module.waiting = Append(@, c)] = u
  <2> HIDE DEF ports
  <2> QED
    BY DEF Ask, Now
<1> HIDE DEF w, o
<1>5. /\ mm \in Module /\ mm.waiting = Append(module.waiting, c) /\ mm.sent = module.sent
      /\ mm.writing = Now.module.writing /\ mm.fw = Now.module.fw
  <2>1. Append(Now.module.waiting, c) \in Seq(Sockets \cup {NoSocket})
    BY <1>1 DEF Module
  <2> HIDE DEF Now
  <2> QED
    BY <1>1, <1>2, <1>3, <2>1 DEF Module
<1> HIDE DEF mm
<1>6. /\ u \in State /\ u.module = mm /\ u.bus = Now.bus /\ u.overtaken = Now.overtaken
      /\ \A x \in Sockets, k \in Requested :
           u.owed[x][k] = IF x = c /\ k = "outputs" THEN Now.owed[x][k] + 1 ELSE Now.owed[x][k]
  BY <1>1, <1>5, AskedFacts
<1> HIDE DEF u, Now
<1>7. SameRequesters(Now, u)
  BY <1>5, <1>6 DEF SameRequesters, Requested
<1>8. \A x \in Sockets : u.owed[x]["outputs"] = IF x = c THEN owed[x]["outputs"] + 1 ELSE owed[x]["outputs"]
  BY <1>1, <1>6
<1> QED
  BY <1>1, <1>4, <1>5, <1>6, <1>7, <1>8

\* The requests of a SetOutput under way are overwritten by another one that
\* finds what is wanted confirmed.
Overwritten(s, t) ==
  /\ s.module.sent # <<>> /\ s.module.want = s.module.confirmed /\ t.module.waiting = <<>>
  /\ \E c \in clients : t.owed[c]["outputs"] = s.owed[c]["outputs"] + 1

\* What a step that makes t of s keeps.
StepKeeps(s, t) ==
  /\ Sound(t)
  /\ RequestersSound(s) => RequestersSound(t)
  /\ NothingForgotten(s, t) \/ Overwritten(s, t)

LEMMA SetOutputKeeps ==
  ASSUME UniType, NEW c \in clients, NEW req \in [Ports -> Values \cup {Keep}]
  PROVE  LET ports  == Changed(module, req)
             queued == [Ask(Now, c, "outputs") EXCEPT
                          !.module.want = [p \in Ports |-> IF p \in ports THEN req[p] ELSE @[p]],
                          !.module.who  = [p \in Ports |-> IF p \in ports THEN c ELSE @[p]],
                          !.module.waiting = Append(@, c)]
             t == IF module.want = module.confirmed THEN SetOutputs(queued) ELSE queued
         IN  StepKeeps(Now, t) /\ StaysSteady(Now, t)
<1> DEFINE ports == Changed(module, req)
           u == [Ask(Now, c, "outputs") EXCEPT
                   !.module.want = [p \in Ports |-> IF p \in ports THEN req[p] ELSE @[p]],
                   !.module.who  = [p \in Ports |-> IF p \in ports THEN c ELSE @[p]],
                   !.module.waiting = Append(@, c)]
           t == SetOutputs(u)
<1>1. /\ Now \in State /\ Now.module = module /\ Now.bus = bus /\ Now.owed = owed
      /\ Now.overtaken = overtaken /\ Len(bus.pending) <= MaxPending
      /\ clients \subseteq Sockets /\ c \in Sockets
  BY NowState
<1>2. /\ u \in State /\ u.bus = bus /\ u.overtaken = overtaken /\ SameRequesters(Now, u)
      /\ u.module.waiting = Append(module.waiting, c) /\ u.module.sent = module.sent
      /\ \A x \in Sockets : u.owed[x]["outputs"] =
                              IF x = c THEN owed[x]["outputs"] + 1 ELSE owed[x]["outputs"]
  BY <1>1, QueuedFacts
<1> HIDE DEF u, Now
<1>3. /\ module.waiting \in Queue /\ module.sent \in Queue
      /\ u.module.waiting \in Queue /\ u.module.waiting # <<>>
      /\ \A x \in Sockets : Copies(u.module.waiting, x) = Copies(module.waiting, x) + (IF c = x THEN 1 ELSE 0)
  <2>1. module.waiting \in Queue /\ module.sent \in Queue /\ c \in Sockets \cup {NoSocket}
    BY <1>1, StateFields DEF Module, Queue
  <2>2. Append(module.waiting, c) \in Queue /\ Append(module.waiting, c) # <<>>
    BY <2>1, CopiesAppend
  <2>3. ASSUME NEW x \in Sockets
        PROVE  Copies(Append(module.waiting, c), x) = Copies(module.waiting, x) + (IF c = x THEN 1 ELSE 0)
    BY <2>1, CopiesAppend
  <2>4. u.module.waiting = Append(module.waiting, c)
    BY <1>2
  <2> QED
    BY <2>1, <2>2, <2>3, <2>4
<1>4. \A x \in Sockets : /\ Copies(module.waiting, x) \in Nat /\ Copies(module.sent, x) \in Nat
                         /\ owed[x]["outputs"] \in Int
  BY <1>1, QueuedType
<1>5. NothingForgotten(Now, u)
  <2>1. ASSUME NEW x \in clients
        PROVE  u.owed[x]["outputs"] - Queued(u, x) = Now.owed[x]["outputs"] - Queued(Now, x)
    <3>1. /\ u.owed[x]["outputs"] = owed[x]["outputs"] + (IF c = x THEN 1 ELSE 0)
          /\ Queued(u, x) = (Copies(module.waiting, x) + (IF c = x THEN 1 ELSE 0)) + Copies(module.sent, x)
          /\ Queued(Now, x) = Copies(module.waiting, x) + Copies(module.sent, x)
      BY <1>1, <1>2, <1>3, <1>4 DEF Queued
    <3> QED
      BY <1>1, <1>4, <3>1
  <2> QED
    BY <2>1 DEF NothingForgotten
<1>6. CASE module.want # module.confirmed
  <2>1. RequestersSound(Now) => RequestersSound(u)
    BY <1>2, SameRequestersSound
  <2>2. StaysSteady(Now, u)
    BY <1>1, <1>2, <1>3, <1>6 DEF StaysSteady, OrderedIf, SteadyIf, Ordered, Steady
  <2>3. Sound(u)
    BY <1>1, <1>2 DEF Sound
  <2>4. StepKeeps(Now, u)
    BY <1>5, <2>1, <2>3 DEF StepKeeps
  <2> QED
    BY <1>6, <2>2, <2>4 DEF u
<1>7. CASE module.want = module.confirmed
  <2>1. /\ t \in State /\ SameRequesters(u, t) /\ OutputsSent(u, t) /\ t.owed = u.owed
        /\ t.module.sent = u.module.waiting
    BY <1>2, SetOutputsFacts
  <2> HIDE DEF t
  <2>2. RequestersSound(Now) => RequestersSound(t)
    BY <1>2, <2>1, SameRequestersSound
  <2>3. StaysSteady(Now, t)
    BY <1>2, <2>1, SendingSteady DEF StaysSteady
  <2>4. Sound(t)
    <3>1. u.bus \in Bus /\ t.module.want \in Outputs
      BY <1>2, <2>1, StateFields DEF Module
    <3>2. SetOutput(t.module.want) \in Sendable
      BY <3>1, SendableCmds
    <3> QED
      BY <1>1, <1>2, <2>1, <3>1, <3>2, SentBus DEF Sound, OutputsSent
  <2>5. CASE module.sent = <<>>
    <3>1. ASSUME NEW x \in clients
          PROVE  Queued(t, x) = Queued(u, x)
      <4>1. Copies(module.sent, x) = 0 /\ Copies(t.module.waiting, x) = 0
        BY <2>1, <2>5, CopiesOfEmpty DEF OutputsSent
      <4>2. Copies(u.module.waiting, x) \in Nat
        BY <1>3, CopiesType
      <4> QED
        BY <1>2, <2>1, <4>1, <4>2 DEF Queued
    <3>2. NothingForgotten(Now, t)
      BY <1>5, <2>1, <3>1 DEF NothingForgotten
    <3>3. StepKeeps(Now, t)
      BY <2>2, <2>4, <3>2 DEF StepKeeps
    <3> QED
      BY <1>7, <2>3, <3>3 DEF t, u
  <2>6. CASE module.sent # <<>>
    <3>1. t.owed[c]["outputs"] = owed[c]["outputs"] + 1
      BY <1>1, <1>2, <2>1
    <3>2. Overwritten(Now, t)
      BY <1>1, <1>7, <2>1, <2>6, <3>1 DEF Overwritten, OutputsSent
    <3>3. StepKeeps(Now, t)
      BY <2>2, <2>4, <3>2 DEF StepKeeps
    <3> QED
      BY <1>7, <2>3, <3>3 DEF t, u
  <2> QED
    BY <2>5, <2>6
<1> QED
  BY <1>6, <1>7

-----------------------------------------------------------------------------
(* Steps *)

\* What every step keeps.
StepSound ==
  /\ UniType'
  /\ RequestersKnown => RequestersKnown'
  /\ SteadyUndisturbed => SteadyUndisturbed'
  /\ ForgettingStep

BecomesAs(s) == module' = s.module /\ bus' = s.bus /\ owed' = s.owed /\ overtaken' = s.overtaken

\* What nothing will answer is what is owed and not queued.
LEMMA ForgottenFacts ==
  ASSUME UniType, NEW c \in clients
  PROVE  /\ Forgotten(c) = Now.owed[c]["outputs"] - Queued(Now, c)
         /\ Forgotten(c) \in Int
<1>1. Now \in State /\ Now.module = module /\ Now.owed = owed /\ c \in Sockets
  BY NowState
<1>2. module.waiting \in Queue /\ module.sent \in Queue
  BY <1>1, StateFields DEF Module, Queue
<1>3. Copies(module.waiting \o module.sent, c) = Copies(module.waiting, c) + Copies(module.sent, c)
  BY <1>2, CopiesConcat
<1>4. Queued(Now, c) \in Nat /\ owed[c]["outputs"] \in Int
  BY <1>1, QueuedType
<1>5. Queued(Now, c) = Copies(module.waiting, c) + Copies(module.sent, c)
  BY <1>1 DEF Queued
<1> HIDE DEF Now
<1> QED
  BY <1>1, <1>3, <1>4, <1>5 DEF Forgotten

LEMMA ForgottenNext ==
  ASSUME UniType', NEW c \in clients'
  PROVE  Forgotten(c)' = owed'[c]["outputs"] - (Copies(module'.waiting, c) + Copies(module'.sent, c))
<1>1. c \in Sockets /\ Now' \in State /\ Now'.module = module'
  BY DEF UniType, Now
<1>2. module'.waiting \in Queue /\ module'.sent \in Queue
  BY <1>1, StateFields DEF Module, Queue
<1>3. Copies(module'.waiting \o module'.sent, c) = Copies(module'.waiting, c) + Copies(module'.sent, c)
  BY <1>2, CopiesConcat
<1> QED
  BY <1>3 DEF Forgotten

LEMMA BecomesState ==
  ASSUME NEW s \in State, BecomesAs(s)
  PROVE  Now' = s
<1>1. s = [module |-> s.module, bus |-> s.bus, owed |-> s.owed, overtaken |-> s.overtaken]
  BY DEF State
<1> QED
  BY <1>1 DEF BecomesAs, Now

\* A handler's step: the clients stay.
LEMMA KeptStep ==
  ASSUME UniType, NEW s, StepKeeps(Now, s), BecomesAs(s), clients' = clients,
         SteadyUndisturbed => OrderedIf(s) /\ (~misreported' => SteadyIf(s)),
         misreported' \in BOOLEAN, stimuli' \in 0..MaxStimuli
  PROVE  StepSound
<1>1. s \in State /\ Len(s.bus.pending) <= MaxPending
  BY DEF StepKeeps, Sound
<1>2. Now' = s
  BY <1>1, BecomesState
<1>3. UniType'
  BY <1>1, <1>2 DEF UniType, BecomesAs
<1>4. RequestersKnown => RequestersKnown'
  BY <1>2 DEF RequestersKnown, RequestersSound, StepKeeps
<1>5. SteadyUndisturbed => SteadyUndisturbed'
  BY <1>2 DEF SteadyUndisturbed, OrderedIf, SteadyIf
<1>6. CASE Overwritten(Now, s)
  <2>1. /\ module.sent # <<>> /\ module.want = module.confirmed /\ module'.waiting = <<>>
        /\ \E c \in clients : owed'[c]["outputs"] = owed[c]["outputs"] + 1
    BY <1>6, NowState DEF Overwritten, BecomesAs
  <2> QED
    BY <1>3, <1>4, <1>5, <2>1 DEF StepSound, ForgettingStep
<1>7. CASE NothingForgotten(Now, s)
  <2>1. ASSUME NEW c \in clients \cap clients'
        PROVE  ~(Forgotten(c)' > Forgotten(c))
    <3>1. Forgotten(c)' = owed'[c]["outputs"] - (Copies(module'.waiting, c) + Copies(module'.sent, c))
      BY <1>3, ForgottenNext
    <3>2. Forgotten(c)' = s.owed[c]["outputs"] - Queued(s, c)
      BY <3>1 DEF BecomesAs, Queued
    <3>3. Forgotten(c) = Now.owed[c]["outputs"] - Queued(Now, c) /\ Forgotten(c) \in Int
      BY ForgottenFacts
    <3>4. Forgotten(c)' = Forgotten(c)
      BY <1>7, <3>2, <3>3 DEF NothingForgotten
    <3> QED
      BY <3>3, <3>4
  <2> QED
    BY <1>3, <1>4, <1>5, <2>1 DEF StepSound, ForgettingStep
<1> QED
  BY <1>6, <1>7 DEF StepKeeps

LEMMA HandlerStep ==
  ASSUME UniType, NEW s, HandlerKeeps(Now, s), BecomesAs(s), clients' = clients,
         misreported' = misreported, stimuli' \in 0..MaxStimuli
  PROVE  StepSound
<1>1. StepKeeps(Now, s)
  BY DEF HandlerKeeps, StepKeeps
<1>2. SteadyUndisturbed => OrderedIf(s) /\ (~misreported' => SteadyIf(s))
  BY DEF HandlerKeeps, StaysSteady, SteadyUndisturbed
<1> QED
  BY <1>1, <1>2, KeptStep DEF UniType

\* An answer says anew whether the module reported what it was to set.
LEMMA AnswerStep ==
  ASSUME UniType, NEW s, NEW cmd, NEW confirmed, AnswerKeeps(Now, s, cmd, confirmed), BecomesAs(s),
         clients' = clients, misreported' \in BOOLEAN, stimuli' \in 0..MaxStimuli,
         ~misreported' => IF cmd.kind = "SetOutput" THEN confirmed \in {cmd.data, module.want} ELSE ~misreported
  PROVE  StepSound
<1>1. StepKeeps(Now, s)
  BY DEF AnswerKeeps, StepKeeps
<1>2. Now.module = module
  BY DEF Now
<1>3. SteadyUndisturbed => OrderedIf(s) /\ (~misreported' => SteadyIf(s))
  <2> HIDE DEF Now
  <2> QED
    BY <1>2 DEF AnswerKeeps, AnswerSteady, SteadyUndisturbed
<1> QED
  BY <1>1, <1>3, KeptStep

LEMMA ConnectStep ==
  ASSUME UniType, NEW c \in Sockets, Connect(c), misreported' = misreported, stimuli' \in 0..MaxStimuli
  PROVE  StepSound
<1>1. /\ BecomesAs(Now) /\ clients' = clients \cup {c} /\ Now \in State
  BY NowState DEF Connect, Become, BecomesAs
<1>2. Now' = Now
  BY <1>1, BecomesState
<1>3. UniType'
  BY <1>1, <1>2, NowState DEF UniType, BecomesAs
<1>4. RequestersKnown => RequestersKnown'
  BY <1>1, <1>2 DEF RequestersKnown, RequestersSound
<1>5. SteadyUndisturbed => SteadyUndisturbed'
  BY <1>2 DEF SteadyUndisturbed, OrderedIf, SteadyIf
<1>6. ASSUME NEW x \in clients \cap clients'
      PROVE  ~(Forgotten(x)' > Forgotten(x))
  <2>1. module' = module /\ owed' = owed
    BY <1>1, NowState DEF BecomesAs
  <2>2. Forgotten(x)' = Forgotten(x)
    BY <2>1 DEF Forgotten
  <2>3. Forgotten(x) \in Int
    BY ForgottenFacts
  <2> QED
    BY <2>2, <2>3
<1> QED
  BY <1>3, <1>4, <1>5, <1>6 DEF StepSound, ForgettingStep

\* A client that disconnects is forgotten as a requester.
LEMMA LeftFacts ==
  ASSUME UniType, NEW c \in clients
  PROVE  LET left == [ClientDisconnected(Now, c) EXCEPT !.owed[c] = [kind \in Requested |-> 0]]
         IN  /\ left \in State /\ left.bus = bus /\ left.overtaken = overtaken
             /\ left.module.want = module.want /\ left.module.confirmed = module.confirmed
             /\ left.module.waiting = module.waiting /\ left.module.sent = module.sent
             /\ left.module.writing = IF module.writing = c THEN NoSocket ELSE module.writing
             /\ left.module.fw = IF module.fw = c THEN NoSocket ELSE module.fw
             /\ \A x \in Sockets \ {c} : left.owed[x] = owed[x]
             /\ \A k \in Requested : left.owed[c][k] = 0
<1> DEFINE zero == [kind \in Requested |-> 0]
           Forgot(who) == IF who = c THEN NoSocket ELSE who
           w == Forgot(module.writing)
           f == Forgot(module.fw)
           mm == [module EXCEPT !.writing = w]
           nn == [mm EXCEPT !.fw = f]
           o == [owed EXCEPT ![c] = zero]
           u == [Now EXCEPT !.module = mm]
           v == [u EXCEPT !.module = nn]
           left == [v EXCEPT !.owed = o]
<1>1. /\ Now \in State /\ Now.module = module /\ Now.bus = bus /\ Now.owed = owed
      /\ Now.overtaken = overtaken /\ module \in Module /\ owed \in Owed /\ c \in Sockets
  BY NowState, StateFields
<1>2. /\ mm \in Module /\ mm.want = module.want /\ mm.confirmed = module.confirmed
      /\ mm.waiting = module.waiting /\ mm.sent = module.sent /\ mm.fw = module.fw
      /\ mm.writing = w
  <2>1. w \in Sockets \cup {NoSocket, NoRequest}
    BY <1>1 DEF Module
  <2> HIDE DEF w
  <2> QED
    BY <1>1, <2>1 DEF Module
<1>3. /\ nn \in Module /\ nn.want = mm.want /\ nn.confirmed = mm.confirmed
      /\ nn.waiting = mm.waiting /\ nn.sent = mm.sent /\ nn.writing = mm.writing
      /\ nn.fw = f
  <2>1. f \in Sockets \cup {NoSocket, NoRequest}
    BY <1>1 DEF Module
  <2> HIDE DEF mm, f
  <2> QED
    BY <1>2, <2>1 DEF Module
<1>4. zero \in [Requested -> Int] /\ \A k \in Requested : zero[k] = 0
  OBVIOUS
<1> HIDE DEF zero
<1>5. o \in Owed /\ (\A x \in Sockets \ {c} : o[x] = owed[x]) /\ o[c] = zero
  BY <1>1, <1>4 DEF Owed
<1>6. /\ u \in State /\ u.module = mm /\ u.bus = bus /\ u.owed = owed /\ u.overtaken = overtaken
  <2> HIDE DEF Now, mm
  <2> QED
    BY <1>1, <1>2, StateWith
<1>7. ClientDisconnected(Now, c) = [u EXCEPT !.module.fw = Forgot(@)]
  BY DEF ClientDisconnected, Now
<1> HIDE DEF Now, u
<1>8. [u EXCEPT !.module.fw = Forgot(@)] = v
  BY <1>2, <1>6
<1> HIDE DEF mm, nn
<1>9. /\ v \in State /\ v.module = nn /\ v.bus = bus /\ v.owed = owed /\ v.overtaken = overtaken
  BY <1>3, <1>6, StateWith
<1> HIDE DEF v
<1>10. [v EXCEPT !.owed[c] = zero] = left
  BY <1>9
<1> HIDE DEF o
<1>11. left \in State /\ left.module = nn /\ left.bus = bus /\ left.owed = o /\ left.overtaken = overtaken
  BY <1>5, <1>9 DEF State
<1> HIDE DEF left
<1>12. left = [ClientDisconnected(Now, c) EXCEPT !.owed[c] = [kind \in Requested |-> 0]]
  BY <1>7, <1>8, <1>10 DEF zero
<1> QED
  BY <1>2, <1>3, <1>4, <1>5, <1>11, <1>12

LEMMA DisconnectStep ==
  ASSUME UniType, NEW c \in clients, NEW elsewhere, Disconnect(c, elsewhere),
         misreported' = misreported, stimuli' \in 0..MaxStimuli
  PROVE  StepSound
<1> DEFINE left == [ClientDisconnected(Now, c) EXCEPT !.owed[c] = [kind \in Requested |-> 0]]
           t == ClientResetOutputs(left, c, elsewhere)
<1>1. BecomesAs(t) /\ clients' = clients \ {c}
  BY DEF Disconnect, Become, BecomesAs
<1>2. /\ left \in State /\ left.bus = bus /\ left.overtaken = overtaken
      /\ left.module.want = module.want /\ left.module.confirmed = module.confirmed
      /\ left.module.waiting = module.waiting /\ left.module.sent = module.sent
      /\ left.module.writing = IF module.writing = c THEN NoSocket ELSE module.writing
      /\ left.module.fw = IF module.fw = c THEN NoSocket ELSE module.fw
      /\ \A x \in Sockets \ {c} : left.owed[x] = owed[x]
      /\ \A k \in Requested : left.owed[c][k] = 0
  BY LeftFacts
<1>3. /\ Now.module = module /\ Now.bus = bus /\ Now.owed = owed /\ Now.overtaken = overtaken
      /\ Len(bus.pending) <= MaxPending /\ clients \subseteq Sockets /\ c \in Sockets
  BY NowState
<1> HIDE DEF left
<1>4. HandlerKeeps(left, t)
  BY <1>2, <1>3, ClientResetOutputsKeeps
<1>5. SameRequesters(left, t)
  <2>1. t = left \/ SameRequesters(left, t)
    BY <1>2, <1>3, ClientResetOutputsFacts
  <2> HIDE DEF t
  <2> QED
    BY <2>1 DEF SameRequesters
<1> HIDE DEF t
<1>6. t \in State /\ Len(t.bus.pending) <= MaxPending
  BY <1>4 DEF HandlerKeeps, Sound
<1>7. Now' = t
  BY <1>1, <1>6, BecomesState
<1>8. UniType'
  BY <1>1, <1>3, <1>6, <1>7 DEF UniType, BecomesAs
<1>9. ASSUME RequestersKnown
      PROVE  RequestersKnown'
  <2>1. /\ module.writing \in clients \cup {NoSocket, NoRequest}
        /\ module.fw \in clients \cup {NoSocket, NoRequest}
        /\ \A x \in Sockets :
             /\ owed[x]["config"] = IF module.writing = x THEN 1 ELSE 0
             /\ owed[x]["upgrade"] \in 0..(IF module.fw = x THEN 1 ELSE 0)
    BY <1>3, <1>9 DEF RequestersKnown, RequestersSound
  <2>2. NoSocket \notin Sockets
    BY UniAssumption
  <2>3. /\ left.module.writing \in clients' \cup {NoSocket, NoRequest}
        /\ left.module.fw \in clients' \cup {NoSocket, NoRequest}
    BY <1>1, <1>2, <2>1
  <2>4. ASSUME NEW x \in Sockets
        PROVE  /\ left.owed[x]["config"] = IF left.module.writing = x THEN 1 ELSE 0
               /\ left.owed[x]["upgrade"] \in 0..(IF left.module.fw = x THEN 1 ELSE 0)
    <3>1. CASE x = c
      <4>1. left.owed[x]["config"] = 0 /\ left.owed[x]["upgrade"] = 0
        BY <1>2, <3>1 DEF Requested
      <4>2. left.module.writing # x /\ left.module.fw # x
        BY <1>2, <2>2, <3>1
      <4> QED
        BY <4>1, <4>2
    <3>2. CASE x # c
      <4>1. left.owed[x] = owed[x]
        BY <1>2, <3>2
      <4>2. (left.module.writing = x <=> module.writing = x) /\ (left.module.fw = x <=> module.fw = x)
        BY <1>2, <2>2, <3>2
      <4> QED
        BY <2>1, <4>1, <4>2
    <3> QED
      BY <3>1, <3>2
  <2>5. /\ t.module.writing = left.module.writing /\ t.module.fw = left.module.fw
        /\ \A x \in Sockets : /\ t.owed[x]["config"] = left.owed[x]["config"]
                              /\ t.owed[x]["upgrade"] = left.owed[x]["upgrade"]
    BY <1>5 DEF SameRequesters
  <2> QED
    BY <1>7, <2>3, <2>4, <2>5 DEF RequestersKnown, RequestersSound
<1>10. SteadyUndisturbed => SteadyUndisturbed'
  <2>1. StaysSteady(Now, left)
    BY <1>2, <1>3 DEF StaysSteady, OrderedIf, SteadyIf, Ordered, Steady
  <2>2. StaysSteady(left, t)
    BY <1>4 DEF HandlerKeeps
  <2>3. SteadyUndisturbed => OrderedIf(t) /\ (~misreported' => SteadyIf(t))
    BY <2>1, <2>2 DEF StaysSteady, SteadyUndisturbed
  <2> QED
    BY <1>7, <2>3 DEF SteadyUndisturbed, OrderedIf, SteadyIf
<1>11. ASSUME NEW x \in clients \cap clients'
       PROVE  ~(Forgotten(x)' > Forgotten(x))
  <2>1. Forgotten(x)' = owed'[x]["outputs"] - (Copies(module'.waiting, x) + Copies(module'.sent, x))
    BY <1>8, ForgottenNext
  <2>2. Forgotten(x)' = t.owed[x]["outputs"] - Queued(t, x)
    BY <1>1, <2>1 DEF BecomesAs, Queued
  <2>3. Forgotten(x) = Now.owed[x]["outputs"] - Queued(Now, x) /\ Forgotten(x) \in Int
    BY ForgottenFacts
  <2>4. t.owed[x]["outputs"] - Queued(t, x) = left.owed[x]["outputs"] - Queued(left, x)
    BY <1>4 DEF HandlerKeeps, NothingForgotten
  <2>5. Queued(left, x) = Queued(Now, x) /\ left.owed[x] = Now.owed[x]
    BY <1>1, <1>2, <1>3 DEF Queued
  <2>6. Forgotten(x)' = Forgotten(x)
    BY <2>2, <2>3, <2>4, <2>5
  <2> QED
    BY <2>3, <2>6
<1> QED
  BY <1>8, <1>9, <1>10, <1>11 DEF StepSound, ForgettingStep

LEMMA RequestStep ==
  ASSUME UniType, NEW c \in clients, Request(c), clients' = clients,
         misreported' = misreported, stimuli' \in 0..MaxStimuli
  PROVE  StepSound
<1>1. /\ Now \in State /\ Now.bus = bus /\ Len(bus.pending) <= MaxPending
      /\ clients \subseteq Sockets /\ c \in Sockets
  BY NowState
<1>2. ASSUME NEW req \in [Ports -> Values \cup {Keep}], JsonSetOutput(c, req)
      PROVE  StepSound
  <2> DEFINE ports  == Changed(module, req)
             queued == [Ask(Now, c, "outputs") EXCEPT
                          !.module.want = [p \in Ports |-> IF p \in ports THEN req[p] ELSE @[p]],
                          !.module.who  = [p \in Ports |-> IF p \in ports THEN c ELSE @[p]],
                          !.module.waiting = Append(@, c)]
             t == IF module.want = module.confirmed THEN SetOutputs(queued) ELSE queued
  <2>1. Become(t)
    BY <1>2 DEF JsonSetOutput
  <2>2. StepKeeps(Now, t) /\ StaysSteady(Now, t)
    BY SetOutputKeeps
  <2> HIDE DEF t
  <2>3. BecomesAs(t)
    BY <2>1 DEF Become, BecomesAs
  <2>4. SteadyUndisturbed => OrderedIf(t) /\ (~misreported' => SteadyIf(t))
    BY <2>2 DEF StaysSteady, SteadyUndisturbed
  <2> QED
    BY <2>2, <2>3, <2>4, KeptStep DEF UniType
<1>3. ASSUME NEW config \in Configs, JsonSetConfig(c, config)
      PROVE  StepSound
  <2> DEFINE asked == [Ask(Now, c, "config") EXCEPT !.module.toWrite = config, !.module.writing = c]
             t == SendCmd(asked, "SetConfig", "request", NoData)
             u == MtbBusConfigWritten(asked)
  <2>1. Become(t) \/ Become(u)
    BY <1>3 DEF JsonSetConfig
  <2>2. HandlerKeeps(Now, t) /\ HandlerKeeps(Now, u)
    BY <1>3, SetConfigKeeps DEF JsonSetConfig
  <2> HIDE DEF t, u
  <2>3. BecomesAs(t) \/ BecomesAs(u)
    BY <2>1 DEF Become, BecomesAs
  <2> QED
    BY <2>2, <2>3, HandlerStep
<1>4. ASSUME NEW parses \in BOOLEAN, JsonUpgradeFw(c, parses)
      PROVE  StepSound
  <2> DEFINE upgrading == [Now EXCEPT !.module.fw = c]
             asked     == Ask(upgrading, c, "upgrade")
             t == IF ~parses THEN upgrading
                  ELSE IF ~Writing(module) /\ module.sent = <<>> THEN FwUpgdInit(asked)
                  ELSE asked
  <2>1. Become(t)
    BY <1>4 DEF JsonUpgradeFw
  <2>2. HandlerKeeps(Now, t)
    BY <1>4, UpgradeKeeps DEF JsonUpgradeFw
  <2> HIDE DEF t
  <2>3. BecomesAs(t)
    BY <2>1 DEF Become, BecomesAs
  <2> QED
    BY <2>2, <2>3, HandlerStep
<1>5. CASE JsonReboot(c)
  <2> DEFINE t == Lost([Ask(Now, c, "reboot") EXCEPT !.module.reboot = c])
  <2>1. Become(t)
    BY <1>5 DEF JsonReboot
  <2>2. HandlerKeeps(Now, t)
    BY <1>1, RebootKeeps
  <2> HIDE DEF t
  <2>3. BecomesAs(t)
    BY <2>1 DEF Become, BecomesAs
  <2> QED
    BY <2>2, <2>3, HandlerStep
<1>6. ASSUME NEW elsewhere \in SUBSET clients, ResetMyOutputs(c, elsewhere)
      PROVE  StepSound
  <2> DEFINE t == ClientResetOutputs(Now, c, elsewhere)
  <2>1. Become(t)
    BY <1>6 DEF ResetMyOutputs
  <2>2. HandlerKeeps(Now, t)
    BY <1>1, ClientResetOutputsKeeps
  <2> HIDE DEF t
  <2>3. BecomesAs(t)
    BY <2>1 DEF Become, BecomesAs
  <2> QED
    BY <2>2, <2>3, HandlerStep
<1> QED
  BY <1>2, <1>3, <1>4, <1>5, <1>6 DEF Request

LEMMA HappeningStep ==
  ASSUME UniType, Happening, clients' = clients, misreported' = misreported, stimuli' \in 0..MaxStimuli
  PROVE  StepSound
<1>1. ASSUME NEW config \in Configs, LoadConfig(config)
      PROVE  StepSound
  <2> DEFINE t == [Now EXCEPT !.module.active = TRUE, !.module.config = config]
  <2>1. Become(t)
    BY <1>1 DEF LoadConfig
  <2>2. HandlerKeeps(Now, t)
    BY LoadConfigKeeps
  <2> HIDE DEF t
  <2>3. BecomesAs(t)
    BY <2>1 DEF Become, BecomesAs
  <2> QED
    BY <2>2, <2>3, HandlerStep
<1>2. ASSUME NEW boot \in BOOLEAN, MtbBusActivate(boot)
      PROVE  StepSound
  <2> DEFINE informed == [Now EXCEPT !.module.remaining = Activations, !.module.boot = boot]
             t == IF boot THEN OutputsReset(informed) ELSE Activate(informed)
  <2>1. Become(t)
    BY <1>2 DEF MtbBusActivate
  <2>2. HandlerKeeps(Now, t)
    BY MtbBusActivateKeeps
  <2> HIDE DEF t
  <2>3. BecomesAs(t)
    BY <2>1 DEF Become, BecomesAs
  <2> QED
    BY <2>2, <2>3, HandlerStep
<1>3. CASE MtbBusLost
  <2> DEFINE t == Lost(Now)
  <2>1. Become(t)
    BY <1>3 DEF MtbBusLost
  <2>2. HandlerKeeps(Now, t)
    BY LostKeeps
  <2> HIDE DEF t
  <2>3. BecomesAs(t)
    BY <2>1 DEF Become, BecomesAs
  <2> QED
    BY <2>2, <2>3, HandlerStep
<1>4. CASE MtbUsbDisconnected
  <2> DEFINE t == Reset([Now EXCEPT !.module.active = FALSE])
  <2>1. Become(t)
    BY <1>4 DEF MtbUsbDisconnected
  <2>2. HandlerKeeps(Now, t)
    BY DisconnectedKeeps
  <2> HIDE DEF t
  <2>3. BecomesAs(t)
    BY <2>1 DEF Become, BecomesAs
  <2> QED
    BY <2>2, <2>3, HandlerStep
<1>5. CASE MtbUsbFull
  <2> DEFINE t == [Now EXCEPT !.bus = FullBuffer(bus)]
  <2>1. SomethingAwaited /\ bus' = FullBuffer(bus) /\ UNCHANGED <<module, owed, overtaken>>
    BY <1>5 DEF MtbUsbFull
  <2>2. HandlerKeeps(Now, t)
    BY <2>1, FullKeeps
  <2>3. t.module = module /\ t.bus = FullBuffer(bus) /\ t.owed = owed /\ t.overtaken = overtaken
    BY DEF Now
  <2> HIDE DEF t
  <2>4. BecomesAs(t)
    BY <2>1, <2>3 DEF BecomesAs
  <2> QED
    BY <2>2, <2>4, HandlerStep
<1>6. ASSUME NEW c \in clients, Request(c)
      PROVE  StepSound
  BY <1>6, RequestStep
<1> QED
  BY <1>1, <1>2, <1>3, <1>4, <1>5, <1>6 DEF Happening

LEMMA RunningStep ==
  ASSUME UniType, Running
  PROVE  StepSound
<1>1. /\ Now \in State /\ Now.bus = bus /\ bus \in Bus /\ Len(bus.pending) <= MaxPending
      /\ clients \subseteq Sockets /\ stimuli \in 0..MaxStimuli
  BY NowState, StateFields DEF UniType
<1>2. CASE ReactivateCheck
  <2> DEFINE t == Activate(Now)
  <2>1. Become(t) /\ UNCHANGED <<clients, misreported, stimuli>>
    BY <1>2 DEF ReactivateCheck
  <2>2. HandlerKeeps(Now, t)
    BY <1>1, ActivateKeeps
  <2> HIDE DEF t
  <2>3. BecomesAs(t) /\ clients' = clients /\ misreported' = misreported /\ stimuli' \in 0..MaxStimuli
    BY <1>1, <2>1 DEF Become, BecomesAs
  <2> QED
    BY <2>2, <2>3, HandlerStep
<1>3. ASSUME SomethingAwaited, NEW reading \in Readings, Respond(reading), UNCHANGED <<clients, stimuli>>
      PROVE  StepSound
  <2> DEFINE paired == PairedWithResponse(bus, AnsweredCmd.kind)
             cmd    == bus.pending[paired].cmd
             called == OnOk(Now, cmd, reading)
             t == [called EXCEPT !.bus = SendNextOut(Erase(@, Answered(bus), paired))]
  <2>1. Become(t) /\ misreported' = IF cmd.kind = "SetOutput" THEN reading # cmd.data ELSE misreported
    BY <1>3 DEF Respond
  <2>2. AnswerKeeps(Now, t, cmd, reading)
    BY <1>3, RespondFacts
  <2> HIDE DEF t, cmd
  <2>3. /\ BecomesAs(t) /\ clients' = clients /\ stimuli' \in 0..MaxStimuli
        /\ misreported' \in BOOLEAN
    BY <1>1, <1>3, <2>1 DEF Become, BecomesAs, UniType
  <2>4. ~misreported' => IF cmd.kind = "SetOutput" THEN reading \in {cmd.data, module.want} ELSE ~misreported
    BY <2>1
  <2> QED
    BY <2>2, <2>3, <2>4, AnswerStep
<1>4. ASSUME SomethingAwaited, NEW p \in 1..Len(bus.pending), Answered(bus) = 1 => p = 1,
             Fail(p), UNCHANGED <<clients, stimuli>>
      PROVE  StepSound
  <2> DEFINE erased == [Now EXCEPT !.bus = Erase(@, Answered(bus), p)]
             cmd    == bus.pending[p].cmd
             called == OnError(erased, cmd)
             t == [called EXCEPT !.bus = SendNextOut(@)]
  <2>1. Become(t) /\ misreported' = (misreported /\ cmd.kind # "SetOutput")
    BY <1>4 DEF Fail
  <2>2. AnswerKeeps(Now, t, cmd, module.want)
    BY <1>4, FailFacts
  <2> HIDE DEF t, cmd
  <2>3. /\ BecomesAs(t) /\ clients' = clients /\ stimuli' \in 0..MaxStimuli
        /\ misreported' \in BOOLEAN
    BY <1>1, <1>4, <2>1 DEF Become, BecomesAs
  <2>4. ~misreported' => IF cmd.kind = "SetOutput" THEN module.want \in {cmd.data, module.want} ELSE ~misreported
    BY <2>1
  <2> QED
    BY <2>2, <2>3, <2>4, AnswerStep
<1>5. CASE MtbUsbAnswers
  <2>1. SomethingAwaited
    BY <1>5 DEF MtbUsbAnswers, GotResponse, GotNoResponse, GotBusError
  <2>2. /\ Answered(bus) \in 1..Len(bus.pending)
        /\ AnsweredCmd.kind = bus.pending[Answered(bus)].cmd.kind
    BY <1>1, <2>1, AnsweredFacts DEF SomethingAwaited, AnsweredCmd
  <2>3. /\ PairedWithNoResponse(bus, AnsweredCmd.kind) \in 1..Len(bus.pending)
        /\ PairedWithBusError \in 1..Len(bus.pending)
        /\ Answered(bus) = 1 => /\ PairedWithNoResponse(bus, AnsweredCmd.kind) = 1
                                /\ PairedWithBusError = 1
    BY <1>1, <2>2, PairedFacts
  <2>4. CASE GotResponse
    BY <1>3, <1>5, <2>4 DEF MtbUsbAnswers, GotResponse
  <2>5. CASE GotNoResponse
    <3>1. Fail(PairedWithNoResponse(bus, AnsweredCmd.kind)) /\ UNCHANGED <<clients, stimuli>>
      BY <1>5, <2>5 DEF MtbUsbAnswers, GotNoResponse
    <3> QED
      BY <1>4, <2>1, <2>3, <3>1
  <2>6. CASE GotBusError
    <3>1. Fail(PairedWithBusError) /\ UNCHANGED <<clients, stimuli>>
      BY <1>5, <2>6 DEF MtbUsbAnswers, GotBusError
    <3> QED
      BY <1>4, <2>1, <2>3, <3>1
  <2> QED
    BY <1>5, <2>4, <2>5, <2>6 DEF MtbUsbAnswers
<1> QED
  BY <1>2, <1>5 DEF Running

LEMMA NextStep ==
  ASSUME UniType, [Next]_vars
  PROVE  StepSound
<1>1. /\ clients \subseteq Sockets /\ stimuli \in 0..MaxStimuli
      /\ Now \in State
  BY DEF UniType
<1>2. ASSUME Stimulated
      PROVE  StepSound
  <2>1. misreported' = misreported /\ stimuli' \in 0..MaxStimuli
    BY <1>1, <1>2, UniAssumption DEF Stimulated
  <2>2. CASE Happening /\ UNCHANGED clients
    BY <2>1, <2>2, HappeningStep
  <2>3. ASSUME NEW c \in Sockets, Connect(c)
        PROVE  StepSound
    BY <2>1, <2>3, ConnectStep
  <2>4. ASSUME NEW c \in clients, NEW elsewhere \in SUBSET clients, Disconnect(c, elsewhere)
        PROVE  StepSound
    BY <2>1, <2>4, DisconnectStep
  <2> QED
    BY <1>2, <2>2, <2>3, <2>4 DEF Stimulated
<1>3. CASE UNCHANGED vars
  <2>1. /\ BecomesAs(Now) /\ clients' = clients /\ stimuli' \in 0..MaxStimuli
        /\ misreported' = misreported
    BY <1>1, <1>3, NowState DEF vars, BecomesAs
  <2>2. HandlerKeeps(Now, Now)
    BY <1>1, NowState DEF HandlerKeeps, Sound, StaysSteady, NothingForgotten
  <2> QED
    BY <2>1, <2>2, HandlerStep
<1> QED
  BY <1>2, <1>3, RunningStep DEF Next

LEMMA InitSound ==
  ASSUME Init
  PROVE  UniType /\ RequestersKnown /\ SteadyUndisturbed
<1>1. /\ clients = Sockets /\ bus = Empty /\ stimuli = 0 /\ misreported = FALSE
      /\ owed = [c \in Sockets |-> [kind \in Requested |-> 0]]
  BY DEF Init
<1>2. /\ module \in Module /\ overtaken = (module.want # module.confirmed)
      /\ module.waiting = <<>> /\ module.sent = <<>>
      /\ module.writing = NoRequest /\ module.fw = NoRequest
  <2>1. PICK config \in Configs \cup {NoConfig}, want \in Outputs, confirmed \in Outputs :
          /\ overtaken = (want # confirmed)
          /\ module = [active |-> config # NoConfig, activating |-> FALSE, remaining |-> 0,
                       boot |-> FALSE, reboot |-> NoRequest, config |-> config, toWrite |-> NoConfig,
                       writing |-> NoRequest, fw |-> NoRequest, begun |-> FALSE,
                       want |-> want, confirmed |-> confirmed, who |-> [p \in Ports |-> NoSocket],
                       waiting |-> <<>>, sent |-> <<>>]
    BY DEF Init
  <2>2. 0 \in 0..Activations /\ (config # NoConfig) \in BOOLEAN
    BY UniAssumption
  <2>3. [p \in Ports |-> NoSocket] \in [Ports -> Sockets \cup {NoSocket}]
    OBVIOUS
  <2>4. <<>> \in Seq(Sockets \cup {NoSocket})
    BY EmptySeq
  <2>5. module \in Module
    BY <2>1, <2>2, <2>3, <2>4 DEF Module
  <2> QED
    BY <2>1, <2>5
<1>3. bus \in Bus /\ bus.pending = <<>> /\ bus.out = <<>> /\ Len(bus.pending) = 0
  <2>1. <<>> \in Seq(Pending) /\ <<>> \in Seq(Sendable) /\ Len(<<>>) = 0
    BY EmptySeq
  <2> QED
    BY <1>1, <2>1 DEF Empty, Bus
<1>4. owed \in Owed
  BY <1>1 DEF Owed
<1>5. overtaken \in BOOLEAN /\ misreported \in BOOLEAN
  BY <1>1, <1>2
<1>6. UniType
  BY <1>1, <1>2, <1>3, <1>4, <1>5, UniAssumption, MaxPendingAssumption DEF UniType, Now, State
<1>7. RequestersKnown
  <2>1. \A c \in Sockets : owed[c]["config"] = 0 /\ owed[c]["upgrade"] = 0
    BY <1>1 DEF Requested
  <2>2. NoRequest \notin Sockets
    BY UniAssumption
  <2> QED
    BY <1>2, <1>6, <2>1, <2>2, NowState DEF RequestersKnown, RequestersSound
<1>8. SteadyUndisturbed
  <2>1. ~Writes(Flow(bus))
    <3>1. DOMAIN Flow(bus) = 1..(Len(bus.pending) + Len(bus.out)) /\ Len(bus.out) = 0
      BY <1>3, FlowFacts, EmptySeq
    <3> QED
      BY <1>3, <3>1 DEF Writes
  <2> QED
    BY <1>2, <1>6, <2>1, NowState DEF SteadyUndisturbed, OrderedIf, SteadyIf, Ordered, Steady
<1> QED
  BY <1>6, <1>7, <1>8

-----------------------------------------------------------------------------
(* Theorems *)

\* The module, the queues of its commands and requests, and what clients are
\* owed keep their types, in particular no attempt of an activation is counted
\* below zero (activationError), and no more than MaxPending commands are left
\* to MTB-USB at a time.
THEOREM UniTypes == Spec => [](TypeOK /\ Len(bus.pending) <= MaxPending)
<1>1. Init => UniType
  BY InitSound
<1>2. UniType /\ [Next]_vars => UniType'
  BY NextStep DEF StepSound
<1>3. UniType => TypeOK /\ Len(bus.pending) <= MaxPending
  <2> SUFFICES ASSUME UniType
               PROVE  TypeOK /\ Len(bus.pending) <= MaxPending
    OBVIOUS
  <2>1. /\ module \in Module /\ bus \in Bus /\ owed \in Owed /\ overtaken \in BOOLEAN
        /\ misreported \in BOOLEAN /\ clients \subseteq Sockets /\ stimuli \in 0..MaxStimuli /\ Len(bus.pending) <= MaxPending
    BY NowState, StateFields DEF UniType
  <2>2. bus.pending \in Seq([cmd : Command, awaited : BOOLEAN]) /\ bus.out \in Seq(Command)
    <3>1. bus.pending \in Seq(Pending) /\ bus.out \in Seq(Sendable)
      BY <2>1, BusFacts
    <3>2. Sendable \subseteq Command /\ Pending \subseteq [cmd : Command, awaited : BOOLEAN]
      BY DEF Sendable, Pending
    <3> QED
      BY <3>1, <3>2, SeqMonotonic
  <2> QED
    BY <2>1, <2>2 DEF TypeOK, Owed
<1> QED
  BY <1>1, <1>2, <1>3, PTL DEF Spec

\* Whoever waits for a configuration to be written or for a firmware upgrade is
\* who the module keeps as the requester: mtbBusConfigWritten and its error path
\* answer the right client, once, and clientDisconnected leaves no answer to a
\* later client at the same address.
THEOREM AnswersReachRequesters == Spec => []OwedToRequester
<1>1. Init => UniType /\ RequestersKnown
  BY InitSound
<1>2. UniType /\ RequestersKnown /\ [Next]_vars => UniType' /\ RequestersKnown'
  BY NextStep DEF StepSound
<1>3. UniType /\ RequestersKnown => OwedToRequester
  BY NowState DEF RequestersKnown, RequestersSound, OwedToRequester
<1> QED
  BY <1>1, <1>2, <1>3, PTL DEF Spec

\* As long as no command was discarded, no reset overtook one and the module, when
\* it last answered a SetOutput, reported the outputs it was to set, outputs that
\* are wanted but not confirmed, and requests to set outputs, are brought on by a
\* SetOutput that is under way (jsonSetOutput, mtbBusOutputsSet and
\* resetOutputsOfClient hand over to one another), in whatever order requests,
\* departures, answers and errors come, and whatever was reported before.
THEOREM OutputsNotStranded == Spec => []NothingStranded
<1>1. Init => UniType /\ SteadyUndisturbed
  BY InitSound
<1>2. UniType /\ SteadyUndisturbed /\ [Next]_vars => UniType' /\ SteadyUndisturbed'
  BY NextStep DEF StepSound
<1>3. UniType /\ SteadyUndisturbed => NothingStranded
  <2> SUFFICES ASSUME UniType, SteadyUndisturbed, Undisturbed,
                      \/ module.want # module.confirmed
                      \/ module.waiting # <<>> \/ module.sent # <<>>
               PROVE  SetOutputUnderWay(bus)
    BY DEF NothingStranded
  <2>1. bus \in Bus
    BY NowState, StateFields
  <2>2. Steady(module, Flow(bus))
    BY NowState DEF SteadyUndisturbed, SteadyIf, Undisturbed
  <2>3. Writes(Flow(bus))
    BY <2>2 DEF Steady
  <2> QED
    BY <2>1, <2>3, UnderWayFlow
<1> QED
  BY <1>1, <1>2, <1>3, PTL DEF Spec

\* A request to set outputs is lost without an answer only in the step in which
\* jsonSetOutput overwrites the requests of a SetOutput under way.
THEOREM ForgottenOnlyOverwritten == Spec => ForgottenByOverwriting
<1>1. Init => UniType
  BY InitSound
<1>2. UniType /\ [Next]_vars => UniType'
  BY NextStep DEF StepSound
<1>3. UniType /\ [Next]_vars => [ForgettingStep]_vars
  BY NextStep DEF StepSound
<1> QED
  BY <1>1, <1>2, <1>3, PTL DEF Spec, ForgottenByOverwriting
=============================================================================
