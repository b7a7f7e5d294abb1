------------------------------- MODULE SimPanel -------------------------------
(***************************************************************************)
(* The simulator's panel (simwin.cpp) and the inputs of the MTB-UNIS its   *)
(* buttons are wired to.  A button (TtlacAZD) may be pushed with the left  *)
(* mouse button and pulled with the right one, may latch either way, and   *)
(* may be lit; a signal (TprusvAZD) has a white and a red lamp; an         *)
(* indicator (TindAZD) has one bulb.  Qt delivers contactChanged inside    *)
(* the mouse event and simOutputChanged inside the daemon's handler, so    *)
(* what they do is part of the action.                                     *)
(***************************************************************************)
EXTENDS Naturals, Sequences

CONSTANTS
  Buttons,    (* the buttons of the panel                                  *)
  Design,     (* per button, the letters of its type in gui.csv            *)
  Wiring,     (* per button, the input of its push and of its pull contact *)
              (* and the output of its lamp                                *)
  Signals,    (* the signals of the panel                                  *)
  Lamps,      (* per signal, the outputs of its lamps, mtbBila, mtbCervena *)
  Indicators, (* the indicators of the panel                               *)
  Bulb,       (* per indicator, the output of mtbZarovka                   *)
  Outputs,    (* the outputs of the module                                 *)
  Unwired     (* a connection to no input or output of this module: with   *)
              (* the address -1, or another module's                       *)

\* The letters after the t: m pushes and t pulls, a capital latches, b and z
\* are colors.
Designs == [push : {"m", "M", "n"}, pull : {"t", "T", "n"}, color : {"b", "z", "n"}]
ASSUME DesignAssumption == Design \in [Buttons -> Designs]

\* canPush, canPull, aretacePush, aretacePull, and whether there is a color.
KindOf(design) ==
  [canPush   |-> design.push \in {"m", "M"}, canPull   |-> design.pull \in {"t", "T"},
   latchPush |-> design.push = "M",          latchPull |-> design.pull = "T",
   colored   |-> design.color # "n"]
Kind == [b \in Buttons |-> KindOf(Design[b])]

\* A contact belongs to one button; the two of a button are different inputs.
\* So it is for each module gui.csv names by number.  The missing contact it
\* writes as _/_ is read as input 0 of module 0 (toInt of "_"): a module at
\* that address would share the input among buttons, and is not described here.
Contacts(b) == {Wiring[b].push, Wiring[b].pull} \ {Unwired}
ASSUME WiringAssumption ==
  /\ \A b \in Buttons : Wiring[b].push = Wiring[b].pull => Contacts(b) = {}
  /\ \A b, d \in Buttons : b # d => Contacts(b) \cap Contacts(d) = {}
ASSUME LampsAssumption ==
  /\ Lamps \in [Signals -> [white : Outputs \cup {Unwired}, red : Outputs \cup {Unwired}]]
  /\ \A b \in Buttons : Wiring[b].lamp \in Outputs \cup {Unwired}
  /\ Bulb \in [Indicators -> Outputs \cup {Unwired}]
  /\ Unwired \notin Outputs

VARIABLES
  stateM,   (* per button, "zakladni" at rest, "macknute" pushed or         *)
            (* "vytazene" pulled                                           *)
  mouse,    (* the mouse buttons held down, and on which button of the     *)
            (* panel; Qt sends the events to it until all are released     *)
  active,   (* the module is active                                        *)
  inputs,   (* the module's inputs                                         *)
  published, (* the inputs in the events the last step sent, in order     *)
  missed,   (* buttons whose last change found the module inactive         *)
  lit,      (* outputs last signalled as on                                *)
  lamps,    (* the elements whose stateLit, lampBila, lampCervena is on,   *)
            (* and the indicators whose bulb is                            *)
  icon,     (* per button, the icon set last                               *)
  aspect    (* per signal, the picture set last                            *)

pushed == <<stateM, mouse, inputs, missed, icon>>
shown  == <<lit, lamps, aspect>>
vars   == <<active, pushed, published, shown>>

\* setIconState: a button without a color has the same icons lit and unlit.
Icon(b, state, on) == [state |-> state, lit |-> on /\ Kind[b].colored]

Init ==
  /\ stateM = [b \in Buttons |-> "zakladni"]
  /\ mouse = [held |-> {}, on |-> CHOOSE b \in Buttons : TRUE]
  /\ active = TRUE
  /\ inputs = {} /\ published = <<>> /\ missed = {} /\ lit = {}
  /\ lamps = [stateLit |-> {}, bila |-> {}, cervena |-> {}, zarovka |-> {}]
  /\ icon = [b \in Buttons |-> Icon(b, "zakladni", FALSE)]
  /\ aspect = [s \in Signals |-> "zakladni"]

-----------------------------------------------------------------------------
(* Buttons *)

\* Mutant: only the contact that closes is signalled when a button is used.
ClosesOnly(b, state) ==
  CASE state = "macknute" -> inputs \cup ({Wiring[b].push} \ {Unwired})
    [] state = "vytazene" -> inputs \cup ({Wiring[b].pull} \ {Unwired})
    [] state = "zakladni" -> inputs \ Contacts(b)

\* contactChanged, delivered to mtbBusInputsChanged of an active module.
Contact(set, pin, on) == IF on THEN set \cup ({pin} \ {Unwired}) ELSE set \ {pin}

\* The inputs after the push contact was signalled, and after both were.
AfterPush(b, state) == Contact(inputs, Wiring[b].push, state = "macknute")
Signalled(b, state) == Contact(AfterPush(b, state), Wiring[b].pull, state = "vytazene")

Event(pin, set) == IF pin = Unwired THEN <<>> ELSE <<set>>

\* Mutant: the pull contact is signalled before the push contact.
PublishedPullFirst(b, state) ==
  Event(Wiring[b].pull, Contact(inputs, Wiring[b].pull, state = "vytazene"))
    \o Event(Wiring[b].push, Signalled(b, state))

\* Each contact that is wired sends an event of its own.
Published(b, state) ==
  Event(Wiring[b].push, AfterPush(b, state)) \o Event(Wiring[b].pull, Signalled(b, state))

\* What an active module makes of the signals of setState.
ContactsChanged(b, state) ==
  IF active /\ stateM[b] # state
    THEN inputs' = Signalled(b, state) /\ published' = Published(b, state)
    ELSE UNCHANGED inputs /\ published' = <<>>

\* Mutant: the icon is chosen before the state is changed.
SetStateLate(b, state) ==
  /\ stateM' = [stateM EXCEPT ![b] = state]
  /\ ContactsChanged(b, state)
  /\ missed' = IF stateM[b] = state THEN missed
               ELSE IF active THEN missed \ {b} ELSE missed \cup {b}
  /\ icon' = [icon EXCEPT ![b] = Icon(b, stateM[b], b \in lamps.stateLit)]

\* setState: nothing is signalled or drawn unless the state changes; a module
\* that is not active drops the signals.  (Each load_config connects the buttons
\* once more, main.cpp:771: an event is then sent that many times.)
SetState(b, state) ==
  /\ stateM' = [stateM EXCEPT ![b] = state]
  /\ ContactsChanged(b, state)
  /\ missed' = IF stateM[b] = state THEN missed
               ELSE IF active THEN missed \ {b} ELSE missed \cup {b}
  /\ icon' = IF stateM[b] = state THEN icon
             ELSE [icon EXCEPT ![b] = Icon(b, state, b \in lamps.stateLit)]

\* mousePressEvent: a button whose push latches goes back to rest when used
\* again, and it is the push latch that is asked for a pull as well.
Used(b, used) == IF Kind[b].latchPush /\ stateM[b] = used THEN "zakladni" ELSE used

\* Mutant: only a push springs back.
PushSprings(b) == stateM[b] = "macknute" /\ ~Kind[b].latchPush
\* mouseReleaseEvent
Springs(b) ==
  \/ stateM[b] = "macknute" /\ ~Kind[b].latchPush
  \/ stateM[b] = "vytazene" /\ ~Kind[b].latchPull

Press(b, side) ==
  /\ side \notin mouse.held /\ (mouse.held = {} \/ mouse.on = b)
  /\ mouse' = [held |-> mouse.held \cup {side}, on |-> b]
  /\ CASE side = "left"  /\ Kind[b].canPush -> SetState(b, Used(b, "macknute"))
       [] side = "right" /\ Kind[b].canPull -> SetState(b, Used(b, "vytazene"))
       [] OTHER -> UNCHANGED <<stateM, inputs, missed, icon>> /\ published' = <<>>
  /\ UNCHANGED <<active, shown>>

Release(side) ==
  /\ side \in mouse.held
  /\ mouse' = [mouse EXCEPT !.held = @ \ {side}]
  /\ SetState(mouse.on, IF Springs(mouse.on) THEN "zakladni" ELSE stateM[mouse.on])
  /\ UNCHANGED <<active, shown>>

-----------------------------------------------------------------------------
(* Lamps *)

Switched(set, those, on) == IF on THEN set \cup those ELSE set \ those

\* Mutant: white wins.
WhiteFirst(bila, cervena) == IF bila THEN "bila" ELSE IF cervena THEN "cervena" ELSE "zakladni"
\* TprusvAZD::updateState
Aspect(bila, cervena) == IF cervena THEN "cervena" ELSE IF bila THEN "bila" ELSE "zakladni"

\* simOnOutputChanged: every element wired to the output, and no other, is
\* told and draws itself; a button draws its position too, a signal both its
\* lamps, an indicator is its bulb.
ButtonsAt(out)    == {b \in Buttons : Wiring[b].lamp = out}
WhiteAt(out)      == {s \in Signals : Lamps[s].white = out}
RedAt(out)        == {s \in Signals : Lamps[s].red = out}
IndicatorsAt(out) == {i \in Indicators : Bulb[i] = out}

ButtonLampChanged(out, on) ==
  icon' = [b \in Buttons |-> IF b \in ButtonsAt(out) THEN Icon(b, stateM[b], on) ELSE icon[b]]

SignalLampChanged(out) ==
  aspect' = [s \in Signals |-> IF s \in WhiteAt(out) \cup RedAt(out)
                               THEN Aspect(s \in lamps'.bila, s \in lamps'.cervena)
                               ELSE aspect[s]]

SimOnOutputChanged(out, on) ==
  /\ lit' = Switched(lit, {out}, on)
  /\ lamps' = [stateLit |-> Switched(lamps.stateLit, ButtonsAt(out), on),
               bila     |-> Switched(lamps.bila, WhiteAt(out), on),
               cervena  |-> Switched(lamps.cervena, RedAt(out), on),
               zarovka  |-> Switched(lamps.zarovka, IndicatorsAt(out), on)]
  /\ ButtonLampChanged(out, on)
  /\ SignalLampChanged(out)
  /\ published' = <<>>
  /\ UNCHANGED <<active, stateM, mouse, inputs, missed>>

-----------------------------------------------------------------------------
\* module_reboot makes the module inactive, load_config active again.
Reboot == active /\ active' = FALSE /\ published' = <<>> /\ UNCHANGED <<pushed, shown>>
Load   == ~active /\ active' = TRUE /\ published' = <<>> /\ UNCHANGED <<pushed, shown>>

Next ==
  \/ \E b \in Buttons, side \in {"left", "right"} : Press(b, side)
  \/ \E side \in {"left", "right"} : Release(side)
  \/ \E out \in Outputs, on \in BOOLEAN : SimOnOutputChanged(out, on)
  \/ Reboot
  \/ Load

Spec == Init /\ [][Next]_vars

-----------------------------------------------------------------------------
(* Properties *)

BothClosed(b, set) == {Wiring[b].push, Wiring[b].pull} \subseteq set

\* Between handlers the contacts of a button are never both closed, also if it
\* was moved any number of times while the module was inactive.  Within setState
\* they are: it signals the push contact first, so a button moved directly from
\* pulled to pushed, or pushed when the module missed that it was let go,
\* publishes both as closed.  Nothing else does, and the handler's next event
\* takes it back.
BothClosedInPassing ==
  [][\A b \in Buttons :
       /\ ~BothClosed(b, inputs')
       /\ \A i \in DOMAIN published' :
            BothClosed(b, published'[i]) =>
              /\ stateM'[b] = "macknute" /\ (stateM[b] = "vytazene" \/ b \in missed)
              /\ i < Len(published') /\ ~BothClosed(b, published'[i + 1])]_vars

\* The module's inputs are those of the buttons' positions, except for a
\* button last moved while the module was inactive: nothing reads the contacts
\* again when the module becomes active.
InputsFollowButtons ==
  \A b \in Buttons \ missed :
    /\ Wiring[b].push # Unwired => (Wiring[b].push \in inputs <=> stateM[b] = "macknute")
    /\ Wiring[b].pull # Unwired => (Wiring[b].pull \in inputs <=> stateM[b] = "vytazene")

\* With the mouse let go, a button stays only where it latches.
SpringsBack ==
  mouse.held = {} =>
    \A b \in Buttons :
      \/ stateM[b] = "zakladni"
      \/ stateM[b] = "macknute" /\ Kind[b].latchPush
      \/ stateM[b] = "vytazene" /\ Kind[b].latchPull

\* A button's icon shows its position and its lamp as they are, whichever of
\* the mouse and the daemon changed last: both draw the whole button.
ButtonsShowState ==
  \A b \in Buttons : icon[b] = Icon(b, stateM[b], Wiring[b].lamp \in lit)

\* A signal is red if its red lamp is on, also if the white one was switched
\* on after it, and white again when the red one goes out before the white; an
\* indicator that shares an output with it agrees with it.
SignalsShowLamps ==
  /\ \A s \in Signals :
       aspect[s] = IF Lamps[s].red \in lit THEN "cervena"
                   ELSE IF Lamps[s].white \in lit THEN "bila" ELSE "zakladni"
  /\ \A i \in Indicators : i \in lamps.zarovka <=> Bulb[i] \in lit
=============================================================================
