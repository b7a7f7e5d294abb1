---------------------------- MODULE SimPanelProofs ----------------------------
(***************************************************************************)
(* Proofs of the properties of SimPanel, for every panel and every wiring   *)
(* that gives a contact to one button (WiringAssumption).  Three            *)
(* strengthenings, one per subject, are inductive:                          *)
(*   - the contacts: the inputs of the module hold no unconnected contact;  *)
(*   - the mouse: a button out of place is the one the mouse holds;         *)
(*   - the lamps: the elements that are lit are those whose output is on.   *)
(***************************************************************************)
EXTENDS SimPanel, TLAPS

Positions == {"zakladni", "macknute", "vytazene"}
Sides     == {"left", "right"}

-----------------------------------------------------------------------------
(* Inductive invariants *)

\* While the mouse is held down it is held on a button.
MouseOK ==
  /\ mouse = [held |-> mouse.held, on |-> mouse.on]
  /\ mouse.held \subseteq Sides
  /\ mouse.held # {} => mouse.on \in Buttons

\* Every button has a position.
PositionsOK == stateM \in [Buttons -> Positions] /\ MouseOK

\* What is true of the contacts: no input is the missing one, the two contacts
\* of a button are not both closed, and the inputs follow the buttons that did
\* not move unheard.
ContactsSound ==
  /\ Unwired \notin inputs
  /\ \A b \in Buttons : ~BothClosed(b, inputs)
  /\ InputsFollowButtons

\* A button that is at rest or where it latches.
InPlace(b) ==
  \/ stateM[b] = "zakladni"
  \/ stateM[b] = "macknute" /\ Kind[b].latchPush
  \/ stateM[b] = "vytazene" /\ Kind[b].latchPull

\* The only button out of place is the one the mouse holds.
OthersInPlace == \A b \in Buttons : InPlace(b) \/ (mouse.held # {} /\ b = mouse.on)

\* The elements that are lit are those whose output was last signalled as on.
LampsSound ==
  /\ lit \subseteq Outputs
  /\ lamps = [stateLit |-> {b \in Buttons : Wiring[b].lamp \in lit},
              bila     |-> {s \in Signals : Lamps[s].white \in lit},
              cervena  |-> {s \in Signals : Lamps[s].red \in lit},
              zarovka  |-> {i \in Indicators : Bulb[i] \in lit}]
  /\ icon = [b \in Buttons |-> Icon(b, stateM[b], Wiring[b].lamp \in lit)]
  /\ aspect = [s \in Signals |-> Aspect(Lamps[s].white \in lit, Lamps[s].red \in lit)]

-----------------------------------------------------------------------------
(* What setState does *)

\* A contact belongs to one button.
LEMMA OwnContacts ==
  ASSUME NEW b \in Buttons, NEW d \in Buttons, b # d
  PROVE  /\ Wiring[d].push # Unwired => Wiring[d].push \notin Contacts(b)
         /\ Wiring[d].pull # Unwired => Wiring[d].pull \notin Contacts(b)
<1>1. Contacts(b) \cap Contacts(d) = {}
  BY WiringAssumption
<1> QED
  BY <1>1 DEF Contacts

\* The two contacts of a button are one only if neither is connected.
LEMMA TwoContacts ==
  ASSUME NEW b \in Buttons
  PROVE  Wiring[b].push = Wiring[b].pull => Wiring[b].push = Unwired
BY WiringAssumption DEF Contacts

\* Signalling the push contact changes no other contact.
LEMMA AfterPushContacts ==
  ASSUME NEW b \in Buttons, NEW state \in Positions, Unwired \notin inputs
  PROVE  /\ Unwired \notin AfterPush(b, state)
         /\ Wiring[b].push # Unwired =>
              (Wiring[b].push \in AfterPush(b, state) <=> state = "macknute")
         /\ Wiring[b].pull \in AfterPush(b, state) <=> Wiring[b].pull \in inputs
         /\ \A d \in Buttons \ {b} :
              /\ Wiring[d].push \in AfterPush(b, state) <=> Wiring[d].push \in inputs
              /\ Wiring[d].pull \in AfterPush(b, state) <=> Wiring[d].pull \in inputs
<1>1. ASSUME NEW pin, pin # Wiring[b].push \/ pin = Unwired
      PROVE  pin \in AfterPush(b, state) <=> pin \in inputs
  BY <1>1 DEF AfterPush, Contact
<1>2. Unwired \notin AfterPush(b, state)
  BY <1>1
<1>3. Wiring[b].push # Unwired => (Wiring[b].push \in AfterPush(b, state) <=> state = "macknute")
  BY DEF AfterPush, Contact
<1>4. Wiring[b].pull \in AfterPush(b, state) <=> Wiring[b].pull \in inputs
  BY <1>1, TwoContacts
<1>5. ASSUME NEW d \in Buttons \ {b}
      PROVE  /\ Wiring[d].push \in AfterPush(b, state) <=> Wiring[d].push \in inputs
             /\ Wiring[d].pull \in AfterPush(b, state) <=> Wiring[d].pull \in inputs
  BY <1>1, OwnContacts DEF Contacts
<1> QED
  BY <1>2, <1>3, <1>4, <1>5

\* After both contacts of a button were signalled the module knows its
\* position, and the contacts of the other buttons are as they were.
LEMMA SignalledContacts ==
  ASSUME NEW b \in Buttons, NEW state \in Positions, Unwired \notin inputs
  PROVE  /\ Unwired \notin Signalled(b, state)
         /\ Wiring[b].push # Unwired =>
              (Wiring[b].push \in Signalled(b, state) <=> state = "macknute")
         /\ Wiring[b].pull # Unwired =>
              (Wiring[b].pull \in Signalled(b, state) <=> state = "vytazene")
         /\ \A d \in Buttons \ {b} :
              /\ Wiring[d].push \in Signalled(b, state) <=> Wiring[d].push \in inputs
              /\ Wiring[d].pull \in Signalled(b, state) <=> Wiring[d].pull \in inputs
<1>1. ASSUME NEW pin, pin # Wiring[b].pull \/ pin = Unwired
      PROVE  pin \in Signalled(b, state) <=> pin \in AfterPush(b, state)
  <2>1. Unwired \notin AfterPush(b, state)
    BY AfterPushContacts
  <2> QED
    BY <1>1, <2>1 DEF Signalled, Contact
<1>2. Unwired \notin Signalled(b, state)
  BY <1>1, AfterPushContacts
<1>3. Wiring[b].push # Unwired => (Wiring[b].push \in Signalled(b, state) <=> state = "macknute")
  BY <1>1, TwoContacts, AfterPushContacts
<1>4. Wiring[b].pull # Unwired => (Wiring[b].pull \in Signalled(b, state) <=> state = "vytazene")
  BY DEF Signalled, Contact
<1>5. ASSUME NEW d \in Buttons \ {b}
      PROVE  /\ Wiring[d].push \in Signalled(b, state) <=> Wiring[d].push \in AfterPush(b, state)
             /\ Wiring[d].pull \in Signalled(b, state) <=> Wiring[d].pull \in AfterPush(b, state)
  BY <1>1, OwnContacts DEF Contacts
<1> QED
  BY <1>2, <1>3, <1>4, <1>5, AfterPushContacts

\* The events of setState are those of its two contacts, of which one that is
\* not wired has none.
LEMMA PublishedEvents ==
  ASSUME NEW b \in Buttons, NEW state \in Positions
  PROVE  /\ \A i \in DOMAIN Published(b, state) :
              Published(b, state)[i] \in {AfterPush(b, state), Signalled(b, state)}
         /\ Unwired \notin {Wiring[b].push, Wiring[b].pull} =>
              /\ Len(Published(b, state)) = 2
              /\ Published(b, state)[2] = Signalled(b, state)
<1> DEFINE ap == AfterPush(b, state)
           s  == Signalled(b, state)
<1>1. Published(b, state) = Event(Wiring[b].push, ap) \o Event(Wiring[b].pull, s)
  BY DEF Published
<1> HIDE DEF ap, s
<1>2. CASE Wiring[b].push = Unwired /\ Wiring[b].pull = Unwired
  <2>1. Published(b, state) = <<>>
    BY <1>1, <1>2 DEF Event
  <2> QED
    BY <2>1, <1>2
<1>3. CASE Wiring[b].push = Unwired /\ Wiring[b].pull # Unwired
  <2>1. Published(b, state) = <<s>>
    BY <1>1, <1>3 DEF Event
  <2> QED
    BY <2>1, <1>3 DEF s
<1>4. CASE Wiring[b].push # Unwired /\ Wiring[b].pull = Unwired
  <2>1. Published(b, state) = <<ap>>
    BY <1>1, <1>4 DEF Event
  <2> QED
    BY <2>1, <1>4 DEF ap
<1>5. CASE Wiring[b].push # Unwired /\ Wiring[b].pull # Unwired
  <2>1. Event(Wiring[b].push, ap) = <<ap>> /\ Event(Wiring[b].pull, s) = <<s>>
    BY <1>5 DEF Event
  <2>2. Published(b, state) = <<ap>> \o <<s>>
    BY <1>1, <2>1
  <2>3. Len(Published(b, state)) = 2 /\ Published(b, state)[1] = ap /\ Published(b, state)[2] = s
    BY <2>2
  <2> QED
    BY <2>3 DEF ap, s
<1> QED
  BY <1>2, <1>3, <1>4, <1>5

\* setState keeps what is true of the contacts: whether the module hears of
\* the change or not.
LEMMA SetStateContacts ==
  ASSUME PositionsOK, ContactsSound, NEW b \in Buttons, NEW state \in Positions,
         SetState(b, state)
  PROVE  ContactsSound'
<1> USE DEF SetState, ContactsChanged, PositionsOK, ContactsSound
<1>1. \A d \in Buttons : stateM'[d] = IF d = b THEN state ELSE stateM[d]
  OBVIOUS
<1>2. CASE stateM[b] = state
  <2>1. UNCHANGED <<inputs, missed>> /\ \A d \in Buttons : stateM'[d] = stateM[d]
    BY <1>2, <1>1
  <2> QED
    BY <2>1 DEF BothClosed, InputsFollowButtons
<1>3. CASE stateM[b] # state /\ ~active
  <2>1. UNCHANGED inputs /\ missed' = missed \cup {b}
    BY <1>3
  <2> QED
    BY <1>1, <2>1 DEF BothClosed, InputsFollowButtons
<1>4. CASE stateM[b] # state /\ active
  <2>1. inputs' = Signalled(b, state) /\ missed' = missed \ {b}
    BY <1>4
  <2>2. Unwired \notin inputs'
    BY <2>1, SignalledContacts
  <2>3. \A d \in Buttons : ~BothClosed(d, inputs')
    <3>1. ASSUME NEW d \in Buttons
          PROVE  ~(Wiring[d].push \in inputs' /\ Wiring[d].pull \in inputs')
      <4>1. CASE d = b
        BY <4>1, <2>1, <2>2, SignalledContacts DEF Positions
      <4>2. CASE d # b
        BY <4>2, <2>1, SignalledContacts DEF BothClosed
      <4> QED
        BY <4>1, <4>2
    <3> QED
      BY <3>1 DEF BothClosed
  <2>4. InputsFollowButtons'
    <3>1. ASSUME NEW d \in Buttons \ missed'
          PROVE  /\ Wiring[d].push # Unwired =>
                      (Wiring[d].push \in inputs' <=> stateM'[d] = "macknute")
                 /\ Wiring[d].pull # Unwired =>
                      (Wiring[d].pull \in inputs' <=> stateM'[d] = "vytazene")
      <4>1. CASE d = b
        BY <4>1, <1>1, <2>1, SignalledContacts
      <4>2. CASE d # b
        <5>1. d \in Buttons \ missed
          BY <4>2, <2>1
        <5>2. stateM'[d] = stateM[d]
          BY <4>2, <1>1
        <5> QED
          BY <4>2, <5>1, <5>2, <2>1, SignalledContacts DEF InputsFollowButtons
      <4> QED
        BY <4>1, <4>2
    <3> QED
      BY <3>1 DEF InputsFollowButtons
  <2> QED
    BY <2>2, <2>3, <2>4
<1> QED
  BY <1>2, <1>3, <1>4

\* setState draws the button with the lamp it has, and draws no other.
LEMMA SetStateIcons ==
  ASSUME PositionsOK, LampsSound, NEW b \in Buttons, NEW state \in Positions,
         SetState(b, state), UNCHANGED shown
  PROVE  LampsSound'
<1>1. UNCHANGED <<lit, lamps, aspect>>
  BY DEF shown
<1>2. b \in lamps.stateLit <=> Wiring[b].lamp \in lit
  BY DEF LampsSound
<1>3. icon' = [d \in Buttons |-> Icon(d, stateM'[d], Wiring[d].lamp \in lit)]
  <2>1. CASE stateM[b] = state
    <3>1. icon' = icon /\ stateM' = stateM
      BY <2>1 DEF SetState, PositionsOK
    <3> QED
      BY <3>1 DEF LampsSound
  <2>2. CASE stateM[b] # state
    <3>1. icon' = [icon EXCEPT ![b] = Icon(b, state, b \in lamps.stateLit)]
      BY <2>2 DEF SetState
    <3>2. stateM'[b] = state /\ \A d \in Buttons \ {b} : stateM'[d] = stateM[d]
      BY DEF SetState, PositionsOK
    <3>3. Icon(b, state, b \in lamps.stateLit) = Icon(b, state, Wiring[b].lamp \in lit)
      BY <1>2 DEF Icon
    <3> QED
      BY <3>1, <3>2, <3>3 DEF LampsSound
  <2> QED
    BY <2>1, <2>2
<1> QED
  BY <1>1, <1>3 DEF LampsSound

-----------------------------------------------------------------------------
(* Buttons *)

\* A use of a button sets it to a position.
LEMMA PressSets ==
  ASSUME PositionsOK, NEW b \in Buttons, NEW side \in Sides, Press(b, side)
  PROVE  \/ UNCHANGED <<stateM, inputs, missed, icon>> /\ published' = <<>>
         \/ \E state \in Positions : SetState(b, state)
<1>1. CASE side = "left" /\ Kind[b].canPush
  <2>1. SetState(b, Used(b, "macknute"))
    BY <1>1 DEF Press
  <2>2. Used(b, "macknute") \in Positions
    BY DEF Used, Positions
  <2> QED
    BY <2>1, <2>2
<1>2. CASE side = "right" /\ Kind[b].canPull
  <2>1. SetState(b, Used(b, "vytazene"))
    BY <1>2 DEF Press
  <2>2. Used(b, "vytazene") \in Positions
    BY DEF Used, Positions
  <2> QED
    BY <2>1, <2>2
<1>3. CASE ~(side = "left" /\ Kind[b].canPush) /\ ~(side = "right" /\ Kind[b].canPull)
  BY <1>3 DEF Press
<1> QED
  BY <1>1, <1>2, <1>3

\* So does letting go of one, to where it is or to rest.
LEMMA ReleaseSets ==
  ASSUME PositionsOK, NEW side \in Sides, Release(side)
  PROVE  /\ mouse.on \in Buttons
         /\ \E state \in Positions : SetState(mouse.on, state)
<1>1. mouse.on \in Buttons
  BY DEF Release, PositionsOK, MouseOK
<1>2. stateM[mouse.on] \in Positions
  BY <1>1 DEF PositionsOK
<1>3. SetState(mouse.on, IF Springs(mouse.on) THEN "zakladni" ELSE stateM[mouse.on])
  BY DEF Release
<1> QED
  BY <1>1, <1>2, <1>3 DEF Positions

\* What the actions do to the buttons.
LEMMA ButtonSteps ==
  ASSUME PositionsOK, Next
  PROVE  \/ UNCHANGED <<stateM, inputs, missed>> /\ published' = <<>>
         \/ \E b \in Buttons, state \in Positions : SetState(b, state)
<1>1. ASSUME NEW b \in Buttons, NEW side \in Sides, Press(b, side)
      PROVE  \/ UNCHANGED <<stateM, inputs, missed>> /\ published' = <<>>
             \/ \E d \in Buttons, state \in Positions : SetState(d, state)
  BY <1>1, PressSets
<1>2. ASSUME NEW side \in Sides, Release(side)
      PROVE  \E d \in Buttons, state \in Positions : SetState(d, state)
  BY <1>2, ReleaseSets
<1>3. ASSUME NEW out \in Outputs, NEW on \in BOOLEAN, SimOnOutputChanged(out, on)
      PROVE  UNCHANGED <<stateM, inputs, missed>> /\ published' = <<>>
  BY <1>3 DEF SimOnOutputChanged
<1>4. CASE Reboot \/ Load
  BY <1>4 DEF Reboot, Load, pushed
<1> QED
  BY <1>1, <1>2, <1>3, <1>4 DEF Next, Sides

-----------------------------------------------------------------------------
(* Positions and the mouse *)

LEMMA PositionsInit == Init => PositionsOK
BY DEF Init, PositionsOK, MouseOK, Positions

LEMMA PositionsStep == PositionsOK /\ [Next]_vars => PositionsOK'
<1> SUFFICES ASSUME PositionsOK, [Next]_vars
             PROVE  PositionsOK'
  OBVIOUS
<1>1. stateM' \in [Buttons -> Positions]
  BY ButtonSteps DEF PositionsOK, SetState, vars, pushed
<1>2. MouseOK'
  <2>1. ASSUME NEW b \in Buttons, NEW side \in Sides, Press(b, side)
        PROVE  MouseOK'
    BY <2>1 DEF Press, PositionsOK, MouseOK
  <2>2. ASSUME NEW side \in Sides, Release(side)
        PROVE  MouseOK'
    <3>1. mouse' = [held |-> mouse.held \ {side}, on |-> mouse.on]
      BY <2>2 DEF Release, PositionsOK, MouseOK
    <3> QED
      BY <3>1 DEF PositionsOK, MouseOK
  <2>3. CASE UNCHANGED mouse
    BY <2>3 DEF PositionsOK, MouseOK
  <2>4. ASSUME NEW out \in Outputs, NEW on \in BOOLEAN, SimOnOutputChanged(out, on)
        PROVE  UNCHANGED mouse
    BY <2>4 DEF SimOnOutputChanged
  <2>5. CASE Reboot \/ Load \/ UNCHANGED vars
    BY <2>5, <2>3 DEF Reboot, Load, pushed, vars
  <2> QED
    BY <2>1, <2>2, <2>3, <2>4, <2>5 DEF Next, Sides
<1> QED
  BY <1>1, <1>2 DEF PositionsOK

\* The buttons have positions (m_state of TtlacAZD), and the mouse is held on
\* one of them.
THEOREM PositionsType == Spec => []PositionsOK
BY PositionsInit, PositionsStep, PTL DEF Spec

-----------------------------------------------------------------------------
(* Contacts *)

LEMMA ContactsInit == Init => ContactsSound
<1> SUFFICES ASSUME Init
             PROVE  ContactsSound
  OBVIOUS
<1>1. inputs = {} /\ \A b \in Buttons : stateM[b] = "zakladni"
  BY DEF Init
<1> QED
  BY <1>1 DEF ContactsSound, BothClosed, InputsFollowButtons

LEMMA ContactsStep == PositionsOK /\ ContactsSound /\ [Next]_vars => ContactsSound'
<1> SUFFICES ASSUME PositionsOK, ContactsSound, [Next]_vars
             PROVE  ContactsSound'
  OBVIOUS
<1>1. CASE UNCHANGED <<stateM, inputs, missed>>
  BY <1>1 DEF ContactsSound, InputsFollowButtons
<1>2. CASE UNCHANGED vars
  BY <1>1, <1>2 DEF vars, pushed
<1> QED
  BY <1>1, <1>2, ButtonSteps, SetStateContacts

LEMMA ContactsInvariant == Spec => []ContactsSound
BY PositionsType, ContactsInit, ContactsStep, PTL DEF Spec

\* The events of setState publish both contacts of a button as closed only as
\* BothClosedInPassing says.
LEMMA SetStatePublishes ==
  ASSUME PositionsOK, ContactsSound, NEW b \in Buttons, NEW state \in Positions,
         SetState(b, state), NEW d \in Buttons, NEW i \in DOMAIN published',
         BothClosed(d, published'[i])
  PROVE  /\ stateM'[d] = "macknute" /\ (stateM[d] = "vytazene" \/ d \in missed)
         /\ i < Len(published') /\ ~BothClosed(d, published'[i + 1])
<1>1. stateM[b] # state /\ active /\ published' = Published(b, state)
  BY DEF SetState, ContactsChanged
<1>2. Unwired \notin inputs /\ ~BothClosed(d, inputs)
  BY DEF ContactsSound
<1>3. published'[i] \in {AfterPush(b, state), Signalled(b, state)}
  BY <1>1, PublishedEvents
<1>4. ~BothClosed(d, Signalled(b, state))
  <2>1. CASE d = b
    BY <2>1, <1>2, SignalledContacts DEF BothClosed, Positions
  <2>2. CASE d # b
    BY <2>2, <1>2, SignalledContacts DEF BothClosed
  <2> QED
    BY <2>1, <2>2
<1>5. BothClosed(d, AfterPush(b, state)) /\ published'[i] = AfterPush(b, state)
  BY <1>3, <1>4
<1>6. d = b
  BY <1>2, <1>5, AfterPushContacts DEF BothClosed
<1>7. Unwired \notin {Wiring[b].push, Wiring[b].pull}
  BY <1>2, <1>5, <1>6, AfterPushContacts DEF BothClosed
<1>8. Len(published') = 2 /\ published'[2] = Signalled(b, state)
  BY <1>1, <1>7, PublishedEvents
<1>9. state = "macknute" /\ Wiring[b].pull \in inputs
  BY <1>2, <1>5, <1>6, <1>7, AfterPushContacts DEF BothClosed
<1>10. stateM'[d] = "macknute"
  BY <1>6, <1>9 DEF SetState, PositionsOK
<1>11. stateM[d] = "vytazene" \/ d \in missed
  BY <1>6, <1>7, <1>9 DEF ContactsSound, InputsFollowButtons
<1>12. i < Len(published') /\ ~BothClosed(d, published'[i + 1])
  <2>1. i \in {1, 2}
    BY <1>1, <1>8, PublishedEvents
  <2>2. i # 2
    BY <1>4, <1>5, <1>8
  <2>3. i = 1
    BY <2>1, <2>2
  <2> QED
    BY <2>3, <1>4, <1>8
<1> QED
  BY <1>10, <1>11, <1>12

\* Subscribers see both contacts of a button as closed only when it is pushed
\* while the module holds it for pulled, and until the handler's next event
\* (setState of TtlacAZD); between handlers the module never has both closed.
THEOREM BothCloseOnlyInPassing == Spec => BothClosedInPassing
<1> DEFINE Passing ==
      \A b \in Buttons :
        /\ ~BothClosed(b, inputs')
        /\ \A i \in DOMAIN published' :
             BothClosed(b, published'[i]) =>
               /\ stateM'[b] = "macknute" /\ (stateM[b] = "vytazene" \/ b \in missed)
               /\ i < Len(published') /\ ~BothClosed(b, published'[i + 1])
<1>1. PositionsOK /\ ContactsSound /\ ContactsSound' /\ [Next]_vars => [Passing]_vars
  <2> SUFFICES ASSUME PositionsOK, ContactsSound, ContactsSound', Next
               PROVE  Passing
    OBVIOUS
  <2>1. \A b \in Buttons : ~BothClosed(b, inputs')
    BY DEF ContactsSound, BothClosed
  <2>2. CASE published' = <<>>
    BY <2>1, <2>2
  <2>3. ASSUME NEW b \in Buttons, NEW state \in Positions, SetState(b, state)
        PROVE  Passing
    BY <2>1, <2>3, SetStatePublishes
  <2> QED
    BY <2>2, <2>3, ButtonSteps
<1> QED
  BY <1>1, PositionsType, ContactsInvariant, PTL DEF Spec, BothClosedInPassing

\* The module's inputs are those of the buttons' positions, but for the buttons
\* whose last move it missed (MtbUnis::mtbBusInputsChanged when not active).
THEOREM InputsKeepUp == Spec => []InputsFollowButtons
<1>1. ContactsSound => InputsFollowButtons
  BY DEF ContactsSound
<1> QED
  BY <1>1, ContactsInvariant, PTL

-----------------------------------------------------------------------------
(* Springs *)

LEMMA InPlaceInit == Init => OthersInPlace
BY DEF Init, OthersInPlace, InPlace

LEMMA InPlaceStep == PositionsOK /\ OthersInPlace /\ [Next]_vars => OthersInPlace'
<1> SUFFICES ASSUME PositionsOK, OthersInPlace, [Next]_vars,
                    NEW d \in Buttons
             PROVE  InPlace(d)' \/ (mouse'.held # {} /\ d = mouse'.on)
  BY DEF OthersInPlace
<1>1. ASSUME stateM'[d] = stateM[d], InPlace(d)
      PROVE  InPlace(d)'
  BY <1>1 DEF InPlace
<1>2. ASSUME NEW b \in Buttons, NEW side \in Sides, Press(b, side)
      PROVE  InPlace(d)' \/ (mouse'.held # {} /\ d = mouse'.on)
  <2>1. mouse'.held # {} /\ mouse'.on = b /\ (mouse.held = {} \/ mouse.on = b)
    BY <1>2 DEF Press
  <2>2. CASE d = b
    BY <2>1, <2>2
  <2>3. CASE d # b
    <3>1. InPlace(d)
      BY <2>1, <2>3 DEF OthersInPlace
    <3>2. stateM'[d] = stateM[d]
      BY <1>2, <2>3, PressSets DEF SetState, PositionsOK
    <3> QED
      BY <3>1, <3>2, <1>1
  <2> QED
    BY <2>2, <2>3
<1>3. ASSUME NEW side \in Sides, Release(side)
      PROVE  InPlace(d)'
  <2>1. SetState(mouse.on, IF Springs(mouse.on) THEN "zakladni" ELSE stateM[mouse.on])
    BY <1>3 DEF Release
  <2>2. CASE d # mouse.on
    <3>1. stateM'[d] = stateM[d]
      BY <2>1, <2>2 DEF SetState, PositionsOK
    <3> QED
      BY <1>1, <2>2, <3>1 DEF OthersInPlace
  <2>3. CASE d = mouse.on /\ Springs(d)
    <3>1. stateM'[d] = "zakladni"
      BY <2>1, <2>3 DEF SetState, PositionsOK
    <3> QED
      BY <3>1 DEF InPlace
  <2>4. CASE d = mouse.on /\ ~Springs(d)
    <3>1. stateM'[d] = stateM[d] /\ stateM[d] \in Positions
      BY <2>1, <2>4 DEF SetState, PositionsOK
    <3>2. InPlace(d)
      BY <3>1, <2>4 DEF Springs, InPlace, Positions
    <3> QED
      BY <1>1, <3>1, <3>2
  <2> QED
    BY <2>2, <2>3, <2>4
<1>4. CASE UNCHANGED <<stateM, mouse>>
  BY <1>4 DEF OthersInPlace, InPlace
<1>5. ASSUME NEW out \in Outputs, NEW on \in BOOLEAN, SimOnOutputChanged(out, on)
      PROVE  UNCHANGED <<stateM, mouse>>
  BY <1>5 DEF SimOnOutputChanged
<1>6. CASE Reboot \/ Load \/ UNCHANGED vars
  BY <1>6, <1>4 DEF Reboot, Load, pushed, vars
<1> QED
  BY <1>2, <1>3, <1>4, <1>5, <1>6 DEF Next, Sides

\* With the mouse let go, every button is at rest or where it latches
\* (mouseReleaseEvent): the mouse holds one button at a time.
THEOREM ButtonsSpringBack == Spec => []SpringsBack
<1>1. Spec => []OthersInPlace
  BY PositionsType, InPlaceInit, InPlaceStep, PTL DEF Spec
<1>2. OthersInPlace => SpringsBack
  BY DEF OthersInPlace, InPlace, SpringsBack
<1> QED
  BY <1>1, <1>2, PTL

-----------------------------------------------------------------------------
(* Lamps *)

LEMMA LampsInit == Init => LampsSound
<1> SUFFICES ASSUME Init
             PROVE  LampsSound
  OBVIOUS
<1>1. /\ lit = {}
      /\ lamps = [stateLit |-> {}, bila |-> {}, cervena |-> {}, zarovka |-> {}]
      /\ icon = [b \in Buttons |-> Icon(b, "zakladni", FALSE)]
      /\ stateM = [b \in Buttons |-> "zakladni"]
      /\ aspect = [s \in Signals |-> "zakladni"]
  BY DEF Init
<1>2. aspect = [s \in Signals |-> Aspect(Lamps[s].white \in lit, Lamps[s].red \in lit)]
  BY <1>1 DEF Aspect
<1>3. icon = [b \in Buttons |-> Icon(b, stateM[b], Wiring[b].lamp \in lit)]
  BY <1>1 DEF Icon
<1> QED
  BY <1>1, <1>2, <1>3 DEF LampsSound

\* An element wired to an output is lit with it, and no other element is.
LEMMA OutputStep ==
  ASSUME LampsSound, NEW out \in Outputs, NEW on \in BOOLEAN, SimOnOutputChanged(out, on)
  PROVE  LampsSound'
<1>1. lit' = Switched(lit, {out}, on) /\ lit' \subseteq Outputs
  BY DEF SimOnOutputChanged, Switched, LampsSound
<1>2. lamps' = [stateLit |-> {b \in Buttons : Wiring[b].lamp \in lit'},
                bila     |-> {s \in Signals : Lamps[s].white \in lit'},
                cervena  |-> {s \in Signals : Lamps[s].red \in lit'},
                zarovka  |-> {i \in Indicators : Bulb[i] \in lit'}]
  <2>1. Switched(lamps.stateLit, ButtonsAt(out), on) = {b \in Buttons : Wiring[b].lamp \in lit'}
    BY <1>1 DEF Switched, LampsSound, ButtonsAt
  <2>2. Switched(lamps.bila, WhiteAt(out), on) = {s \in Signals : Lamps[s].white \in lit'}
    BY <1>1 DEF Switched, LampsSound, WhiteAt
  <2>3. Switched(lamps.cervena, RedAt(out), on) = {s \in Signals : Lamps[s].red \in lit'}
    BY <1>1 DEF Switched, LampsSound, RedAt
  <2>4. Switched(lamps.zarovka, IndicatorsAt(out), on) = {i \in Indicators : Bulb[i] \in lit'}
    BY <1>1 DEF Switched, LampsSound, IndicatorsAt
  <2> QED
    BY <2>1, <2>2, <2>3, <2>4 DEF SimOnOutputChanged
<1>3. ASSUME NEW e, e # out
      PROVE  e \in lit' <=> e \in lit
  BY <1>1, <1>3 DEF Switched
<1>4. out \in lit' <=> on
  BY <1>1 DEF Switched
<1>5. icon' = [b \in Buttons |-> Icon(b, stateM'[b], Wiring[b].lamp \in lit')]
  <2>1. icon' = [b \in Buttons |-> IF b \in ButtonsAt(out) THEN Icon(b, stateM[b], on) ELSE icon[b]]
        /\ stateM' = stateM
    BY DEF SimOnOutputChanged, ButtonLampChanged
  <2>2. ASSUME NEW b \in Buttons
        PROVE  (IF b \in ButtonsAt(out) THEN Icon(b, stateM[b], on) ELSE icon[b])
                 = Icon(b, stateM[b], Wiring[b].lamp \in lit')
    <3>1. CASE Wiring[b].lamp = out
      BY <3>1, <1>4 DEF ButtonsAt, Icon
    <3>2. CASE Wiring[b].lamp # out
      <4>1. icon[b] = Icon(b, stateM[b], Wiring[b].lamp \in lit) /\ b \notin ButtonsAt(out)
        BY <3>2 DEF LampsSound, ButtonsAt
      <4>2. Wiring[b].lamp \in lit' <=> Wiring[b].lamp \in lit
        BY <1>3, <3>2
      <4> QED
        BY <4>1, <4>2 DEF Icon
    <3> QED
      BY <3>1, <3>2
  <2> QED
    BY <2>1, <2>2
<1>6. aspect' = [s \in Signals |-> Aspect(Lamps[s].white \in lit', Lamps[s].red \in lit')]
  <2>1. aspect' = [s \in Signals |-> IF s \in WhiteAt(out) \cup RedAt(out)
                                     THEN Aspect(s \in lamps'.bila, s \in lamps'.cervena)
                                     ELSE aspect[s]]
    BY DEF SimOnOutputChanged, SignalLampChanged
  <2>2. ASSUME NEW s \in Signals
        PROVE  (IF s \in WhiteAt(out) \cup RedAt(out)
                THEN Aspect(s \in lamps'.bila, s \in lamps'.cervena) ELSE aspect[s])
                 = Aspect(Lamps[s].white \in lit', Lamps[s].red \in lit')
    <3>1. CASE s \in WhiteAt(out) \cup RedAt(out)
      <4>1. /\ s \in lamps'.bila <=> Lamps[s].white \in lit'
            /\ s \in lamps'.cervena <=> Lamps[s].red \in lit'
        BY <1>2
      <4> QED
        BY <3>1, <4>1 DEF Aspect
    <3>2. CASE s \notin WhiteAt(out) \cup RedAt(out)
      <4>1. Lamps[s].white # out /\ Lamps[s].red # out
        BY <3>2 DEF WhiteAt, RedAt
      <4>2. /\ Lamps[s].white \in lit' <=> Lamps[s].white \in lit
            /\ Lamps[s].red \in lit' <=> Lamps[s].red \in lit
        BY <4>1, <1>3
      <4>3. aspect[s] = Aspect(Lamps[s].white \in lit, Lamps[s].red \in lit)
        BY DEF LampsSound
      <4> QED
        BY <3>2, <4>2, <4>3 DEF Aspect
    <3> QED
      BY <3>1, <3>2
  <2> QED
    BY <2>1, <2>2
<1> QED
  BY <1>1, <1>2, <1>5, <1>6 DEF LampsSound

LEMMA LampsStep == PositionsOK /\ LampsSound /\ [Next]_vars => LampsSound'
<1> SUFFICES ASSUME PositionsOK, LampsSound, [Next]_vars
             PROVE  LampsSound'
  OBVIOUS
<1>1. ASSUME UNCHANGED <<stateM, icon, shown>>
      PROVE  LampsSound'
  BY <1>1 DEF LampsSound, shown
<1>2. ASSUME NEW b \in Buttons, NEW side \in Sides, Press(b, side)
      PROVE  LampsSound'
  <2>1. UNCHANGED shown
    BY <1>2 DEF Press
  <2>2. CASE UNCHANGED <<stateM, inputs, missed, icon>> /\ published' = <<>>
    BY <1>1, <2>1, <2>2
  <2>3. ASSUME NEW state \in Positions, SetState(b, state)
        PROVE  LampsSound'
    BY <2>1, <2>3, SetStateIcons
  <2> QED
    BY <1>2, <2>2, <2>3, PressSets
<1>3. ASSUME NEW side \in Sides, Release(side)
      PROVE  LampsSound'
  <2>1. UNCHANGED shown
    BY <1>3 DEF Release
  <2> QED
    BY <1>3, <2>1, ReleaseSets, SetStateIcons
<1>4. ASSUME NEW out \in Outputs, NEW on \in BOOLEAN, SimOnOutputChanged(out, on)
      PROVE  LampsSound'
  BY <1>4, OutputStep
<1>5. CASE Reboot \/ Load \/ UNCHANGED vars
  BY <1>5, <1>1 DEF Reboot, Load, pushed, vars
<1> QED
  BY <1>2, <1>3, <1>4, <1>5 DEF Next, Sides

LEMMA LampsInvariant == Spec => []LampsSound
BY PositionsType, LampsInit, LampsStep, PTL DEF Spec

\* Every icon shows the position and the lamp of its button, whichever of the
\* two changed last (setState and updateState of TtlacAZD).
THEOREM IconsShowButtons == Spec => []ButtonsShowState
<1>1. LampsSound => ButtonsShowState
  BY DEF LampsSound, ButtonsShowState
<1> QED
  BY <1>1, LampsInvariant, PTL

\* Every signal shows the lamps that are on, red before white, and every
\* indicator its bulb (updateState of TprusvAZD, simOnOutputChanged).
THEOREM SignalsShowRedFirst == Spec => []SignalsShowLamps
<1>1. LampsSound => SignalsShowLamps
  <2> SUFFICES ASSUME LampsSound
               PROVE  SignalsShowLamps
    OBVIOUS
  <2>1. ASSUME NEW s \in Signals
        PROVE  aspect[s] = IF Lamps[s].red \in lit THEN "cervena"
                           ELSE IF Lamps[s].white \in lit THEN "bila" ELSE "zakladni"
    BY DEF LampsSound, Aspect
  <2>2. ASSUME NEW i \in Indicators
        PROVE  i \in lamps.zarovka <=> Bulb[i] \in lit
    BY DEF LampsSound
  <2> QED
    BY <2>1, <2>2 DEF SignalsShowLamps
<1> QED
  BY <1>1, LampsInvariant, PTL
=============================================================================
