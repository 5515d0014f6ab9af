---------------------------- MODULE InputProofs -----------------------------
(* What the input promises, for any keyboard, pad, bindings and delay, and   *)
(* that it implements the keypad.                                            *)
EXTENDS Input, TLAPS

\* What triggers has just been found down, so it repeats too; what repeats is
\* pressed.
Nested == triggerStatus \subseteq repeatStatus /\ repeatStatus \subseteq isPressed

\* After an update without the focus nothing is pressed.
Released == ~active => isPressed = {}

\* repeatTimestamps of a pressed button is the time of its last report.
Stamped == \A b \in isPressed : age[b] = quiet[b]

Inv == TypeOK /\ Nested /\ Released /\ Stamped

\* What an update goes through are all the buttons that may be pressed, and it
\* finds no other button down.
LEMMA PolledIsKnown ==
    ASSUME TypeOK
    PROVE  known \subseteq Polled /\ Polled \subseteq Present /\ Current \subseteq Polled
  BY DEF TypeOK, Polled, Current, Present

LEMMA InvInit == Init => Inv
<1> SUFFICES ASSUME Init PROVE Inv
  OBVIOUS
<1>1. age \in [Buttons -> 0 .. RepeatDelay] /\ quiet \in [Buttons -> 0 .. RepeatDelay]
  BY InputAssumption DEF Init
<1>2. TypeOK
  BY <1>1 DEF Init, TypeOK
<1> QED
  BY <1>2 DEF Init, Inv, Nested, Released, Stamped

\* After an update, what is pressed is what was found down.
LEMMA UpdateStatus ==
    ASSUME TypeOK, Nested, Update
    PROVE  /\ isPressed' = Current
           /\ triggerStatus' = Began(Current)
           /\ repeatStatus' = Began(Current) \cup Again(Current)
           /\ age' = [b \in Buttons |-> IF b \in repeatStatus' THEN 0 ELSE age[b]]
<1>1. isPressed \subseteq Polled
  BY PolledIsKnown DEF TypeOK
<1>2. triggerStatus \subseteq Polled /\ repeatStatus \subseteq Polled
  BY <1>1 DEF Nested
<1>3. /\ isPressed' = Current
      /\ triggerStatus' = Began(Current)
      /\ repeatStatus' = Began(Current) \cup Again(Current)
  BY <1>1, <1>2 DEF Update, UpdateKeys, PutTrigger, PutRepeat
<1>4. age' = [b \in Buttons |-> IF b \in repeatStatus' THEN 0 ELSE age[b]]
  BY <1>3 DEF Update, UpdateKeys, PutTimestamp
<1> QED
  BY <1>3, <1>4

LEMMA InvNext == Inv /\ [Next]_vars => Inv'
<1> SUFFICES ASSUME Inv, [Next]_vars PROVE Inv'
  OBVIOUS
<1> USE DEF Inv
<1>1. CASE Update
  <2>1. hasPad' = hasPad /\ down' = down /\ focused' = focused /\ active' = focused
    BY <1>1 DEF Update
  <2>2. known' = known \cup Polled
    BY <1>1 DEF Update, UpdateKeys
  <2>3. quiet' = [b \in Buttons |-> IF b \in repeatStatus' THEN 0 ELSE quiet[b]]
    BY <1>1 DEF Update
  <2>4. TypeOK'
    <3>1. known' \subseteq Present' /\ Current \subseteq known'
      BY <2>1, <2>2, PolledIsKnown DEF TypeOK, Present
    <3>2. repeatStatus' \subseteq Current /\ triggerStatus' \subseteq Current
      BY <1>1, UpdateStatus DEF Began, Again
    <3>3. age' \in [Buttons -> 0 .. RepeatDelay]
      BY <1>1, UpdateStatus, InputAssumption DEF TypeOK
    <3>4. quiet' \in [Buttons -> 0 .. RepeatDelay]
      BY <2>3, InputAssumption DEF TypeOK
    <3> QED
      BY <1>1, <2>1, <3>1, <3>2, <3>3, <3>4, UpdateStatus DEF TypeOK, Present
  <2>5. Nested'
    BY <1>1, UpdateStatus DEF Nested, Began, Again
  <2>6. Released'
    BY <1>1, <2>1, UpdateStatus DEF Released, Current
  <2>7. Stamped'
    <3>1. Current \subseteq Buttons
      BY PolledIsKnown DEF Present, Buttons
    <3> SUFFICES ASSUME NEW b \in Current PROVE age'[b] = quiet'[b]
      BY <1>1, UpdateStatus DEF Stamped
    <3>2. CASE b \in repeatStatus'
      BY <1>1, <2>3, <3>1, <3>2, UpdateStatus
    <3>3. CASE b \notin repeatStatus'
      <4>1. b \in isPressed
        BY <1>1, <3>3, UpdateStatus DEF Began
      <4> QED
        BY <1>1, <2>3, <3>1, <3>3, <4>1, UpdateStatus DEF Stamped
    <3> QED
      BY <3>2, <3>3
  <2> QED
    BY <2>4, <2>5, <2>6, <2>7
<1>2. CASE Messages
  BY <1>2 DEF Messages, status, history, TypeOK, Nested, Released, Stamped, Present
<1>3. CASE Tick
  <2>1. isPressed \subseteq Buttons
    BY DEF TypeOK, Present, Buttons
  <2>2. age' \in [Buttons -> 0 .. RepeatDelay] /\ quiet' \in [Buttons -> 0 .. RepeatDelay]
    BY <1>3, InputAssumption DEF Tick, TypeOK
  <2>3. Stamped'
    BY <1>3, <2>1 DEF Tick, status, Stamped
  <2> QED
    BY <1>3, <2>2, <2>3 DEF Tick, status, TypeOK, Nested, Released, Present
<1>4. CASE UNCHANGED vars
  BY <1>4 DEF vars, status, history, TypeOK, Nested, Released, Stamped, Present
<1> QED
  BY <1>1, <1>2, <1>3, <1>4 DEF Next

LEMMA InvCorrect == Spec => []Inv
  BY InvInit, InvNext, PTL DEF Spec

-----------------------------------------------------------------------------

\* Every variable keeps its type; no button has a status that no update has seen.
THEOREM TypeCorrect == Spec => []TypeOK
<1>1. Inv => TypeOK
  BY DEF Inv
<1> QED
  BY <1>1, InvCorrect, PTL

\* trigger?, repeat?, press? and dir4 agree at each moment.
THEOREM StatusesDoAgree == Spec => []StatusesAgree
<1>1. Inv => StatusesAgree
  <2>1. ASSUME Inv
        PROVE  \A sym \in Symbols : (Trigger(sym) => Repeat(sym)) /\ (Repeat(sym) => Press(sym))
    BY <2>1 DEF Inv, Nested, Trigger, Repeat, Press
  <2>2. Dir4 # 0 <=> \E sym \in Directions : Press(sym)
    BY DEF Dir4, Directions
  <2> QED
    BY <2>1, <2>2 DEF StatusesAgree
<1> QED
  BY <1>1, InvCorrect, PTL

\* Nothing is held, triggers or repeats after an update without the focus.
THEOREM OutOfFocusIsReleased == Spec => []ReleasedOutOfFocus
<1>1. Inv => ReleasedOutOfFocus
  BY DEF Inv, Nested, Released, ReleasedOutOfFocus, Trigger, Repeat, Press
<1> QED
  BY <1>1, InvCorrect, PTL

\* A held button is reported again exactly when the delay has passed.
THEOREM RepeatIsPaced == Spec => RepeatPaced
<1>1. Inv /\ [Next]_vars =>
        [Update => \A b \in isPressed \cap isPressed' :
                       b \in repeatStatus' <=> quiet[b] >= RepeatDelay]_vars
  <2> SUFFICES ASSUME Inv, Update, NEW b \in isPressed, b \in isPressed'
               PROVE  b \in repeatStatus' <=> quiet[b] >= RepeatDelay
    OBVIOUS
  <2>1. b \in Current /\ age[b] = quiet[b]
    BY UpdateStatus DEF Inv, Stamped
  <2> QED
    BY <2>1, UpdateStatus DEF Inv, Began, Again
<1> QED
  BY <1>1, InvCorrect, PTL DEF Spec, RepeatPaced

\* Keyboard, pad, focus and clock together show the game nothing but a keypad.
THEOREM ImplementsKeypad == Spec => KeypadSpec
<1>1. Init => K!Init
  BY DEF Init, K!Init
<1>2. Inv /\ [Next]_vars => [K!Observe]_<<isPressed, triggerStatus>>
  <2> SUFFICES ASSUME Inv, [Next]_vars
               PROVE  [K!Observe]_<<isPressed, triggerStatus>>
    OBVIOUS
  <2>1. CASE Update
    <3>1. Current \subseteq Buttons
      BY PolledIsKnown DEF Inv, Present, Buttons
    <3> QED
      BY <2>1, <3>1, UpdateStatus DEF Inv, Began, K!Observe
  <2>2. CASE Messages \/ Tick \/ UNCHANGED vars
    BY <2>2 DEF Messages, Tick, vars, status
  <2> QED
    BY <2>1, <2>2 DEF Next
<1> QED
  BY <1>1, <1>2, InvCorrect, PTL DEF Spec, KeypadSpec, K!Spec
=============================================================================
