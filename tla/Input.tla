------------------------------- MODULE Input --------------------------------
(***************************************************************************)
(* Keys and pad buttons: org.jrgss.api.Input.  update compares what is down*)
(* with what was down in the update before; the script asks for symbols,   *)
(* each bound to several keys and buttons.  Without the focus every button *)
(* counts as released, because pads cannot be asked then.                  *)
(*                                                                         *)
(* A set stands for a map from buttons to Boolean; known is the domain of  *)
(* isPressed.  A button is handled in no time: the clock is read twice for *)
(* it in the code.                                                         *)
(***************************************************************************)
EXTENDS Integers

CONSTANTS
    Keyboard,     \* the keys, 1 to 255 in the code
    Pad,          \* the buttons of the first pad, from GAMEPAD_START
    Symbols,      \* what a script may ask for
    Bindings,     \* the buttons bound to a symbol, where it is bound
    RepeatDelay   \* 200 ms, in ticks of the clock

Buttons == Keyboard \cup Pad
Directions == {"DOWN", "LEFT", "RIGHT", "UP"}

ASSUME InputAssumption ==
    /\ Keyboard \cap Pad = {}
    /\ Directions \subseteq Symbols
    /\ DOMAIN Bindings \subseteq Symbols
    /\ \A sym \in DOMAIN Bindings : Bindings[sym] \subseteq Buttons
    /\ RepeatDelay \in Nat

VARIABLES
    down,           \* what is down
    focused,        \* the window has the focus
    hasPad,         \* a pad was found at the start
    known,          \* the buttons isPressed has an entry for
    isPressed,
    triggerStatus,
    repeatStatus,
    age,            \* the time since repeatTimestamps, up to RepeatDelay
    active,         \* the last update saw the focus
    quiet           \* the time since a button was last reported as repeated

status == <<known, isPressed, triggerStatus, repeatStatus>>
history == <<active, quiet>>
vars == <<down, focused, hasPad, status, age, history>>

\* What can be down at all.
Present == Keyboard \cup (IF hasPad THEN Pad ELSE {})

TypeOK ==
    /\ down \subseteq Present
    /\ focused \in BOOLEAN
    /\ hasPad \in BOOLEAN
    /\ known \subseteq Present
    /\ isPressed \subseteq known
    /\ triggerStatus \subseteq known
    /\ repeatStatus \subseteq known
    /\ age \in [Buttons -> 0 .. RepeatDelay]
    /\ active \in BOOLEAN
    /\ quiet \in [Buttons -> 0 .. RepeatDelay]

Init ==
    /\ hasPad \in BOOLEAN
    /\ down = {}
    /\ focused \in BOOLEAN
    /\ known = {}
    /\ isPressed = {}
    /\ triggerStatus = {}
    /\ repeatStatus = {}
    /\ age = [b \in Buttons |-> 0]
    /\ active = FALSE
    /\ quiet = [b \in Buttons |-> RepeatDelay]

-----------------------------------------------------------------------------
(* update.                                                                   *)

\* Of the buttons found down, those that were not before, and those that were
\* and have waited long enough since their timestamp.
Began(current) == current \ isPressed
Again(current) == {b \in current \cap isPressed : age[b] >= RepeatDelay}

\* A trigger is cleared by the release, not by the next update.
PutTrigger_ClearedByRelease(polled, current) ==
    triggerStatus' = (triggerStatus \ (polled \ current)) \cup Began(current)

PutTrigger(polled, current) ==
    triggerStatus' = (triggerStatus \ polled) \cup Began(current)

\* A release leaves the repeat as it is.
PutRepeat_KeptByRelease(polled, current) ==
    repeatStatus' = (repeatStatus \ (polled \cap current))
                        \cup Began(current) \cup Again(current)

PutRepeat(polled, current) ==
    repeatStatus' = (repeatStatus \ polled) \cup Began(current) \cup Again(current)

\* The timestamp is not set again when a held button repeats.
PutTimestamp_FirstOnly(current) ==
    age' = [b \in Buttons |-> IF b \in Began(current) THEN 0 ELSE age[b]]

PutTimestamp(current) ==
    age' = [b \in Buttons |-> IF b \in Began(current) \cup Again(current) THEN 0 ELSE age[b]]

\* updateKey for the buttons polled, of which current are found down.
UpdateKeys(polled, current) ==
    /\ known' = known \cup polled
    /\ isPressed' = (isPressed \ polled) \cup current
    /\ PutTrigger(polled, current)
    /\ PutRepeat(polled, current)
    /\ PutTimestamp(current)

\* The pad is asked without looking whether there is one.
Polled_NoPadTest == IF focused THEN Buttons ELSE known

\* Without the focus only the keyboard is released.
Polled_KeyboardOnly == IF focused THEN Present ELSE known \cap Keyboard

\* What update goes through: with the focus all keys, and the pad if there is
\* one; without it the entries of isPressed.
Polled == IF focused THEN Present ELSE known

Current == IF focused THEN down \cap Polled ELSE {}

\* Input.update
Update ==
    /\ UpdateKeys(Polled, Current)
    /\ active' = focused
    /\ quiet' = [b \in Buttons |-> IF b \in repeatStatus' THEN 0 ELSE quiet[b]]
    /\ UNCHANGED <<down, focused, hasPad>>

\* Graphics.update handles the messages of the window: what is down and the
\* focus change there and nowhere else.
Messages ==
    /\ down' \in SUBSET Present
    /\ focused' \in BOOLEAN
    /\ UNCHANGED <<hasPad, status, age, history>>

Tick ==
    LET later(f) == [b \in Buttons |-> IF f[b] < RepeatDelay THEN f[b] + 1 ELSE f[b]]
    IN  /\ age' = later(age)
        /\ quiet' = later(quiet)
        /\ UNCHANGED <<down, focused, hasPad, status, active>>

Next == Update \/ Messages \/ Tick

Spec == Init /\ [][Next]_vars

-----------------------------------------------------------------------------
(* What the script sees.                                                     *)

\* convertSymToKey; a symbol that is not bound has key 0, which is never polled
KeysOf(sym) == IF sym \in DOMAIN Bindings THEN Bindings[sym] ELSE {}

\* press?, trigger? and repeat?
Press(sym) == KeysOf(sym) \cap isPressed # {}
Trigger(sym) == KeysOf(sym) \cap triggerStatus # {}
Repeat(sym) == KeysOf(sym) \cap repeatStatus # {}

\* The tests of dir4 overwrite one another: the last that holds counts.
Dir4 ==
    CASE Press("UP") -> 8
      [] Press("RIGHT") /\ ~Press("UP") -> 6
      [] Press("LEFT") /\ ~Press("RIGHT") /\ ~Press("UP") -> 4
      [] Press("DOWN") /\ ~Press("LEFT") /\ ~Press("RIGHT") /\ ~Press("UP") -> 2
      [] OTHER -> 0

-----------------------------------------------------------------------------
(* Properties.                                                               *)

K == INSTANCE Keypad WITH held <- isPressed, fresh <- triggerStatus

\* Input.update reports each press once, at the update that first sees it, and
\* never a trigger of what is not held, across any loss of the focus: the
\* statuses update keeps implement the keypad.
KeypadSpec == K!Spec

\* The three questions agree at each moment: a symbol that triggers repeats, one
\* that repeats is pressed, and dir4 is a direction just when one is pressed.
\* Each answer comes from a map of its own, written on different branches of
\* updateKey.
StatusesAgree ==
    /\ \A sym \in Symbols : (Trigger(sym) => Repeat(sym)) /\ (Repeat(sym) => Press(sym))
    /\ Dir4 # 0 <=> \E sym \in Directions : Press(sym)

\* After an update without the focus no symbol is pressed, triggers or repeats,
\* be it of the keyboard or of the pad (the comment in Input.update), though
\* that update goes only through the buttons some update has seen.
ReleasedOutOfFocus ==
    ~active => \A sym \in Symbols : ~Press(sym) /\ ~Trigger(sym) /\ ~Repeat(sym)

\* A button that stays held is reported again when, and only when, the delay has
\* passed since it was last reported, for the first time or again.
RepeatPaced ==
    [][Update => \A b \in isPressed \cap isPressed' :
                     b \in repeatStatus' <=> quiet[b] >= RepeatDelay]_vars
=============================================================================
