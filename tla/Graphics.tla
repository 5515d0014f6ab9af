------------------------------ MODULE Graphics ------------------------------
(***************************************************************************)
(* The screen: org.jrgss.api.Graphics, whose calls run the frames of the   *)
(* game (update) from the script's own thread.  freeze, transition, fades, *)
(* wait and snap_to_bitmap share the static fields brightness, backBuffer, *)
(* backBufferOpacity, transitioning and tempBuffer.                        *)
(*                                                                         *)
(* What the script draws is a version of the scene; a framebuffer holds the*)
(* scene that was rendered to it and has a size.  It is cleared with alpha *)
(* 0 before: what is drawn from it hides what is under it only where the   *)
(* scene has left alpha 1.  An exception out of a frame is not rescued: it *)
(* ends the program.                                                       *)
(***************************************************************************)
EXTENDS Integers

CONSTANTS
    Scenes,       \* versions of what the script draws
    Toned,        \* those of them that have a viewport with a tone
    Solid,        \* those that leave alpha 1 in every pixel of a framebuffer
    Sizes,        \* sizes of the screen
    Durations,    \* the durations a script asks for
    Levels,       \* the values it gives brightness
    None,         \* null
    Blank,        \* the scene of a framebuffer nothing was rendered to
    Part          \* that of one which got only a part of a scene, or two mixed

ASSUME GraphicsAssumption ==
    /\ Toned \subseteq Scenes /\ Solid \subseteq Scenes
    /\ {Blank, Part} \cap Scenes = {}
    /\ Durations \subseteq 0 .. 255
    /\ Levels \subseteq 0 .. 255
    /\ None \notin [of : Scenes \cup {Blank, Part}, size : Sizes] \cup 0 .. 255

VARIABLES
    scene,         \* what the script has drawn
    size,          \* desiredWidth, desiredHeight
    brightness,
    backBuffer,    \* the frozen picture, or None
    opacity,       \* backBufferOpacity, a fraction <<i, d>>
    transitioning,
    texture,       \* transitionTexture is not null
    tempBuffer,    \* the picture of the last frame, or None
    call,          \* the call of Graphics under way
    last,          \* history: the timed call that has just returned
    fiber,         \* how long the fiber off the render thread asked to wait
    frozen,        \* the picture of the freeze no transition has followed yet
    shown          \* what the last frame drew on the display: live, and front over it

contents == <<scene, size>>
screen == <<brightness, backBuffer, opacity, transitioning, texture>>
vars == <<contents, screen, tempBuffer, call, last, fiber, frozen, shown>>

Picture == [of : Scenes \cup {Blank, Part}, size : Sizes]

Timed == {"transition", "file", "fadeout", "fadein", "wait"}
NoCall == [op |-> "none", duration |-> 0, turn |-> 0]
Nothing == [op |-> "none", due |-> None]

Full == <<1, 1>>
\* i * (1f / d), where 0 * (1f / 0) is not a number
Fraction(i, d) == IF d # 0 /\ i = d THEN Full ELSE <<i, d>>

-----------------------------------------------------------------------------
(* (int) (i * (255f / d)) in binary32.                                     *)

\* The integer nearest to n / d, the even one of two
RoundDiv(n, d) ==
    LET q == n \div d
        r == n % d
    IN  IF 2 * r > d \/ (2 * r = d /\ q % 2 = 1) THEN q + 1 ELSE q

Scales == {2 ^ 16, 2 ^ 17, 2 ^ 18, 2 ^ 19, 2 ^ 20, 2 ^ 21, 2 ^ 22, 2 ^ 23}
Steps == {1, 2, 4, 8, 16, 32, 64, 128, 256}

\* A quotient or product has 24 bits: 255f / d is a number of them divided by scale, and
\* the product with i a multiple of step.  0 * (255f / 0) is not a number, and its (int) 0.
FadeLevel(i, d) ==
    IF d = 0 THEN 0
    ELSE LET scale == CHOOSE p \in Scales : (255 * p) \div d \in 2 ^ 23 .. 2 ^ 24 - 1
             product == i * RoundDiv(255 * scale, d)
             step == CHOOSE p \in Steps : /\ product \div p < 2 ^ 24
                                          /\ p > 1 => (2 * product) \div p >= 2 ^ 24
         IN  (RoundDiv(product, step) * step) \div scale

-----------------------------------------------------------------------------
TypeOK ==
    /\ scene \in Scenes /\ size \in Sizes
    /\ brightness \in 0 .. 255
    /\ backBuffer \in Picture \cup {None}
    /\ tempBuffer \in Picture \cup {None}
    /\ frozen \in Picture \cup {None}
    /\ opacity[1] <= opacity[2]
    /\ {transitioning, texture} \subseteq BOOLEAN
    /\ call.op \in Timed \cup {"none"} /\ call.duration \in Durations \cup {0}
    /\ last.op \in Timed \cup {"none"}
    /\ fiber \in Durations \cup {None}

Init ==
    /\ scene \in Scenes /\ size \in Sizes
    /\ brightness = 255 /\ backBuffer = None /\ opacity = <<0, 1>>
    /\ transitioning = FALSE /\ texture = FALSE
    /\ tempBuffer = None
    /\ call = NoCall /\ last = Nothing /\ fiber = None
    /\ frozen = None
    /\ shown = [live |-> None, front |-> None, opacity |-> Full, masked |-> FALSE]

\* checkBufferSize
Buffer(b, s) == IF b = None \/ b.size # s THEN [of |-> Blank, size |-> s] ELSE b

\* Graphics.update: the posted runnables, among them the one that resumes the
\* fiber, whose script may draw, then one frame: the scene as it is now, and the back
\* buffer blended over it; in a transition with a graphic no scene, but the back
\* buffer and the graphic's mask.
Update ==
    /\ IF fiber # None THEN scene' \in Scenes ELSE scene' = scene
    /\ fiber' = None
    /\ size' = size
    /\ tempBuffer' = IF transitioning' THEN Buffer(tempBuffer, size)
                     ELSE [of |-> scene', size |-> size]
    /\ shown' = [live |-> IF transitioning' THEN None ELSE tempBuffer',
                 front |-> backBuffer', masked |-> transitioning',
                 opacity |-> IF transitioning' THEN Full ELSE opacity']

\* The pictures of which something can be seen in a frame.
Seen(s) ==
    LET hides == s.front # None /\ s.opacity = Full /\ s.front.of \in Solid
    IN  ({s.front} \cup IF hides THEN {} ELSE {s.live}) \ {None}

-----------------------------------------------------------------------------
(* The script between two calls of Graphics.                               *)

Idle == call = NoCall

Draw(s) ==
    /\ Idle
    /\ scene' = s /\ last' = Nothing
    /\ UNCHANGED <<size, screen, tempBuffer, call, fiber, frozen, shown>>

ResizeScreen(s) ==
    /\ Idle
    /\ size' = s /\ last' = Nothing
    /\ UNCHANGED <<scene, screen, tempBuffer, call, fiber, frozen, shown>>

SetBrightness(b) ==
    /\ Idle
    /\ brightness' = b /\ last' = Nothing
    /\ UNCHANGED <<contents, backBuffer, opacity, transitioning, texture, tempBuffer,
                   call, fiber, frozen, shown>>

CallUpdate ==
    /\ Idle /\ last' = Nothing
    /\ UNCHANGED <<screen, call, frozen>>
    /\ Update

\* What a freeze leaves in both framebuffers.  A viewport with a tone, in the
\* middle of the scene, takes what it tones from Graphics.tempBuffer, also when the
\* back buffer is the one that is bound, and binds Graphics.tempBuffer after it: the
\* back buffer has what is under the viewport, without the tone.  (Before the first
\* frame there is no tempBuffer; the exception ends the program.)
FreezeScene ==
    /\ scene \in Toned => tempBuffer # None
    /\ backBuffer' = [of |-> IF scene \in Toned THEN Part ELSE scene, size |-> size]
    /\ tempBuffer' = IF scene \in Toned THEN [tempBuffer EXCEPT !.of = Part]
                     ELSE tempBuffer

\* Mutant: the opacity of the last transition is left.
Freeze_KeepsOpacity ==
    /\ Idle
    /\ FreezeScene
    /\ frozen' = backBuffer'
    /\ last' = Nothing
    /\ UNCHANGED <<contents, brightness, opacity, transitioning, texture, call, fiber,
                   shown>>

\* freeze renders the scene to the back buffer, without a frame.
Freeze ==
    /\ Idle
    /\ FreezeScene
    /\ opacity' = Full
    /\ frozen' = backBuffer'
    /\ last' = Nothing
    /\ UNCHANGED <<contents, brightness, transitioning, texture, call, fiber, shown>>

\* The pixels of tempBuffer are copied, those of the last frame.  They do not exist
\* before the first one.
SnapToBitmap ==
    /\ Idle /\ tempBuffer # None
    /\ last' = Nothing
    /\ UNCHANGED <<contents, screen, tempBuffer, call, fiber, frozen, shown>>

\* wait off the render thread posts the runnable that resumes its fiber.
WaitInFiber(d) ==
    /\ Idle /\ fiber = None
    /\ fiber' = d /\ last' = Nothing
    /\ UNCHANGED <<contents, screen, tempBuffer, call, frozen, shown>>

-----------------------------------------------------------------------------
(* Calls that run frames: beginning, one turn of the loop, and return.     *)

Begin(op, d) ==
    /\ Idle
    /\ call' = [op |-> op, duration |-> d, turn |-> 0]
    /\ last' = Nothing

BeginFade(op, d) ==
    /\ op \in {"fadeout", "fadein", "wait"}
    /\ Begin(op, d)
    /\ UNCHANGED <<contents, screen, tempBuffer, fiber, frozen, shown>>

\* transition(duration); without a freeze it only warns.
BeginTransition(d) ==
    /\ backBuffer # None
    /\ Begin("transition", d)
    /\ brightness' = 255
    /\ frozen' = None
    /\ UNCHANGED <<contents, backBuffer, opacity, transitioning, texture, tempBuffer,
                   fiber, shown>>

\* Mutant: transitioning is set before the graphic is there.
BeginFileTransition_Early(d) ==
    /\ backBuffer # None /\ d >= 2
    /\ \/ Begin("file", d) /\ texture' = TRUE /\ frozen' = None
       \/ Idle /\ last' = Nothing /\ UNCHANGED <<call, texture, frozen>>
    /\ transitioning' = TRUE
    /\ brightness' = 255
    /\ UNCHANGED <<contents, backBuffer, opacity, tempBuffer, fiber, shown>>

\* transition(duration, filename, vague) from 2 frames on.  A graphic that cannot
\* be loaded raises an exception the script may rescue; the screen stays frozen.
BeginFileTransition(d) ==
    /\ backBuffer # None /\ d >= 2
    /\ \/ Begin("file", d) /\ transitioning' = TRUE /\ texture' = TRUE /\ frozen' = None
       \/ Idle /\ last' = Nothing /\ UNCHANGED <<call, transitioning, texture, frozen>>
    /\ brightness' = 255
    /\ UNCHANGED <<contents, backBuffer, opacity, tempBuffer, fiber, shown>>

\* ... and below.
CutTransition(d) ==
    /\ backBuffer # None /\ d < 2
    /\ Idle /\ last' = Nothing
    /\ backBuffer' = None
    /\ frozen' = None
    /\ UNCHANGED <<contents, brightness, opacity, transitioning, texture, tempBuffer,
                   call, fiber, shown>>

\* Mutants: every loop stops one turn early, or one late.
Turns_Exclusive(op, d) == d
Turns_OneMore(op, d) == d + 2

\* How often the loop of each call runs.
Turns(op, d) == IF op \in {"transition", "fadeout", "fadein"} THEN d + 1 ELSE d

\* The loop counts up, or down from the duration.
Turn ==
    LET d == call.duration
        up == call.turn
        down == d - call.turn
    IN  /\ call.turn < Turns(call.op, d)
        /\ call' = [call EXCEPT !.turn = @ + 1]
        /\ brightness' = CASE call.op = "fadein" -> FadeLevel(up, d)
                           [] call.op = "fadeout" -> FadeLevel(down, d)
                           [] OTHER -> brightness
        /\ opacity' = IF call.op = "transition" THEN Fraction(down, d) ELSE opacity
        /\ UNCHANGED <<backBuffer, transitioning, texture, last, frozen>>
        /\ Update

\* What follows the loop.  Both transitions drop the back buffer; the second
\* forgets to dispose of it, which nothing here sees.
Return ==
    /\ ~Idle
    /\ call.turn = Turns(call.op, call.duration)
    /\ call' = NoCall
    /\ last' = [op |-> call.op, due |-> call.duration]
    /\ backBuffer' = IF call.op \in {"transition", "file"} THEN None ELSE backBuffer
    /\ transitioning' = (transitioning /\ call.op # "file")
    /\ texture' = (texture /\ call.op # "file")
    /\ UNCHANGED <<contents, brightness, opacity, tempBuffer, fiber, frozen, shown>>

Next ==
    \/ \E s \in Scenes : Draw(s)
    \/ \E s \in Sizes : ResizeScreen(s)
    \/ \E b \in Levels : SetBrightness(b)
    \/ CallUpdate
    \/ Freeze
    \/ SnapToBitmap
    \/ \E d \in Durations :
          \/ WaitInFiber(d)
          \/ \E op \in Timed : BeginFade(op, d)
          \/ BeginTransition(d)
          \/ BeginFileTransition(d)
          \/ CutTransition(d)
    \/ Turn
    \/ Return

Spec == Init /\ [][Next]_vars

-----------------------------------------------------------------------------
(* What the screen promises.                                               *)

\* From freeze to transition each frame draws the frozen picture on top, in full and
\* without a mask, whatever the script draws, resizes, fades, or fails to load meanwhile.
\* Nothing else is seen if the frozen scene left no pixel translucent; if it did, the
\* scene the script is drawing shows through, and only that.
FrozenIsShown ==
    [][frozen # None /\ frozen' = frozen /\ (CallUpdate \/ Turn) =>
          /\ shown'.front = frozen /\ shown'.opacity = Full /\ ~shown'.masked
          /\ Seen(shown') = IF frozen.of \in Solid THEN {frozen}
                            ELSE {frozen, [of |-> scene', size |-> size]}]_vars

\* The mask of a transition and the picture under it are there as long as a frame
\* may draw them; when no call is under way neither flag nor mask are left, and the
\* back buffer is that of the freeze that waits for its transition.
TransitionReleases ==
    /\ transitioning => backBuffer # None /\ texture
    /\ Idle => ~transitioning /\ ~texture /\ backBuffer = frozen

\* After a fade the screen is as bright or as dark as it was to become, but for
\* one level of 255 that the float arithmetic may lose.
FadeIsComplete ==
    /\ last.op = "fadein" /\ last.due > 0 => brightness >= 254
    /\ last.op = "fadeout" => brightness = 0
=============================================================================
