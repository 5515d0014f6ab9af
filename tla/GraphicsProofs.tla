--------------------------- MODULE GraphicsProofs ---------------------------
(* The life of the frozen picture and of a transition's mask, the end of a   *)
(* fade, and types, for all scenes, sizes, durations and brightness levels.  *)
EXTENDS Graphics, TLAPS

-----------------------------------------------------------------------------
(* Division.                                                                 *)

\* Quotient and remainder.
LEMMA DivMod ==
    ASSUME NEW n \in Nat, NEW d \in Nat \ {0}
    PROVE  /\ n \div d \in Nat /\ n % d \in 0 .. d - 1
           /\ n = d * (n \div d) + (n % d)
  OBVIOUS

\* A quotient lies where the multiples of the divisor say.
LEMMA DivBounds ==
    ASSUME NEW n \in Nat, NEW d \in Nat \ {0}, NEW m \in Nat
    PROVE  /\ n >= d * m => n \div d >= m
           /\ n < d * m => n \div d < m
<1>1. /\ n \div d \in Nat /\ n % d \in 0 .. d - 1
      /\ n = d * (n \div d) + (n % d)
  BY DivMod
<1> DEFINE q == n \div d
<1> HIDE DEF q
<1>2. /\ q \in Nat /\ n % d \in 0 .. d - 1
      /\ n = d * q + (n % d)
  BY <1>1 DEF q
<1>3. ASSUME n >= d * m, q < m PROVE FALSE
  <2>1. d * (q + 1) <= d * m
    BY <1>2, <1>3
  <2>2. d * (q + 1) = d * q + d
    BY <1>2
  <2> QED
    BY <1>2, <1>3, <2>1, <2>2
<1>4. ASSUME n < d * m, q >= m PROVE FALSE
  <2>1. d * q >= d * m
    BY <1>2, <1>4
  <2> QED
    BY <1>2, <1>4, <2>1
<1> QED
  BY <1>2, <1>3, <1>4 DEF q

-----------------------------------------------------------------------------
(* What holds between two calls, and within one.                             *)

InTransition == call.op \in {"transition", "file"}

\* The back buffer belongs to the freeze that waits for its transition, or to
\* the transition under way; the mask to a transition with a graphic.
Owned ==
    /\ call \in [op : Timed \cup {"none"}, duration : Durations \cup {0}, turn : Nat]
    /\ call.op = "none" => call = NoCall
    /\ InTransition => backBuffer # None /\ frozen = None
    /\ ~InTransition => backBuffer = frozen
    /\ frozen # None => opacity = Full
    /\ transitioning <=> call.op = "file"
    /\ texture <=> call.op = "file"

LEMMA OwnedInit == Init => Owned
  BY DEF Init, Owned, InTransition, NoCall, Timed

LEMMA OwnedNext == scene \in Scenes /\ size \in Sizes /\ Owned /\ [Next]_vars => Owned'
<1> SUFFICES ASSUME scene \in Scenes, size \in Sizes, Owned, [Next]_vars PROVE Owned'
  OBVIOUS
<1> USE DEF Owned, InTransition, NoCall, Timed, Idle, contents, screen
<1>1. ASSUME NEW s \in Scenes, Draw(s) PROVE Owned'
  BY <1>1 DEF Draw
<1>2. ASSUME NEW s \in Sizes, ResizeScreen(s) PROVE Owned'
  BY <1>2 DEF ResizeScreen
<1>3. ASSUME NEW b \in Levels, SetBrightness(b) PROVE Owned'
  BY <1>3 DEF SetBrightness
<1>4. CASE CallUpdate
  BY <1>4 DEF CallUpdate
<1>5. CASE Freeze
  BY <1>5 DEF Freeze, FreezeScene
<1>6. CASE SnapToBitmap
  BY <1>6 DEF SnapToBitmap
<1>7. ASSUME NEW d \in Durations, WaitInFiber(d) PROVE Owned'
  BY <1>7 DEF WaitInFiber
<1>8. ASSUME NEW d \in Durations, NEW op \in Timed, BeginFade(op, d) PROVE Owned'
  BY <1>8 DEF BeginFade, Begin
<1>9. ASSUME NEW d \in Durations, BeginTransition(d) PROVE Owned'
  BY <1>9 DEF BeginTransition, Begin
<1>10. ASSUME NEW d \in Durations, BeginFileTransition(d) PROVE Owned'
  <2>1. CASE Begin("file", d) /\ transitioning' = TRUE /\ texture' = TRUE /\ frozen' = None
    BY <1>10, <2>1 DEF BeginFileTransition, Begin
  <2>2. CASE Idle /\ UNCHANGED <<call, transitioning, texture, frozen>>
    BY <1>10, <2>2 DEF BeginFileTransition
  <2> QED
    BY <1>10, <2>1, <2>2 DEF BeginFileTransition
<1>11. ASSUME NEW d \in Durations, CutTransition(d) PROVE Owned'
  BY <1>11 DEF CutTransition
<1>12. CASE Turn
  <2>1. call.op # "none"
    BY <1>12 DEF Turn, Turns
  <2>2. call' = [call EXCEPT !.turn = @ + 1]
    BY <1>12 DEF Turn
  <2>3. /\ call' \in [op : Timed \cup {"none"}, duration : Durations \cup {0}, turn : Nat]
        /\ call'.op = call.op
    BY <2>2
  <2>4. frozen # None => UNCHANGED opacity
    BY <1>12 DEF Turn
  <2>5. UNCHANGED <<backBuffer, transitioning, texture, frozen>>
    BY <1>12 DEF Turn
  <2> QED
    BY <2>1, <2>3, <2>4, <2>5
<1>13. CASE Return
  BY <1>13 DEF Return
<1>14. CASE UNCHANGED vars
  BY <1>14 DEF vars
<1> QED
  BY <1>1, <1>2, <1>3, <1>4, <1>5, <1>6, <1>7, <1>8, <1>9, <1>10, <1>11, <1>12,
     <1>13, <1>14
     DEF Next

\* The scene and the size are what they may be.
ContentsTyped == scene \in Scenes /\ size \in Sizes

LEMMA ContentsNext == ContentsTyped /\ [Next]_vars => ContentsTyped'
<1> SUFFICES ASSUME ContentsTyped, [Next]_vars PROVE ContentsTyped'
  OBVIOUS
<1> USE DEF ContentsTyped, contents
<1>1. CASE Update
  BY <1>1 DEF Update
<1>2. CASE UNCHANGED contents
  BY <1>2
<1>3. ASSUME NEW s \in Scenes, Draw(s) PROVE ContentsTyped'
  BY <1>3 DEF Draw
<1>4. ASSUME NEW s \in Sizes, ResizeScreen(s) PROVE ContentsTyped'
  BY <1>4 DEF ResizeScreen
<1> QED
  BY <1>1, <1>2, <1>3, <1>4
  DEF Next, vars, SetBrightness, CallUpdate, Freeze, SnapToBitmap, WaitInFiber, BeginFade,
      BeginTransition, BeginFileTransition, CutTransition, Turn, Return

LEMMA OwnedAlways == Spec => [](ContentsTyped /\ Owned)
<1>1. Init => ContentsTyped
  BY DEF Init, ContentsTyped
<1>2. ContentsTyped /\ Owned /\ [Next]_vars => (ContentsTyped /\ Owned)'
  BY ContentsNext, OwnedNext DEF ContentsTyped
<1> QED
  BY <1>1, <1>2, OwnedInit, PTL DEF Spec

\* A frame never draws a mask or a picture that is gone, and nothing is left of a
\* transition that has returned.
THEOREM Releases == Spec => []TransitionReleases
<1>1. Owned => TransitionReleases
  BY DEF Owned, InTransition, TransitionReleases, Idle, NoCall
<1> QED
  BY <1>1, OwnedAlways, PTL

\* What is seen of a frame that draws a scene and over it, in full, a picture.
LEMMA SeenIsFront ==
    ASSUME NEW s, NEW live, s.live = live, live # None, s.front # None, s.opacity = Full
    PROVE  Seen(s) = IF s.front.of \in Solid THEN {s.front} ELSE {s.front, live}
<1>1. CASE s.front.of \in Solid
  BY <1>1 DEF Seen
<1>2. CASE s.front.of \notin Solid
  BY <1>2 DEF Seen
<1> QED
  BY <1>1, <1>2

\* While the screen is frozen, each frame draws the frozen picture on top, and the live
\* scene is seen through what the frozen one left translucent, and only there.
THEOREM FrozenShown == Spec => FrozenIsShown
<1>1. ContentsTyped /\ Owned /\ [Next]_vars =>
        [frozen # None /\ frozen' = frozen /\ (CallUpdate \/ Turn) =>
            /\ shown'.front = frozen /\ shown'.opacity = Full /\ ~shown'.masked
            /\ Seen(shown') = IF frozen.of \in Solid THEN {frozen}
                              ELSE {frozen, [of |-> scene', size |-> size]}]_vars
  <2> SUFFICES ASSUME ContentsTyped, Owned, frozen # None, frozen' = frozen,
                      CallUpdate \/ Turn
               PROVE  /\ shown'.front = frozen /\ shown'.opacity = Full /\ ~shown'.masked
                      /\ Seen(shown') = IF frozen.of \in Solid THEN {frozen}
                                        ELSE {frozen, [of |-> scene', size |-> size]}
    OBVIOUS
  <2>1. backBuffer = frozen /\ opacity = Full /\ ~transitioning /\ ~InTransition
    BY DEF Owned, InTransition
  <2>2. backBuffer' = frozen /\ opacity' = Full /\ transitioning' = transitioning /\ Update
    <3>1. CASE CallUpdate
      BY <2>1, <3>1 DEF CallUpdate, screen
    <3>2. CASE Turn
      BY <2>1, <3>2 DEF Turn, InTransition
    <3> QED
      BY <3>1, <3>2
  <2>3. transitioning' = FALSE
    BY <2>1, <2>2 DEF Owned, InTransition
  <2> DEFINE live == [of |-> scene', size |-> size]
  <2>4. shown' = [live |-> live, front |-> frozen, masked |-> FALSE, opacity |-> Full]
    BY <2>2, <2>3 DEF Update
  <2>5. live # None
    <3>1. scene' \in Scenes
      BY <2>2 DEF Update, ContentsTyped
    <3>2. live \in [of : Scenes \cup {Blank, Part}, size : Sizes]
      BY <3>1 DEF ContentsTyped
    <3> QED
      BY <3>2, GraphicsAssumption
  <2> HIDE DEF live
  <2>6. Seen(shown') = IF frozen.of \in Solid THEN {frozen} ELSE {frozen, live}
    BY <2>4, <2>5, SeenIsFront
  <2> QED
    BY <2>4, <2>6 DEF live
<1> QED
  BY <1>1, OwnedAlways, PTL DEF Spec, FrozenIsShown

-----------------------------------------------------------------------------
(* The arithmetic of a fade.                                                 *)

\* Rounding loses at most a half.
LEMMA RoundDivBounds ==
    ASSUME NEW n \in Nat, NEW d \in Nat \ {0}
    PROVE  /\ RoundDiv(n, d) \in Nat
           /\ 2 * d * RoundDiv(n, d) <= 2 * n + d
           /\ 2 * d * RoundDiv(n, d) >= 2 * n - d
<1> DEFINE q == n \div d
           r == n % d
<1>1. q \in Nat /\ r \in 0 .. d - 1 /\ n = d * q + r
  BY DivMod
<1>2. RoundDiv(n, d) = IF 2 * r > d \/ (2 * r = d /\ q % 2 = 1) THEN q + 1 ELSE q
  BY DEF RoundDiv
<1> HIDE DEF q, r
<1>3. CASE RoundDiv(n, d) = q + 1 /\ 2 * r >= d
  <2>1. 2 * d * (q + 1) = 2 * (d * q) + 2 * d
    BY <1>1
  <2> QED
    BY <1>1, <1>3, <2>1
<1>4. CASE RoundDiv(n, d) = q /\ 2 * r <= d
  <2>1. 2 * d * q = 2 * (d * q)
    BY <1>1
  <2> QED
    BY <1>1, <1>4, <2>1
<1> QED
  BY <1>1, <1>2, <1>3, <1>4

\* 255f / d has a binary exponent.
LEMMA ScaleExists ==
    ASSUME NEW d \in Nat, d > 0, d <= 255
    PROVE  \E p \in Scales : (255 * p) \div d \in 2 ^ 23 .. 2 ^ 24 - 1
<1>1. ASSUME NEW n \in Nat, n >= d * 8388608, n < d * 16777216
      PROVE  n \div d \in 2 ^ 23 .. 2 ^ 24 - 1
  BY <1>1, DivBounds, DivMod
<1>2. CASE 1 <= d /\ d <= 1
  <2>1. (255 * 2 ^ 16) \div d \in 2 ^ 23 .. 2 ^ 24 - 1
    BY <1>1, <1>2
  <2> QED
    BY <2>1 DEF Scales
<1>3. CASE 2 <= d /\ d <= 3
  <2>1. (255 * 2 ^ 17) \div d \in 2 ^ 23 .. 2 ^ 24 - 1
    BY <1>1, <1>3
  <2> QED
    BY <2>1 DEF Scales
<1>4. CASE 4 <= d /\ d <= 7
  <2>1. (255 * 2 ^ 18) \div d \in 2 ^ 23 .. 2 ^ 24 - 1
    BY <1>1, <1>4
  <2> QED
    BY <2>1 DEF Scales
<1>5. CASE 8 <= d /\ d <= 15
  <2>1. (255 * 2 ^ 19) \div d \in 2 ^ 23 .. 2 ^ 24 - 1
    BY <1>1, <1>5
  <2> QED
    BY <2>1 DEF Scales
<1>6. CASE 16 <= d /\ d <= 31
  <2>1. (255 * 2 ^ 20) \div d \in 2 ^ 23 .. 2 ^ 24 - 1
    BY <1>1, <1>6
  <2> QED
    BY <2>1 DEF Scales
<1>7. CASE 32 <= d /\ d <= 63
  <2>1. (255 * 2 ^ 21) \div d \in 2 ^ 23 .. 2 ^ 24 - 1
    BY <1>1, <1>7
  <2> QED
    BY <2>1 DEF Scales
<1>8. CASE 64 <= d /\ d <= 127
  <2>1. (255 * 2 ^ 22) \div d \in 2 ^ 23 .. 2 ^ 24 - 1
    BY <1>1, <1>8
  <2> QED
    BY <2>1 DEF Scales
<1>9. CASE 128 <= d /\ d <= 255
  <2>1. (255 * 2 ^ 23) \div d \in 2 ^ 23 .. 2 ^ 24 - 1
    BY <1>1, <1>9
  <2> QED
    BY <2>1 DEF Scales
<1> QED
  BY <1>2, <1>3, <1>4, <1>5, <1>6, <1>7, <1>8, <1>9

\* A product of numbers of 24 and 8 bits has 24 bits in steps of at most 256.
LEMMA StepExists ==
    ASSUME NEW n \in Nat, n < 2 ^ 32
    PROVE  \E p \in Steps : /\ n \div p < 2 ^ 24
                            /\ p > 1 => (2 * n) \div p >= 2 ^ 24
<1>1. CASE n < 16777216
  <2>1. n \div 1 < 2 ^ 24
    BY <1>1
  <2> QED
    BY <2>1 DEF Steps
<1>2. CASE n >= 16777216
  <2>1. PICK p \in Steps \ {1} : n < 16777216 * p /\ 2 * n >= 16777216 * p
    BY <1>2 DEF Steps
  <2>2. p \in Nat \ {0} /\ 2 * n \in Nat
    BY DEF Steps
  <2>3. n \div p < 2 ^ 24 /\ (2 * n) \div p >= 2 ^ 24
    BY <2>1, <2>2, DivBounds
  <2> QED
    BY <2>1, <2>3
<1> QED
  BY <1>1, <1>2

\* (int) (i * (255f / d)) is a level of brightness, 0 at first and at last one of the
\* two highest: the error of either rounding is less than a level.
LEMMA FadeLevelBounds ==
    ASSUME NEW d \in Nat, d <= 255, NEW i \in 0 .. d
    PROVE  /\ FadeLevel(i, d) \in Nat /\ FadeLevel(i, d) <= 255
           /\ FadeLevel(0, d) = 0
           /\ d > 0 => FadeLevel(d, d) >= 254
<1>1. CASE d = 0
  <2>1. \A j : FadeLevel(j, d) = 0
    BY <1>1, Zenon DEF FadeLevel
  <2> QED
    BY <1>1, <2>1
<1>2. CASE d > 0
  <2> DEFINE K == CHOOSE p \in Scales : (255 * p) \div d \in 2 ^ 23 .. 2 ^ 24 - 1
             quotient == RoundDiv(255 * K, d)
             step(n) == CHOOSE p \in Steps : /\ n \div p < 2 ^ 24
                                             /\ p > 1 => (2 * n) \div p >= 2 ^ 24
             level(n) == (RoundDiv(n, step(n)) * step(n)) \div K
  <2>1. ASSUME NEW j \in 0 .. d PROVE FadeLevel(j, d) = level(j * quotient)
    <3>1. d # 0
      BY <1>2
    <3> QED
      BY <3>1, Zenon DEF FadeLevel
  <2>2. K \in Nat /\ 65536 <= K /\ K <= 8388608
    <3>1. K \in Scales
      BY <1>2, ScaleExists
    <3> HIDE DEF K
    <3> QED
      BY <3>1 DEF Scales
  <2> HIDE DEF K
  <2>3. /\ quotient \in Nat
        /\ 2 * d * quotient <= 510 * K + d
        /\ 2 * d * quotient >= 510 * K - d
    <3> DEFINE n == 255 * K
    <3>1. n \in Nat /\ d \in Nat \ {0} /\ 2 * n = 510 * K
      BY <1>2, <2>2
    <3>2. quotient = RoundDiv(n, d)
      OBVIOUS
    <3> HIDE DEF n, quotient
    <3>3. /\ RoundDiv(n, d) \in Nat
          /\ 2 * d * RoundDiv(n, d) <= 2 * n + d
          /\ 2 * d * RoundDiv(n, d) >= 2 * n - d
      BY <3>1, RoundDivBounds, Zenon
    <3> QED
      BY <3>1, <3>2, <3>3
  <2> HIDE DEF quotient
  <2>4. ASSUME NEW n \in Nat, 2 * n <= 510 * K + d
        PROVE  \E t, q \in Nat :
                  /\ t > 0 /\ t <= 256
                  /\ level(n) = (q * t) \div K
                  /\ 2 * t * q <= 2 * n + t
                  /\ 2 * t * q >= 2 * n - t
    <3>1. step(n) \in Steps
      <4>1. n < 2 ^ 32
        BY <2>2, <2>4
      <4> QED
        BY <4>1, StepExists
    <3>2. level(n) = (RoundDiv(n, step(n)) * step(n)) \div K
      OBVIOUS
    <3> HIDE DEF step, level
    <3>3. step(n) \in Nat /\ step(n) > 0 /\ step(n) <= 256
      BY <3>1 DEF Steps
    <3>4. /\ RoundDiv(n, step(n)) \in Nat
          /\ 2 * step(n) * RoundDiv(n, step(n)) <= 2 * n + step(n)
          /\ 2 * step(n) * RoundDiv(n, step(n)) >= 2 * n - step(n)
      <4>1. step(n) \in Nat \ {0}
        BY <3>3
      <4> QED
        BY <4>1, RoundDivBounds, Zenon
    <3> QED
      BY <3>2, <3>3, <3>4
  <2> HIDE DEF level
  <2>5. ASSUME NEW n \in Nat, 2 * n <= 510 * K + d
        PROVE  /\ level(n) \in Nat /\ level(n) <= 255
               /\ n = 0 => level(n) = 0
               /\ 2 * n >= 510 * K - d => level(n) >= 254
    <3>1. PICK t, q \in Nat :
                  /\ t > 0 /\ t <= 256
                  /\ level(n) = (q * t) \div K
                  /\ 2 * t * q <= 2 * n + t
                  /\ 2 * t * q >= 2 * n - t
      BY <2>4, <2>5
    <3> DEFINE m == q * t
    <3>2. /\ t > 0 /\ t <= 256 /\ level(n) = m \div K
          /\ m \in Nat /\ 2 * m <= 2 * n + t /\ 2 * m >= 2 * n - t
      BY <3>1
    <3> HIDE DEF m
    <3>3. K \in Nat \ {0} /\ m < K * 256
      BY <2>2, <2>5, <3>2
    <3>4. level(n) \in Nat /\ level(n) <= 255
      <4>1. m \in Nat /\ 256 \in Nat
        BY <3>2
      <4>2. m \div K \in Nat
        BY <3>3, <4>1, DivMod
      <4>3. m \div K < 256
        BY <3>3, <4>1, DivBounds
      <4> QED
        BY <3>2, <4>2, <4>3
    <3>5. ASSUME n = 0 PROVE level(n) = 0
      <4>1. m < K * 1
        BY <2>2, <3>2, <3>5
      <4>2. m \div K < 1 /\ m \div K \in Nat
        BY <3>2, <3>3, <4>1, DivBounds, DivMod
      <4> QED
        BY <3>2, <4>2
    <3>6. ASSUME 2 * n >= 510 * K - d PROVE level(n) >= 254
      <4>1. m >= K * 254
        BY <2>2, <3>2, <3>6
      <4> QED
        BY <3>2, <3>3, <4>1, DivBounds
    <3> QED
      BY <3>4, <3>5, <3>6
  <2>6. ASSUME NEW j \in 0 .. d
        PROVE  j * quotient \in Nat /\ 2 * (j * quotient) <= 510 * K + d
    <3>1. j * quotient <= d * quotient /\ j * quotient \in Nat
      BY <2>3
    <3>2. 2 * (d * quotient) = 2 * d * quotient
      BY <2>3
    <3> QED
      BY <2>2, <2>3, <3>1, <3>2
  <2>7. FadeLevel(i, d) \in Nat /\ FadeLevel(i, d) <= 255
    BY <2>1, <2>5, <2>6
  <2>8. FadeLevel(0, d) = 0
    <3>1. 0 * quotient = 0 /\ 0 \in 0 .. d
      BY <2>3
    <3> QED
      BY <2>1, <2>5, <2>6, <3>1
  <2>9. FadeLevel(d, d) >= 254
    <3>1. 2 * (d * quotient) = 2 * d * quotient /\ d \in 0 .. d
      BY <2>3
    <3> QED
      BY <2>1, <2>3, <2>5, <2>6, <3>1
  <2> QED
    BY <2>7, <2>8, <2>9
<1> QED
  BY <1>1, <1>2

-----------------------------------------------------------------------------
(* Fades and types.                                                          *)

\* While a fade runs brightness is that of its last turn, and no call is over.
FadeState ==
    /\ call.op # "none" => last = Nothing /\ call.turn <= Turns(call.op, call.duration)
    /\ call.op = "fadein" /\ call.turn > 0 =>
          brightness = FadeLevel(call.turn - 1, call.duration)
    /\ call.op = "fadeout" /\ call.turn > 0 =>
          brightness = FadeLevel(call.duration - (call.turn - 1), call.duration)
    /\ FadeIsComplete

LEMMA DurationsAreBytes == \A d \in Durations \cup {0} : d \in Nat /\ d <= 255
<1>1. Durations \subseteq 0 .. 255
  BY GraphicsAssumption, Zenon DEF GraphicsAssumption
<1> QED
  BY <1>1

LEMMA FadeStateNext == Owned /\ FadeState /\ [Next]_vars => FadeState'
<1> SUFFICES ASSUME Owned, FadeState, [Next]_vars PROVE FadeState'
  OBVIOUS
<1>1. ASSUME Idle, UNCHANGED call, last' = Nothing PROVE FadeState'
  BY <1>1 DEF FadeState, FadeIsComplete, Nothing, Idle, NoCall
<1>2. ASSUME NEW op \in Timed, NEW d \in Durations, Begin(op, d) PROVE FadeState'
  <2>1. d \in Nat
    BY DurationsAreBytes
  <2> QED
    BY <1>2, <2>1 DEF Begin, FadeState, FadeIsComplete, Nothing, Turns
<1>3. CASE Turn
  <2> DEFINE op == call.op
             d == call.duration
             n == call.turn
  <2>1. /\ op \in Timed \cup {"none"} /\ n \in Nat /\ d \in Nat
        /\ op = "none" => n = 0 /\ d = 0
        /\ call \in [op : Timed \cup {"none"}, duration : Durations \cup {0}, turn : Nat]
    BY DurationsAreBytes DEF Owned, NoCall
  <2>2. n < Turns(op, d) /\ op # "none"
    BY <1>3, <2>1 DEF Turn, Turns
  <2>3. call'.op = op /\ call'.duration = d /\ call'.turn = n + 1 /\ last' = Nothing
    BY <1>3, <2>1, <2>2 DEF Turn, FadeState
  <2>4. /\ op = "fadein" => brightness' = FadeLevel(n, d)
        /\ op = "fadeout" => brightness' = FadeLevel(d - n, d)
    BY <1>3 DEF Turn
  <2>5. n + 1 <= Turns(op, d) /\ n + 1 - 1 = n
    BY <2>1, <2>2 DEF Turns
  <2>6. FadeIsComplete'
    BY <2>3 DEF FadeIsComplete, Nothing
  <2> HIDE DEF op, d, n
  <2> QED
    BY <2>1, <2>3, <2>4, <2>5, <2>6 DEF FadeState
<1>4. CASE Return
  <2> DEFINE d == call.duration
  <2>1. d \in Nat /\ d <= 255 /\ call.turn \in Nat
    BY DurationsAreBytes DEF Owned
  <2>2. call' = NoCall /\ last' = [op |-> call.op, due |-> d] /\ UNCHANGED brightness
    BY <1>4 DEF Return
  <2>3. call.turn = Turns(call.op, d)
    BY <1>4 DEF Return
  <2>4. ASSUME call.op = "fadein", d > 0 PROVE brightness >= 254
    <3>1. call.turn - 1 = d /\ call.turn > 0
      BY <2>1, <2>3, <2>4 DEF Turns
    <3> QED
      BY <2>1, <2>4, <3>1, FadeLevelBounds DEF FadeState
  <2>5. ASSUME call.op = "fadeout" PROVE brightness = 0
    <3>1. d - (call.turn - 1) = 0 /\ call.turn > 0 /\ 0 \in 0 .. d
      BY <2>1, <2>3, <2>5 DEF Turns
    <3> QED
      BY <2>1, <2>5, <3>1, FadeLevelBounds DEF FadeState
  <2> QED
    BY <2>2, <2>4, <2>5 DEF FadeState, FadeIsComplete, NoCall
<1>5. CASE UNCHANGED vars
  BY <1>5 DEF vars, screen, FadeState, FadeIsComplete, Turns
<1>6. ASSUME NEW d \in Durations, BeginFileTransition(d) PROVE FadeState'
  BY <1>1, <1>2, <1>6 DEF BeginFileTransition, Timed
<1> QED
  BY <1>1, <1>2, <1>3, <1>4, <1>5, <1>6
  DEF Next, Draw, ResizeScreen, SetBrightness, CallUpdate, Freeze, SnapToBitmap,
      WaitInFiber, BeginFade, BeginTransition, CutTransition, Timed

\* What Owned, ContentsTyped and FadeState leave of the types.
Typed ==
    /\ brightness \in 0 .. 255
    /\ backBuffer \in Picture \cup {None} /\ tempBuffer \in Picture \cup {None}
    /\ frozen \in Picture \cup {None}
    /\ \E i, d \in Nat : opacity = <<i, d>> /\ i <= d
    /\ last.op \in Timed \cup {"none"}
    /\ fiber \in Durations \cup {None}

LEMMA TypedNext ==
    ContentsTyped /\ Owned /\ FadeState /\ Typed /\ [Next]_vars => Typed'
<1> SUFFICES ASSUME ContentsTyped, Owned, FadeState, Typed, [Next]_vars PROVE Typed'
  OBVIOUS
<1> USE DEF contents, screen
<1>1. \A s \in Scenes, z \in Sizes : [of |-> s, size |-> z] \in Picture
  BY DEF Picture
<1>2. \A s \in Sizes : \A b \in Picture \cup {None} : Buffer(b, s) \in Picture
  BY DEF Picture, Buffer
<1>3. ASSUME Update PROVE tempBuffer' \in Picture /\ fiber' = None
  <2>1. scene' \in Scenes
    BY <1>3 DEF Update, ContentsTyped
  <2> QED
    BY <1>1, <1>2, <1>3, <2>1 DEF Update, ContentsTyped, Typed
<1>4. \E i, d \in Nat : Full = <<i, d>> /\ i <= d
  BY DEF Full
<1>5. ASSUME UNCHANGED <<brightness, backBuffer, tempBuffer, frozen, opacity, fiber>>,
             last' = Nothing \/ last' = last
      PROVE  Typed'
  BY <1>5 DEF Typed, Nothing
<1>6. ASSUME NEW b \in Levels, SetBrightness(b) PROVE Typed'
  BY <1>6, GraphicsAssumption DEF SetBrightness, Typed, Nothing
<1>7. CASE CallUpdate
  BY <1>3, <1>7 DEF CallUpdate, Typed, Nothing
<1>8. CASE Freeze
  <2>1. backBuffer' \in Picture
    BY <1>8 DEF Freeze, FreezeScene, Picture, ContentsTyped
  <2>2. tempBuffer' \in Picture \cup {None}
    BY <1>8 DEF Freeze, FreezeScene, Picture, Typed
  <2> QED
    BY <1>4, <1>8, <2>1, <2>2 DEF Freeze, Typed, Nothing
<1>9. ASSUME NEW d \in Durations, WaitInFiber(d) PROVE Typed'
  BY <1>9 DEF WaitInFiber, Typed, Nothing
<1>10. ASSUME NEW d \in Durations, BeginTransition(d) PROVE Typed'
  BY <1>10 DEF BeginTransition, Begin, Typed, Nothing
<1>11. ASSUME NEW d \in Durations, BeginFileTransition(d) PROVE Typed'
  <2>1. frozen' \in {None, frozen} /\ last' = Nothing /\ brightness' = 255
    BY <1>11 DEF BeginFileTransition, Begin
  <2>2. UNCHANGED <<backBuffer, tempBuffer, opacity, fiber>>
    BY <1>11 DEF BeginFileTransition
  <2> QED
    BY <2>1, <2>2 DEF Typed, Nothing
<1>12. ASSUME NEW d \in Durations, CutTransition(d) PROVE Typed'
  BY <1>12 DEF CutTransition, Typed, Nothing
<1>13. CASE Turn
  <2> DEFINE d == call.duration
             n == call.turn
  <2>1. d \in Nat /\ d <= 255 /\ n \in Nat
    BY DurationsAreBytes DEF Owned
  <2>2. call.op \in {"transition", "fadeout", "fadein"} => n <= d
    BY <1>13, <2>1 DEF Turn, Turns
  <2>3. brightness' \in 0 .. 255
    <3>1. /\ call.op = "fadein" => brightness' = FadeLevel(n, d)
          /\ call.op = "fadeout" => brightness' = FadeLevel(d - n, d)
          /\ call.op \notin {"fadein", "fadeout"} => brightness' = brightness
      BY <1>13 DEF Turn
    <3> HIDE DEF d, n
    <3>2. n <= d => n \in 0 .. d /\ d - n \in 0 .. d
      BY <2>1
    <3>3. ASSUME n <= d
          PROVE  /\ FadeLevel(n, d) \in Nat /\ FadeLevel(n, d) <= 255
                 /\ FadeLevel(d - n, d) \in Nat /\ FadeLevel(d - n, d) <= 255
      BY <2>1, <3>2, <3>3, FadeLevelBounds
    <3> QED
      BY <2>2, <3>1, <3>3 DEF Typed
  <2>4. \E i, k \in Nat : opacity' = <<i, k>> /\ i <= k
    <3>1. CASE call.op = "transition"
      <4>1. opacity' = Fraction(d - n, d) /\ d - n \in Nat /\ d - n <= d
        BY <1>13, <2>1, <2>2, <3>1 DEF Turn
      <4> QED
        BY <1>4, <2>1, <4>1 DEF Fraction
    <3>2. CASE call.op # "transition"
      BY <1>13, <3>2 DEF Turn, Typed
    <3> QED
      BY <3>1, <3>2
  <2>5. UNCHANGED <<backBuffer, last, frozen>> /\ Update
    BY <1>13 DEF Turn
  <2> QED
    BY <1>3, <2>3, <2>4, <2>5 DEF Typed
<1>14. CASE Return
  BY <1>14 DEF Return, Typed, Owned
<1> QED
  BY <1>5, <1>6, <1>7, <1>8, <1>9, <1>10, <1>11, <1>12, <1>13, <1>14
  DEF Next, vars, Draw, ResizeScreen, SnapToBitmap, BeginFade, Begin

\* The flags are flags.
Flags == transitioning \in BOOLEAN /\ texture \in BOOLEAN

LEMMA FlagsNext == Flags /\ [Next]_vars => Flags'
<1> SUFFICES ASSUME Flags, [Next]_vars PROVE Flags'
  OBVIOUS
<1> USE DEF Flags, contents, screen
<1>1. CASE UNCHANGED <<transitioning, texture>>
  BY <1>1, Zenon
<1>2. ASSUME NEW d \in Durations, BeginFileTransition(d) PROVE Flags'
  BY <1>2, Zenon DEF BeginFileTransition
<1>3. CASE Return
  <2>1. /\ transitioning' = (transitioning /\ call.op # "file")
        /\ texture' = (texture /\ call.op # "file")
    BY <1>3, Zenon DEF Return
  <2> QED
    BY <2>1, Zenon
<1>4. UNCHANGED <<transitioning, texture>> \/ Return
        \/ \E d \in Durations : BeginFileTransition(d)
  BY DEF Next, vars, Draw, ResizeScreen, SetBrightness, CallUpdate, Freeze, SnapToBitmap,
         WaitInFiber, BeginFade, BeginTransition, CutTransition, Turn
<1> QED
  BY <1>1, <1>2, <1>3, <1>4, Zenon

LEMMA StateAlways == Spec => [](ContentsTyped /\ Owned /\ FadeState /\ Typed /\ Flags)
<1>1. Init => FadeState /\ Typed
  BY DEF Init, FadeState, FadeIsComplete, Typed, NoCall, Nothing
<1>2. Init => Flags
  BY Zenon DEF Init, Flags
<1>3. ContentsTyped /\ Owned /\ FadeState /\ Typed /\ [Next]_vars => (FadeState /\ Typed)'
  BY FadeStateNext, TypedNext
<1> QED
  BY <1>1, <1>2, <1>3, FlagsNext, OwnedAlways, PTL DEF Spec

\* The fields of Graphics have the values the code takes them to have: brightness is a
\* byte whatever a fade computes, opacity a fraction, a buffer is a picture or null.
THEOREM Types == Spec => []TypeOK
<1>1. ContentsTyped /\ Owned /\ FadeState /\ Typed /\ Flags => TypeOK
  <2> SUFFICES ASSUME ContentsTyped, Owned, Typed, Flags PROVE TypeOK
    OBVIOUS
  <2>1. {transitioning, texture} \subseteq BOOLEAN
    BY Zenon DEF Flags
  <2> QED
    BY <2>1 DEF ContentsTyped, Owned, Typed, TypeOK
<1> QED
  BY <1>1, StateAlways, PTL

\* Graphics.fadein ends at 254 at least and fadeout at 0, for every duration a script
\* may give: the rounding of the float arithmetic loses one level at most.
THEOREM FadesComplete == Spec => []FadeIsComplete
<1>1. FadeState => FadeIsComplete
  BY DEF FadeState
<1> QED
  BY <1>1, StateAlways, PTL

=============================================================================
