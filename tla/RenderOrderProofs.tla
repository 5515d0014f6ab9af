------------------------- MODULE RenderOrderProofs --------------------------
(* compareTo agrees with the promised order, and that order is an order, for *)
(* every scene without ties of viewports.  Then the sort of java.util gives  *)
(* the list that is promised.                                                *)
EXTENDS RenderOrder, SequenceTheorems, FiniteSetTheorems, WellFoundedInduction, TLAPS

-----------------------------------------------------------------------------
(* Induction over the natural numbers, told with sets of numbers instead of *)
(* predicates, and what it says of functions defined by recursion.           *)

\* A set of natural numbers that is not empty has a least element.
LEMMA LeastNumber ==
    ASSUME NEW T, T \subseteq Nat, T # {}
    PROVE  \E n \in T : \A m \in T : n <= m
<1> DEFINE R == OpToRel(<, Nat)
<1>1. PICK n \in T : \A m \in T : ~(<<m, n>> \in R)
  <2>1. IsWellFoundedOn(R, Nat)
    BY NatLessThanWellFounded
  <2> HIDE DEF R
  <2> QED BY <2>1, WFMin
<1>2. \A m, k \in Nat : m < k => <<m, k>> \in R
  BY DEF OpToRel
<1> HIDE DEF R
<1>3. ASSUME NEW m \in T PROVE n <= m
  <2>1. m \in Nat /\ n \in Nat
    OBVIOUS
  <2>2. ~(m < n)
    BY <1>1, <1>2, <2>1
  <2> QED BY <2>1, <2>2
<1> QED BY <1>3

\* Induction from n to n + 1.
LEMMA Induct ==
    ASSUME NEW S, 0 \in S, \A n \in Nat : n \in S => n + 1 \in S
    PROVE  \A n \in Nat : n \in S
<1> SUFFICES ASSUME NEW x \in Nat, x \notin S PROVE FALSE
  OBVIOUS
<1> DEFINE T == {n \in Nat : n \notin S}
<1>1. PICK n \in T : \A m \in T : n <= m
  BY LeastNumber
<1>2. n # 0 /\ n - 1 \in Nat
  OBVIOUS
<1> QED BY <1>1, <1>2

\* The functions whose value at 0 is begin and that go on with the nth step to n.
Iterates(A, begin, step, N) ==
    {f \in [0 .. N -> A] : f[0] = begin /\ \A n \in 1 .. N : f[n] = step[n][f[n - 1]]}

\* What is defined step by step exists.
LEMMA IterateExists ==
    ASSUME NEW A, NEW begin \in A, NEW step \in [Nat -> [A -> A]]
    PROVE  \A N \in Nat : Iterates(A, begin, step, N) # {}
<1> DEFINE S == {N \in Nat : Iterates(A, begin, step, N) # {}}
<1>1. 0 \in S
  <2>1. [n \in 0 .. 0 |-> begin] \in Iterates(A, begin, step, 0)
    BY DEF Iterates
  <2> QED BY <2>1
<1>2. ASSUME NEW N \in Nat, N \in S PROVE N + 1 \in S
  <2>1. PICK f \in [0 .. N -> A] : f[0] = begin /\ \A n \in 1 .. N : f[n] = step[n][f[n - 1]]
    BY <1>2 DEF Iterates
  <2> DEFINE g == [n \in 0 .. N + 1 |-> IF n = N + 1 THEN step[n][f[N]] ELSE f[n]]
  <2>2. g \in [0 .. N + 1 -> A]
    OBVIOUS
  <2>3. g[0] = begin
    BY <2>1
  <2>4. ASSUME NEW n \in 1 .. N + 1 PROVE g[n] = step[n][g[n - 1]]
    BY <2>1
  <2> HIDE DEF g
  <2>5. g \in Iterates(A, begin, step, N + 1)
    BY <2>2, <2>3, <2>4 DEF Iterates
  <2> QED BY <2>5
<1> HIDE DEF S
<1>3. \A N \in Nat : N \in S
  BY <1>1, <1>2, Induct
<1> QED BY <1>3 DEF S

-----------------------------------------------------------------------------
(* The documented order.                                                     *)

\* Renderables that are in no viewport or in one of V.
Renderables(V) ==
    [isViewport : BOOLEAN, viewport : V \cup {None}, z : Int, y : Int]

LEMMA MoreViewports ==
    ASSUME NEW V, NEW W, V \subseteq W, NEW r \in Renderables(V)
    PROVE  r \in Renderables(W)
  BY DEF Renderables

LEMMA ViewportSet ==
    ASSUME NEW V, NEW r \in Renderables(V), NEW v \in V \cup {None},
           NEW t, t = [r EXCEPT !.viewport = v]
    PROVE  t \in Renderables(V) /\ t.isViewport = r.isViewport /\ t.viewport = v
  BY DEF Renderables

LEMMA RenderableOfScene ==
    ASSUME NEW r \in Renderable, NEW V, r.viewport \in V \cup {None}
    PROVE  r \in Renderables(V)
  BY OrderAssumption DEF Renderable, Renderables

\* What the script can make: a viewport is in no other viewport, and what is in
\* a viewport is in a Viewport object.
Scene(s) ==
    /\ DOMAIN s \subseteq Nat
    /\ s \in [DOMAIN s -> Renderables(DOMAIN s)]
    /\ \A o \in DOMAIN s :
          /\ s[o].isViewport => s[o].viewport = None
          /\ s[o].viewport # None => s[s[o].viewport].isViewport

LEMMA StandingInScene ==
    ASSUME NEW s, Scene(s), NEW o \in DOMAIN s
    PROVE  /\ Standing(s, o) \in DOMAIN s
           /\ s[Standing(s, o)].viewport = None
           /\ Standing(s, o) # o <=> s[o].viewport # None
           /\ Standing(s, Standing(s, o)) = Standing(s, o)
           /\ s[o].z \in Int /\ s[o].y \in Int /\ o \in Int /\ o # None
  BY DEF Scene, Renderables, Standing, None

\* For two renderables at different places, or at the same place for a reason,
\* compareTo says which of them is below the other.
THEOREM CompareIsBelow ==
    ASSUME NEW s, Scene(s), NEW o \in DOMAIN s, NEW p \in DOMAIN s, o # p,
           ~Tie(s, o, p)
    PROVE  CompareTo(s, o, p) = IF Below(s, o, p) THEN -1 ELSE 1
<1> DEFINE g == Standing(s, o)
           h == Standing(s, p)
<1>1. /\ g \in DOMAIN s /\ h \in DOMAIN s
      /\ s[g].viewport = None /\ s[h].viewport = None
      /\ s[o].z \in Int /\ s[o].y \in Int /\ s[p].z \in Int /\ s[p].y \in Int
      /\ s[g].z \in Int /\ s[g].y \in Int /\ s[h].z \in Int /\ s[h].y \in Int
      /\ o \in Int /\ p \in Int /\ g \in Int /\ h \in Int
      /\ o # None /\ p # None /\ g # None /\ h # None
  BY StandingInScene
<1>2. CASE s[p].viewport = o
  BY <1>1, <1>2 DEF CompareTo, Below, Standing
<1>3. CASE s[o].viewport = p
  BY <1>1, <1>3 DEF CompareTo, Below, Standing
<1>4. CASE s[p].viewport # o /\ s[o].viewport # p /\ s[o].viewport # s[p].viewport
  <2>1. g # h
    BY <1>1, <1>4 DEF Standing
  <2>2. CASE s[g].z # s[h].z \/ s[g].y # s[h].y
    BY <1>1, <1>4, <2>1, <2>2 DEF CompareTo, Below, Under, Sign
  <2>3. CASE s[g].z = s[h].z /\ s[g].y = s[h].y
    <3>1. g < p <=> g < h
      BY <2>1, <2>3 DEF Tie
    <3>2. g # p
      BY <1>1, <2>1 DEF Standing
    <3> QED
      BY <1>1, <1>4, <2>1, <2>3, <3>1, <3>2 DEF CompareTo, Below, Under, Sign
  <2> QED
    BY <2>2, <2>3
<1>5. CASE s[p].viewport # o /\ s[o].viewport # p /\ s[o].viewport = s[p].viewport
  <2>1. CASE s[o].viewport = None
    BY <1>1, <1>5, <2>1 DEF CompareTo, Below, Under, Sign, Standing
  <2>2. CASE s[o].viewport # None
    BY <1>1, <1>5, <2>2 DEF CompareTo, Below, Under, Sign, Standing
  <2> QED
    BY <2>1, <2>2
<1> QED
  BY <1>2, <1>3, <1>4, <1>5

\* That order is one: strict, total and transitive, so a sort has one result.
THEOREM BelowIsOrder ==
    ASSUME NEW s, Scene(s)
    PROVE  \A o, p, q \in DOMAIN s :
              /\ ~Below(s, o, o)
              /\ o # p => (Below(s, o, p) <=> ~Below(s, p, o))
              /\ Below(s, o, p) /\ Below(s, p, q) => Below(s, o, q)
<1> TAKE o, p, q \in DOMAIN s
<1> DEFINE g == Standing(s, o)
           h == Standing(s, p)
           k == Standing(s, q)
<1>1. /\ s[o].z \in Int /\ s[o].y \in Int /\ s[p].z \in Int /\ s[p].y \in Int
      /\ s[q].z \in Int /\ s[q].y \in Int
      /\ s[g].z \in Int /\ s[g].y \in Int /\ s[h].z \in Int /\ s[h].y \in Int
      /\ s[k].z \in Int /\ s[k].y \in Int
      /\ o \in Int /\ p \in Int /\ q \in Int /\ g \in Int /\ h \in Int /\ k \in Int
  BY StandingInScene
<1>2. ~Below(s, o, o)
  BY <1>1 DEF Below, Under
<1>3. o # p => (Below(s, o, p) <=> ~Below(s, p, o))
  BY <1>1, StandingInScene DEF Below, Under
<1>4. Below(s, o, p) /\ Below(s, p, q) => Below(s, o, q)
  BY <1>1, StandingInScene DEF Below, Under
<1> QED
  BY <1>2, <1>3, <1>4

\* Every scene the script can make is a scene.
SceneInv ==
    /\ start \in Nat /\ counter \in Nat /\ start <= counter
    /\ DOMAIN made = start .. counter - 1
    /\ alive \subseteq DOMAIN made
    /\ Scene(made)

LEMMA SceneAlways == Spec => []SceneInv
<1>1. Init => SceneInv
  BY OrderAssumption DEF Init, SceneInv, Scene, None
<1>2. SceneInv /\ [Next]_vars => SceneInv'
  <2> SUFFICES ASSUME SceneInv, [Next]_vars PROVE SceneInv'
    OBVIOUS
  <2> USE OrderAssumption DEF SceneInv, Scene, None
  <2>1. ASSUME NEW r \in Renderable, Create(r) PROVE SceneInv'
    <3>1. DOMAIN made' = start .. counter
      BY <2>1 DEF Create
    <3>2. DOMAIN made' = start' .. counter' - 1
      BY <2>1, <3>1 DEF Create
    <3>3. \A o \in DOMAIN made' : made'[o] = IF o = counter THEN r ELSE made[o]
      BY <2>1, <3>1 DEF Create
    <3>4. counter \notin DOMAIN made /\ DOMAIN made \cup {counter} = DOMAIN made'
      BY <3>1
    <3>5. r.viewport \in {None} \cup {v \in DOMAIN made : made[v].isViewport}
      BY <2>1 DEF Create, Viewportish
    <3>6. \A o \in DOMAIN made' : made'[o] \in Renderables(DOMAIN made')
      <4>1. made'[counter] \in Renderables(DOMAIN made')
        BY <3>3, <3>4, <3>5, RenderableOfScene
      <4>2. \A o \in DOMAIN made : made'[o] \in Renderables(DOMAIN made')
        BY <3>3, <3>4, MoreViewports
      <4> QED
        BY <3>4, <4>1, <4>2
    <3>7. \A o \in DOMAIN made' :
             /\ made'[o].isViewport => made'[o].viewport = None
             /\ made'[o].viewport # None => made'[made'[o].viewport].isViewport
      <4>1. \A v \in DOMAIN made : made'[v] = made[v] /\ v \in DOMAIN made'
        BY <3>3, <3>4
      <4>2. \A o \in DOMAIN made : made[o].viewport \in DOMAIN made \cup {None}
        BY DEF Renderables
      <4>3. r.isViewport => r.viewport = None
        BY <2>1 DEF Create
      <4>4. made'[counter] = r
        BY <3>3, <3>4
      <4> QED
        BY <3>4, <3>5, <4>1, <4>2, <4>3, <4>4
    <3>8. made' = [o \in DOMAIN made' |-> made'[o]]
      BY <2>1, <3>1 DEF Create
    <3>9. alive' \subseteq DOMAIN made' /\ start' \in Nat /\ counter' \in Nat /\ start' <= counter'
      BY <2>1, <3>4 DEF Create
    <3>10. made' \in [DOMAIN made' -> Renderables(DOMAIN made')] /\ DOMAIN made' \subseteq Nat
      BY <3>1, <3>6, <3>8
    <3> QED
      BY <3>2, <3>7, <3>9, <3>10
  <2>2. ASSUME NEW o \in DOMAIN made, NEW z \in Coordinates, NEW y \in Coordinates,
               SetCoordinates(o, z, y)
        PROVE  SceneInv'
    <3>1. DOMAIN made' = DOMAIN made
      BY <2>2 DEF SetCoordinates
    <3>2. \A q \in DOMAIN made :
             made'[q] = IF q = o THEN [made[q] EXCEPT !.z = z, !.y = y] ELSE made[q]
      BY <2>2 DEF SetCoordinates
    <3>3. \A q \in DOMAIN made :
             /\ made'[q] \in Renderables(DOMAIN made)
             /\ made'[q].isViewport = made[q].isViewport
             /\ made'[q].viewport = made[q].viewport
      <4>1. z \in Int /\ y \in Int /\ made[o] \in Renderables(DOMAIN made)
        OBVIOUS
      <4>2. made'[o] = [made[o] EXCEPT !.z = z, !.y = y]
        BY <3>2
      <4>3. /\ made'[o] \in Renderables(DOMAIN made)
            /\ made'[o].isViewport = made[o].isViewport
            /\ made'[o].viewport = made[o].viewport
        BY ONLY <4>1, <4>2 DEF Renderables
      <4> QED
        BY <3>2, <4>3
    <3>4. made' = [q \in DOMAIN made |-> made'[q]]
      BY <2>2 DEF SetCoordinates
    <3>5. made' \in [DOMAIN made' -> Renderables(DOMAIN made')]
      BY <3>1, <3>3, <3>4
    <3>6. \A q \in DOMAIN made :
             /\ made'[q].isViewport => made'[q].viewport = None
             /\ made'[q].viewport # None => made'[made'[q].viewport].isViewport
      <4>1. \A q \in DOMAIN made : made[q].viewport \in DOMAIN made \cup {None}
        BY DEF Renderables
      <4> QED
        BY <3>3, <4>1
    <3>7. UNCHANGED <<start, counter, alive>>
      BY <2>2 DEF SetCoordinates
    <3> QED
      BY <3>1, <3>5, <3>6, <3>7
  <2>3. ASSUME NEW o \in DOMAIN made, NEW v \in Times \cup {None}, SetViewport(o, v)
        PROVE  SceneInv'
    <3>1. DOMAIN made' = DOMAIN made
      BY <2>3 DEF SetViewport
    <3>2. \A q \in DOMAIN made :
             made'[q] = IF q = o THEN [made[q] EXCEPT !.viewport = v] ELSE made[q]
      BY <2>3 DEF SetViewport
    <3>3. v \in {None} \cup {w \in DOMAIN made : made[w].isViewport} /\ ~made[o].isViewport
      BY <2>3 DEF SetViewport, Viewportish
    <3>4. \A q \in DOMAIN made :
             /\ made'[q] \in Renderables(DOMAIN made)
             /\ made'[q].isViewport = made[q].isViewport
             /\ made'[q].viewport = IF q = o THEN v ELSE made[q].viewport
      <4>1. v \in DOMAIN made \cup {None} /\ made[o] \in Renderables(DOMAIN made)
        BY <3>3
      <4>2. made'[o] = [made[o] EXCEPT !.viewport = v]
        BY <3>2
      <4>3. /\ made'[o] \in Renderables(DOMAIN made)
            /\ made'[o].isViewport = made[o].isViewport
            /\ made'[o].viewport = v
        BY ONLY <4>1, <4>2, ViewportSet
      <4> QED
        BY <3>2, <4>3
    <3>5. made' = [q \in DOMAIN made |-> made'[q]]
      BY <2>3 DEF SetViewport
    <3>6. made' \in [DOMAIN made' -> Renderables(DOMAIN made')]
      BY <3>1, <3>4, <3>5
    <3>7. \A q \in DOMAIN made :
             /\ made'[q].isViewport => made'[q].viewport = None
             /\ made'[q].viewport # None => made'[made'[q].viewport].isViewport
      <4>1. \A q \in DOMAIN made : made[q].viewport \in DOMAIN made \cup {None}
        BY DEF Renderables
      <4> QED
        BY <3>3, <3>4, <4>1
    <3>8. UNCHANGED <<start, counter, alive>>
      BY <2>3 DEF SetViewport
    <3> QED
      BY <3>1, <3>6, <3>7, <3>8
  <2>4. ASSUME NEW o \in alive, Dispose(o) PROVE SceneInv'
    BY <2>4 DEF Dispose
  <2>5. CASE SortList
    BY <2>5 DEF SortList
  <2>6. CASE DrawList
    BY <2>6 DEF DrawList
  <2>7. CASE UNCHANGED vars
    BY <2>7 DEF vars
  <2> QED
    BY <2>1, <2>2, <2>3, <2>4, <2>5, <2>6, <2>7 DEF Next, Script
<1> QED
  BY <1>1, <1>2, PTL DEF Spec

\* In every reachable state, for all coordinates and numbers of renderables.
THEOREM ComparatorContract == Spec => []ContractKept
<1>1. SceneInv => ContractKept
  <2> SUFFICES ASSUME SceneInv, Untied(made, alive),
                      NEW o \in alive, NEW p \in alive, NEW q \in alive
               PROVE  /\ CompareTo(made, o, p) = -CompareTo(made, p, o)
                      /\ CompareTo(made, o, p) < 0 /\ CompareTo(made, p, q) < 0
                             => CompareTo(made, o, q) < 0
    BY DEF ContractKept
  <2> DEFINE C(a, b) == CompareTo(made, a, b)
             B(a, b) == Below(made, a, b)
  <2>1. \A a, b \in alive : a = b => C(a, b) = 0
    BY DEF CompareTo
  <2>2. \A a, b \in alive : a # b => C(a, b) = IF B(a, b) THEN -1 ELSE 1
    BY CompareIsBelow DEF Untied, SceneInv
  <2>3. \A a, b, c \in alive : /\ ~B(a, a)
                               /\ a # b => (B(a, b) <=> ~B(b, a))
                               /\ B(a, b) /\ B(b, c) => B(a, c)
    BY BelowIsOrder DEF SceneInv
  <2> HIDE DEF C, B
  <2>4. C(o, p) = -C(p, o)
    BY <2>1, <2>2, <2>3
  <2>5. C(o, p) < 0 /\ C(p, q) < 0 => C(o, q) < 0
    BY <2>1, <2>2, <2>3
  <2> QED
    BY <2>4, <2>5 DEF C
<1> QED
  BY <1>1, SceneAlways, PTL

-----------------------------------------------------------------------------
(* Collections.sort, given a comparator that is an order.                    *)

\* B orders A strictly and totally.
IsOrder(A, B) ==
    \A a, b, c \in A :
        /\ <<a, a>> \notin B
        /\ a # b => (<<a, b>> \in B <=> <<b, a>> \notin B)
        /\ <<a, b>> \in B /\ <<b, c>> \in B => <<a, c>> \in B

\* On A compareTo is that order.
Compares(s, A, B) == \A a, b \in A : CompareTo(s, a, b) < 0 <=> <<a, b>> \in B

Ascending(q, B) == \A i, j \in 1 .. Len(q) : i < j => <<q[i], q[j]>> \in B

\* What the binary search knows: p belongs after what is left of its bounds and before
\* what is right of them.
Around(q, p, B, b) ==
    /\ b.left <= b.right
    /\ \A i \in 1 .. b.left : <<p, q[i]>> \notin B
    /\ \A i \in b.right + 1 .. Len(q) : <<p, q[i]>> \in B

Bounds(q) == [left : 0 .. Len(q), right : 0 .. Len(q)]

\* A turn of the binary search keeps the place of p within the bounds and narrows them.
LEMMA HalvedNarrows ==
    ASSUME NEW s, NEW A, NEW B, IsOrder(A, B), Compares(s, A, B),
           NEW q \in Seq(A), Ascending(q, B), NEW p \in A,
           NEW b \in Bounds(q), Around(q, p, B, b)
    PROVE  LET c == Halved(s, q, p, b)
           IN  /\ c \in Bounds(q) /\ Around(q, p, B, c)
               /\ b.left < b.right => c.right - c.left < b.right - b.left
               /\ b.left = b.right => c.left = c.right
<1> DEFINE mid == (b.left + b.right) \div 2
           c == Halved(s, q, p, b)
<1>1. /\ Len(q) \in Nat /\ b.left \in 0 .. Len(q) /\ b.right \in 0 .. Len(q)
      /\ b.left <= b.right /\ \A i \in 1 .. Len(q) : q[i] \in A
  BY DEF Bounds, Around
<1>2. CASE b.left >= b.right
  <2>1. c = b
    BY <1>2 DEF Halved
  <2> QED BY <1>1, <1>2, <2>1
<1>3. CASE b.left < b.right
  <2>1. mid \in Nat /\ b.left <= mid /\ mid < b.right /\ mid + 1 \in 1 .. Len(q)
    BY <1>1, <1>3
  <2> HIDE DEF mid
  <2>2. CASE CompareTo(s, p, q[mid + 1]) < 0
    <3>1. c = [left |-> b.left, right |-> mid]
      BY <1>1, <1>3, <2>2 DEF Halved, mid
    <3>2. <<p, q[mid + 1]>> \in B
      BY <1>1, <2>1, <2>2 DEF Compares
    <3>3. ASSUME NEW i \in mid + 1 .. Len(q) PROVE <<p, q[i]>> \in B
      <4>1. CASE i = mid + 1
        BY <3>2, <4>1
      <4>2. CASE i # mid + 1
        <5>1. i \in 1 .. Len(q) /\ mid + 1 < i
          BY <2>1, <4>2
        <5>2. <<q[mid + 1], q[i]>> \in B
          BY <2>1, <5>1 DEF Ascending
        <5>3. q[i] \in A /\ q[mid + 1] \in A
          BY <1>1, <2>1, <5>1
        <5> QED BY <3>2, <5>2, <5>3 DEF IsOrder
      <4> QED BY <4>1, <4>2
    <3> HIDE DEF c
    <3>4. c \in Bounds(q) /\ Around(q, p, B, c)
      BY <1>1, <2>1, <3>1, <3>3 DEF Bounds, Around
    <3> QED BY <1>1, <1>3, <2>1, <3>1, <3>4 DEF c
  <2>3. CASE ~(CompareTo(s, p, q[mid + 1]) < 0)
    <3>1. c = [left |-> mid + 1, right |-> b.right]
      BY <1>1, <1>3, <2>3 DEF Halved, mid
    <3>2. <<p, q[mid + 1]>> \notin B
      BY <1>1, <2>1, <2>3 DEF Compares
    <3>3. ASSUME NEW i \in 1 .. mid + 1, <<p, q[i]>> \in B PROVE FALSE
      <4>1. i < mid + 1 /\ i \in 1 .. Len(q)
        BY <2>1, <3>2, <3>3
      <4>2. <<q[i], q[mid + 1]>> \in B
        BY <2>1, <4>1 DEF Ascending
      <4>3. q[i] \in A /\ q[mid + 1] \in A
        BY <1>1, <2>1, <4>1
      <4> QED BY <3>2, <3>3, <4>2, <4>3 DEF IsOrder
    <3> HIDE DEF c
    <3>4. c \in Bounds(q) /\ Around(q, p, B, c)
      BY <1>1, <2>1, <3>1, <3>3 DEF Bounds, Around
    <3> QED BY <1>1, <1>3, <2>1, <3>1, <3>4 DEF c
  <2> QED BY <2>2, <2>3
<1> QED BY <1>1, <1>2, <1>3

\* Len(q) turns are enough: then p belongs where the bounds meet.
LEMMA PlaceIs ==
    ASSUME NEW s, NEW A, NEW B, IsOrder(A, B), Compares(s, A, B),
           NEW q \in Seq(A), Ascending(q, B), NEW p \in A
    PROVE  LET k == Place(s, q, p)
           IN  /\ k \in 0 .. Len(q)
               /\ \A i \in 1 .. k : <<p, q[i]>> \notin B
               /\ \A i \in k + 1 .. Len(q) : <<p, q[i]>> \in B
<1> DEFINE N == Len(q)
           widest == [left |-> 0, right |-> N]
           Good == {b \in Bounds(q) : Around(q, p, B, b)}
           halve == [b \in Good |-> Halved(s, q, p, b)]
           step == [n \in Nat |-> halve]
           IsSearch(f) == f = [n \in 0 .. N |->
                                 IF n = 0 THEN widest ELSE Halved(s, q, p, f[n - 1])]
           search == CHOOSE f : IsSearch(f)
<1>1. N \in Nat /\ widest \in Good
  BY DEF Bounds, Around
<1>2. \A b \in Good : Halved(s, q, p, b) \in Good
  BY HalvedNarrows
<1>3. step \in [Nat -> [Good -> Good]]
  BY <1>2
<1> HIDE DEF Good, halve
<1>4. PICK f \in Iterates(Good, widest, step, N) : TRUE
  <2> HIDE DEF step, widest, N
  <2>1. Iterates(Good, widest, step, N) # {}
    BY <1>1, <1>3, IterateExists
  <2> QED BY <2>1
<1>5. /\ f \in [0 .. N -> Good] /\ f[0] = widest
      /\ \A n \in 1 .. N : f[n] = Halved(s, q, p, f[n - 1])
  <2>1. /\ f \in [0 .. N -> Good] /\ f[0] = widest
        /\ \A n \in 1 .. N : f[n] = step[n][f[n - 1]]
    BY <1>4 DEF Iterates
  <2>2. ASSUME NEW n \in 1 .. N PROVE f[n] = Halved(s, q, p, f[n - 1])
    <3>1. n - 1 \in 0 .. N /\ n \in Nat
      BY <1>1
    <3>2. f[n] = halve[f[n - 1]] /\ f[n - 1] \in Good
      BY <2>1, <3>1
    <3> QED BY <3>2 DEF halve
  <2> QED BY <2>1, <2>2
<1>6. IsSearch(f)
  BY <1>1, <1>5
<1>7. IsSearch(search)
  BY <1>6
<1> HIDE DEF search, widest
<1>8. /\ search[0] = widest
      /\ \A n \in 1 .. N : search[n] = Halved(s, q, p, search[n - 1])
  BY <1>1, <1>7
<1>9. \A n \in Nat : n <= N => /\ search[n] \in Good
                               /\ search[n].right - search[n].left <= N - n
  <2> DEFINE S == {n \in Nat : n <= N => /\ search[n] \in Good
                                         /\ search[n].right - search[n].left <= N - n}
  <2>1. 0 \in S
    BY <1>1, <1>8 DEF widest
  <2>2. ASSUME NEW n \in Nat, n \in S PROVE n + 1 \in S
    <3> SUFFICES ASSUME n + 1 <= N
                 PROVE  /\ search[n + 1] \in Good
                        /\ search[n + 1].right - search[n + 1].left <= N - (n + 1)
      OBVIOUS
    <3> DEFINE b == search[n]
               c == search[n + 1]
    <3>1. b \in Good /\ b.right - b.left <= N - n
      BY <1>1, <2>2
    <3>2. c = Halved(s, q, p, b)
      BY <1>1, <1>8
    <3> HIDE DEF b, c
    <3>3. /\ c \in Bounds(q) /\ Around(q, p, B, c)
          /\ b.left < b.right => c.right - c.left < b.right - b.left
          /\ b.left = b.right => c.left = c.right
      BY <3>1, <3>2, HalvedNarrows DEF Good
    <3>4. /\ b.left \in Nat /\ b.right \in Nat /\ b.left <= b.right
          /\ c.left \in Nat /\ c.right \in Nat
      BY <1>1, <3>1, <3>3 DEF Good, Bounds, Around
    <3>5. c.right - c.left <= N - (n + 1)
      BY <1>1, <3>1, <3>3, <3>4
    <3> QED BY <3>3, <3>5 DEF Good, c
  <2> HIDE DEF S
  <2>3. \A n \in Nat : n \in S
    BY <2>1, <2>2, Induct
  <2> QED BY <2>3 DEF S
<1> DEFINE b == search[N]
<1>10. b \in Bounds(q) /\ Around(q, p, B, b) /\ b.right - b.left <= 0
  BY <1>1, <1>9 DEF Good
<1>11. Place(s, q, p) = b.left
  BY DEF Place, search, widest
<1> HIDE DEF b
<1>12. b.left \in 0 .. N /\ b.right = b.left
  BY <1>1, <1>10 DEF Bounds, Around
<1> QED BY <1>10, <1>11, <1>12 DEF Around

\* What a sequence lists.
Elements(q) == {q[i] : i \in 1 .. Len(q)}

\* InsertAt puts p in the mth place, and what was there and after it one place on.
LEMMA InsertAtIs ==
    ASSUME NEW S, NEW q \in Seq(S), NEW m \in 1 .. Len(q) + 1, NEW p \in S
    PROVE  LET t == InsertAt(q, m, p)
           IN  /\ t \in Seq(S) /\ Len(t) = Len(q) + 1
               /\ \A i \in 1 .. m - 1 : t[i] = q[i]
               /\ t[m] = p
               /\ \A i \in m + 1 .. Len(q) + 1 : t[i] = q[i - 1]
<1>1. PICK before, one, after : /\ before = SubSeq(q, 1, m - 1)
                                 /\ one = <<p>>
                                 /\ after = SubSeq(q, m, Len(q))
  OBVIOUS
<1>2. /\ Len(q) \in Nat /\ m \in Nat /\ m <= Len(q) + 1
      /\ m \in Int /\ Len(q) \in Int /\ \A i \in 1 .. Len(q) : q[i] \in S
  OBVIOUS
<1>3. /\ before \in Seq(S) /\ Len(before) = m - 1
      /\ \A i \in 1 .. m - 1 : before[i] = q[i]
  BY <1>1, <1>2, SubSeqProperties
<1>4. /\ after \in Seq(S)
      /\ Len(after) = IF m <= Len(q) THEN Len(q) - m + 1 ELSE 0
      /\ \A i \in 1 .. Len(q) - m + 1 : after[i] = q[m + i - 1]
  BY <1>1, <1>2, SubSeqProperties
<1>5. one \in Seq(S) /\ Len(one) = 1 /\ one[1] = p
  BY <1>1
<1>6. PICK begun : begun = before \o one
  OBVIOUS
<1>7. PICK t : t = begun \o after
  OBVIOUS
<1>8. InsertAt(q, m, p) = t
  BY <1>1, <1>6, <1>7 DEF InsertAt
<1>9. /\ begun \in Seq(S) /\ Len(begun) = Len(before) + Len(one)
       /\ \A i \in 1 .. Len(before) + Len(one) :
             begun[i] = IF i <= Len(before) THEN before[i] ELSE one[i - Len(before)]
  BY <1>3, <1>5, <1>6, ConcatProperties
<1>10. begun \in Seq(S) /\ after \in Seq(S)
  BY <1>4, <1>9
<1>11. /\ t \in Seq(S) /\ Len(t) = Len(begun) + Len(after)
       /\ \A i \in 1 .. Len(begun) + Len(after) :
             t[i] = IF i <= Len(begun) THEN begun[i] ELSE after[i - Len(begun)]
  BY <1>7, <1>10, ConcatProperties
<1>12. /\ Len(begun) = m /\ Len(begun) + Len(after) = Len(q) + 1
      /\ \A i \in 1 .. Len(q) + 1 - m : after[i] = q[m + i - 1]
  BY <1>2, <1>3, <1>4, <1>5, <1>9
<1>13. ASSUME NEW i \in 1 .. m - 1 PROVE t[i] = q[i]
  <2>1. i \in 1 .. Len(begun) + Len(after) /\ i <= Len(begun)
        /\ i \in 1 .. Len(before) + Len(one) /\ i <= Len(before)
    BY <1>2, <1>3, <1>5, <1>12
  <2>2. t[i] = begun[i] /\ begun[i] = before[i]
    BY <1>9, <1>11, <2>1
  <2> QED BY <1>3, <2>2
<1>14. t[m] = p
  <2>1. m \in 1 .. Len(begun) + Len(after) /\ m <= Len(begun)
        /\ m \in 1 .. Len(before) + Len(one) /\ ~(m <= Len(before)) /\ m - Len(before) = 1
    BY <1>2, <1>3, <1>5, <1>12
  <2>2. t[m] = begun[m] /\ begun[m] = one[1]
    BY <1>9, <1>11, <2>1
  <2> QED BY <1>5, <2>2
<1>15. ASSUME NEW i \in m + 1 .. Len(q) + 1 PROVE t[i] = q[i - 1]
  <2>1. i \in 1 .. Len(begun) + Len(after) /\ ~(i <= Len(begun)) /\ i - Len(begun) = i - m
    BY <1>2, <1>12
  <2>2. t[i] = after[i - m]
    BY <1>11, <2>1
  <2>3. i - m \in 1 .. Len(q) + 1 - m /\ m + (i - m) - 1 = i - 1
    BY <1>2
  <2> QED BY <1>12, <2>2, <2>3
<1> QED BY <1>8, <1>11, <1>12, <1>13, <1>14, <1>15

\* An element that is inserted goes where the order has it, and all others stay.
LEMMA InsertIs ==
    ASSUME NEW s, NEW A, NEW B, IsOrder(A, B), Compares(s, A, B),
           NEW q \in Seq(A), Ascending(q, B), NEW p \in A, p \notin Elements(q)
    PROVE  LET t == Insert(s, q, p)
           IN  t \in Seq(A) /\ Ascending(t, B) /\ Elements(t) = Elements(q) \cup {p}
<1> DEFINE k == Place(s, q, p)
           m == k + 1
           t == InsertAt(q, m, p)
<1>1. /\ k \in 0 .. Len(q)
      /\ \A i \in 1 .. k : <<p, q[i]>> \notin B
      /\ \A i \in k + 1 .. Len(q) : <<p, q[i]>> \in B
  BY PlaceIs
<1>2. Insert(s, q, p) = t
  BY DEF Insert
<1> HIDE DEF k
<1>3. Len(q) \in Nat /\ k \in Nat /\ \A i \in 1 .. Len(q) : q[i] \in A
  BY <1>1
<1>4. m \in 1 .. Len(q) + 1 /\ m = k + 1
  BY <1>1, <1>3
<1> HIDE DEF m
<1>5. /\ t \in Seq(A) /\ Len(t) = Len(q) + 1
      /\ \A i \in 1 .. m - 1 : t[i] = q[i]
      /\ t[m] = p
      /\ \A i \in m + 1 .. Len(q) + 1 : t[i] = q[i - 1]
  BY <1>4, InsertAtIs
<1> HIDE DEF t
<1>6. /\ t \in Seq(A) /\ Len(t) = Len(q) + 1
      /\ \A i \in 1 .. k : t[i] = q[i]
      /\ t[k + 1] = p
      /\ \A i \in k + 2 .. Len(q) + 1 : t[i] = q[i - 1]
  BY <1>3, <1>4, <1>5
<1>7. \A i \in 1 .. k : <<q[i], p>> \in B
  <2> SUFFICES ASSUME NEW i \in 1 .. k PROVE <<q[i], p>> \in B
    OBVIOUS
  <2>1. i \in 1 .. Len(q) /\ q[i] \in A /\ q[i] # p
    BY <1>1, <1>3 DEF Elements
  <2> QED BY <1>1, <2>1 DEF IsOrder
<1>8. Ascending(t, B)
  <2> SUFFICES ASSUME NEW i \in 1 .. Len(q) + 1, NEW j \in 1 .. Len(q) + 1, i < j
               PROVE  <<t[i], t[j]>> \in B
    BY <1>6 DEF Ascending
  <2>1. CASE j <= k
    <3>1. t[i] = q[i] /\ t[j] = q[j] /\ i \in 1 .. Len(q) /\ j \in 1 .. Len(q)
      BY <1>1, <1>6, <2>1
    <3> QED BY <3>1 DEF Ascending
  <2>2. CASE j = k + 1
    <3>1. i \in 1 .. k /\ t[i] = q[i] /\ t[j] = p
      BY <1>1, <1>6, <2>2
    <3> QED BY <1>7, <3>1
  <2>3. CASE j > k + 1
    <3>1. /\ j \in k + 2 .. Len(q) + 1 /\ t[j] = q[j - 1]
          /\ j - 1 \in k + 1 .. Len(q) /\ j - 1 \in 1 .. Len(q)
      BY <1>1, <1>6, <2>3
    <3>2. CASE i <= k
      <4>1. t[i] = q[i] /\ i \in 1 .. Len(q) /\ i < j - 1
        BY <1>1, <1>6, <2>3, <3>2
      <4> QED BY <3>1, <4>1 DEF Ascending
    <3>3. CASE i = k + 1
      <4>1. t[i] = p
        BY <1>6, <3>3
      <4> QED BY <1>1, <3>1, <4>1
    <3>4. CASE i > k + 1
      <4>1. i \in k + 2 .. Len(q) + 1 /\ i - 1 \in 1 .. Len(q) /\ i - 1 < j - 1
        BY <1>1, <3>4
      <4>2. t[i] = q[i - 1]
        BY <1>6, <4>1
      <4> QED BY <3>1, <4>1, <4>2 DEF Ascending
    <3> QED BY <1>1, <3>2, <3>3, <3>4
  <2> QED BY <1>1, <2>1, <2>2, <2>3
<1>9. Elements(t) = Elements(q) \cup {p}
  <2>1. ASSUME NEW i \in 1 .. Len(t) PROVE t[i] \in Elements(q) \cup {p}
    <3>1. i \in 1 .. k \/ i = k + 1 \/ i \in k + 2 .. Len(q) + 1
      BY <1>1, <1>6
    <3>2. CASE i \in 1 .. k
      BY <1>1, <1>6, <3>2 DEF Elements
    <3>3. CASE i = k + 1
      BY <1>6, <3>3
    <3>4. CASE i \in k + 2 .. Len(q) + 1
      <4>1. t[i] = q[i - 1] /\ i - 1 \in 1 .. Len(q)
        BY <1>1, <1>6, <3>4
      <4> QED BY <4>1 DEF Elements
    <3> QED BY <3>1, <3>2, <3>3, <3>4
  <2>2. ASSUME NEW i \in 1 .. Len(q) PROVE q[i] \in Elements(t)
    <3>1. CASE i <= k
      <4>1. q[i] = t[i] /\ i \in 1 .. Len(t)
        BY <1>1, <1>6, <3>1
      <4> QED BY <4>1 DEF Elements
    <3>2. CASE i > k
      <4>1. i + 1 \in k + 2 .. Len(q) + 1 /\ i + 1 \in 1 .. Len(t) /\ i + 1 - 1 = i
        BY <1>1, <1>6, <3>2
      <4>2. t[i + 1] = q[i]
        BY <1>6, <4>1
      <4> QED BY <4>1, <4>2 DEF Elements
    <3> QED BY <1>1, <3>1, <3>2
  <2>3. p \in Elements(t)
    <3>1. k + 1 \in 1 .. Len(t) /\ t[k + 1] = p
      BY <1>1, <1>6
    <3> QED BY <3>1 DEF Elements
  <2> QED BY <2>1, <2>2, <2>3 DEF Elements
<1> QED BY <1>2, <1>6, <1>8, <1>9

\* A sequence whose neighbours are in order is in order.
LEMMA NeighboursSuffice ==
    ASSUME NEW A, NEW B, IsOrder(A, B), NEW q \in Seq(A),
           \A i \in 2 .. Len(q) : <<q[i - 1], q[i]>> \in B
    PROVE  Ascending(q, B)
<1>1. Len(q) \in Nat /\ \A i \in 1 .. Len(q) : q[i] \in A
  OBVIOUS
<1> SUFFICES ASSUME NEW i \in 1 .. Len(q) PROVE \A j \in 1 .. Len(q) : i < j => <<q[i], q[j]>> \in B
  BY DEF Ascending
<1> DEFINE S == {n \in Nat : i < n /\ n <= Len(q) => <<q[i], q[n]>> \in B}
<1>2. 0 \in S
  BY <1>1
<1>3. ASSUME NEW n \in Nat, n \in S PROVE n + 1 \in S
  <2> SUFFICES ASSUME i < n + 1, n + 1 <= Len(q) PROVE <<q[i], q[n + 1]>> \in B
    OBVIOUS
  <2>1. /\ n + 1 \in 2 .. Len(q) /\ n + 1 - 1 = n
        /\ n \in 1 .. Len(q) /\ n + 1 \in 1 .. Len(q) /\ (i = n \/ i < n)
    BY <1>1
  <2>2. <<q[n], q[n + 1]>> \in B
    BY <2>1
  <2>3. CASE i = n
    BY <2>2, <2>3
  <2>4. CASE i < n
    <3>1. <<q[i], q[n]>> \in B
      BY <1>3, <2>1, <2>4
    <3>2. q[i] \in A /\ q[n] \in A /\ q[n + 1] \in A
      BY <1>1, <2>1
    <3> QED BY <2>2, <3>1, <3>2 DEF IsOrder
  <2> QED BY <2>1, <2>3, <2>4
<1> HIDE DEF S
<1>4. \A n \in Nat : n \in S
  BY <1>2, <1>3, Induct
<1> QED BY <1>1, <1>4 DEF S

\* q lists nothing twice.
Distinct(q) == \A i, j \in 1 .. Len(q) : i # j => q[i] # q[j]

\* t is the first m elements of q, in order.
Holds(t, q, m, A, B) ==
    t \in Seq(A) /\ Ascending(t, B) /\ Elements(t) = {q[i] : i \in 1 .. m}

\* g inserts the elements of q after the first, which it has put in order, one by one;
\* at least it does so where what it has is in order and lacks the next element.
Inserting(s, A, B, q, run, g) ==
    /\ Holds(g[0], q, run, A, B)
    /\ \A n \in 1 .. Len(q) - run :
           (/\ g[n - 1] \in Seq(A) /\ Ascending(g[n - 1], B)
            /\ q[run + n] \notin Elements(g[n - 1]))
              => g[n] = Insert(s, g[n - 1], q[run + n])

\* Once the first elements are in order, so are all that have been inserted one by one.
LEMMA InsertionSorts ==
    ASSUME NEW s, NEW A, NEW B, IsOrder(A, B), Compares(s, A, B),
           NEW q \in Seq(A), Distinct(q), NEW run \in 1 .. Len(q),
           NEW g, Inserting(s, A, B, q, run, g)
    PROVE  \A n \in Nat : n <= Len(q) - run => Holds(g[n], q, run + n, A, B)
<1> DEFINE S == {n \in Nat : n <= Len(q) - run => Holds(g[n], q, run + n, A, B)}
<1>1. Len(q) \in Nat /\ run \in Nat /\ run <= Len(q) /\ \A i \in 1 .. Len(q) : q[i] \in A
  OBVIOUS
<1>2. 0 \in S
  <2>1. run + 0 = run
    BY <1>1
  <2> QED BY <2>1 DEF Inserting
<1>3. ASSUME NEW n \in Nat, n \in S PROVE n + 1 \in S
  <2> SUFFICES ASSUME n + 1 <= Len(q) - run PROVE Holds(g[n + 1], q, run + (n + 1), A, B)
    OBVIOUS
  <2>1. PICK p : p = q[run + (n + 1)]
    OBVIOUS
  <2>2. PICK m : m = run + n /\ m \in Nat
    BY <1>1
  <2>3. /\ n + 1 \in 1 .. Len(q) - run /\ n + 1 - 1 = n
        /\ run + (n + 1) = m + 1 /\ m + 1 \in 1 .. Len(q) /\ n <= Len(q) - run
    BY <1>1, <2>2
  <2>4. /\ g[n] \in Seq(A) /\ Ascending(g[n], B)
        /\ Elements(g[n]) = {q[i] : i \in 1 .. m}
    BY <1>3, <2>2, <2>3 DEF Holds
  <2>5. p = q[m + 1] /\ p \in A
    BY <1>1, <2>1, <2>3
  <2>6. p \notin Elements(g[n])
    <3> SUFFICES ASSUME NEW i \in 1 .. m, q[i] = p PROVE FALSE
      BY <2>4
    <3>1. i \in 1 .. Len(q) /\ i # m + 1
      BY <1>1, <2>2, <2>3
    <3> QED BY <2>3, <2>5, <3>1 DEF Distinct
  <2>7. g[n + 1] = Insert(s, g[n], p)
    BY <2>1, <2>3, <2>4, <2>6 DEF Inserting
  <2>8. /\ Insert(s, g[n], p) \in Seq(A) /\ Ascending(Insert(s, g[n], p), B)
        /\ Elements(Insert(s, g[n], p)) = Elements(g[n]) \cup {p}
    <3>1. PICK t : t = g[n]
      OBVIOUS
    <3>2. t \in Seq(A) /\ Ascending(t, B) /\ p \notin Elements(t) /\ p \in A
      BY <2>4, <2>5, <2>6, <3>1
    <3>3. /\ Insert(s, t, p) \in Seq(A) /\ Ascending(Insert(s, t, p), B)
          /\ Elements(Insert(s, t, p)) = Elements(t) \cup {p}
      BY <3>2, InsertIs
    <3> QED BY <3>1, <3>3
  <2>9. {q[i] : i \in 1 .. m} \cup {p} = {q[i] : i \in 1 .. m + 1}
    <3>1. m \in Nat
      BY <2>2
    <3>2. 1 .. m + 1 = (1 .. m) \cup {m + 1}
      BY <3>1
    <3> QED BY <2>5, <3>2
  <2> QED BY <2>3, <2>4, <2>7, <2>8, <2>9 DEF Holds
<1> HIDE DEF S
<1>4. \A n \in Nat : n \in S
  BY <1>2, <1>3, Induct
<1> QED BY <1>4 DEF S

\* The run that the sort begins with is there.
LEMMA LongestRun ==
    ASSUME NEW N \in Nat, NEW runs, runs \subseteq 2 .. N, 2 \in runs
    PROVE  \E k \in runs : \A j \in runs : j <= k
<1> DEFINE T == {N - k : k \in runs}
<1>1. T \subseteq Nat /\ T # {}
  OBVIOUS
<1>2. PICK n \in T : \A m \in T : n <= m
  BY <1>1, LeastNumber
<1>3. PICK k \in runs : n = N - k
  OBVIOUS
<1>4. ASSUME NEW j \in runs PROVE j <= k
  <2>1. N - k <= N - j
    BY <1>2, <1>3
  <2> QED BY <2>1
<1> QED BY <1>4

\* The run at the beginning, reversed if it descends, is in order.
LEMMA FirstRunAscends ==
    ASSUME NEW s, NEW A, NEW B, IsOrder(A, B), Compares(s, A, B),
           NEW q \in Seq(A), Distinct(q), NEW run \in 2 .. Len(q), NEW down \in BOOLEAN,
           \A i \in 2 .. run : (CompareTo(s, q[i], q[i - 1]) < 0) = down,
           NEW first, first = IF down THEN Reverse(SubSeq(q, 1, run)) ELSE SubSeq(q, 1, run)
    PROVE  Holds(first, q, run, A, B)
<1>1. /\ Len(q) \in Nat /\ run \in Nat /\ run <= Len(q) /\ run \in Int
      /\ \A i \in 1 .. Len(q) : q[i] \in A
  OBVIOUS
<1>2. PICK head : head = SubSeq(q, 1, run)
  OBVIOUS
<1>3. head \in Seq(A) /\ Len(head) = run /\ \A i \in 1 .. run : head[i] = q[i]
  BY <1>1, <1>2, SubSeqProperties
<1>4. ASSUME NEW i \in 2 .. run
      PROVE  /\ down => <<q[i], q[i - 1]>> \in B
             /\ ~down => <<q[i - 1], q[i]>> \in B
  <2>1. i \in 1 .. Len(q) /\ i - 1 \in 1 .. Len(q) /\ i # i - 1
    BY <1>1
  <2>2. q[i] \in A /\ q[i - 1] \in A /\ q[i] # q[i - 1]
    BY <1>1, <2>1 DEF Distinct
  <2>3. down <=> <<q[i], q[i - 1]>> \in B
    BY <2>2 DEF Compares
  <2> QED BY <2>2, <2>3 DEF IsOrder
<1>5. CASE ~down
  <2>1. ASSUME NEW i \in 2 .. Len(head) PROVE <<head[i - 1], head[i]>> \in B
    <3>1. i \in 2 .. run /\ i \in 1 .. run /\ i - 1 \in 1 .. run
      BY <1>1, <1>3
    <3>2. head[i] = q[i] /\ head[i - 1] = q[i - 1]
      BY <1>3, <3>1
    <3> QED BY <1>4, <1>5, <3>1, <3>2
  <2>2. Ascending(head, B)
    BY <1>3, <2>1, NeighboursSuffice
  <2>3. Elements(head) = {q[i] : i \in 1 .. run}
    BY <1>3 DEF Elements
  <2> QED BY <1>2, <1>3, <1>5, <2>2, <2>3 DEF Holds
<1>6. CASE down
  <2>1. PICK back : back = Reverse(head)
    OBVIOUS
  <2>2. back = [i \in 1 .. run |-> head[run - i + 1]]
    BY <1>3, <2>1 DEF Reverse
  <2>3. ASSUME NEW i \in 1 .. run PROVE back[i] = q[run - i + 1] /\ back[i] \in A
    <3>1. run - i + 1 \in 1 .. run /\ run - i + 1 \in 1 .. Len(q)
      BY <1>1
    <3>2. back[i] = head[run - i + 1]
      BY <2>2
    <3> QED BY <1>1, <1>3, <3>1, <3>2
  <2>4. back \in [1 .. run -> A]
    BY <2>2, <2>3
  <2>5. back \in Seq(A) /\ Len(back) = run
    BY <1>1, <2>4
  <2>6. ASSUME NEW i \in 2 .. Len(back) PROVE <<back[i - 1], back[i]>> \in B
    <3>1. PICK j : j = run - i + 2
      OBVIOUS
    <3>2. /\ i \in 1 .. run /\ i - 1 \in 1 .. run /\ j \in 2 .. run
          /\ run - i + 1 = j - 1 /\ run - (i - 1) + 1 = j
      BY <1>1, <2>5, <3>1
    <3>3. back[i] = q[run - i + 1] /\ back[i - 1] = q[run - (i - 1) + 1]
      BY <2>3, <3>2
    <3>4. <<q[j], q[j - 1]>> \in B
      BY <1>4, <1>6, <3>2
    <3> QED BY <3>2, <3>3, <3>4
  <2>7. Ascending(back, B)
    BY <2>5, <2>6, NeighboursSuffice
  <2>8. Elements(back) = {q[i] : i \in 1 .. run}
    <3>1. ASSUME NEW i \in 1 .. run PROVE back[i] \in {q[j] : j \in 1 .. run}
      <4>1. run - i + 1 \in 1 .. run
        BY <1>1
      <4> QED BY <2>3, <4>1
    <3>2. ASSUME NEW i \in 1 .. run PROVE \E j \in 1 .. run : q[i] = back[j]
      <4>1. run - i + 1 \in 1 .. run /\ run - (run - i + 1) + 1 = i
        BY <1>1
      <4>2. back[run - i + 1] = q[i]
        BY <2>3, <4>1
      <4> QED BY <4>1, <4>2
    <3>3. Elements(back) = {back[i] : i \in 1 .. run}
      BY <2>5 DEF Elements
    <3>4. Elements(back) \subseteq {q[i] : i \in 1 .. run}
      BY <3>1, <3>3
    <3>5. {q[i] : i \in 1 .. run} \subseteq Elements(back)
      BY <3>2, <3>3
    <3> QED BY <3>4, <3>5
  <2> QED BY <1>2, <1>6, <2>1, <2>5, <2>7, <2>8 DEF Holds
<1> QED BY <1>5, <1>6

\* The recursive function of Sorted.
Inserts(s, q, run, first, N, f) ==
    f = [n \in 0 .. N |-> IF n = 0 THEN first ELSE Insert(s, f[n - 1], q[run + n])]

\* The elements after the first run can be inserted one by one.
LEMMA InsertionExists ==
    ASSUME NEW s, NEW A, NEW B, IsOrder(A, B), Compares(s, A, B),
           NEW q \in Seq(A), Distinct(q), NEW run \in 1 .. Len(q),
           NEW first, Holds(first, q, run, A, B),
           NEW N, N = Len(q) - run
    PROVE  \E f : Inserts(s, q, run, first, N, f)
<1>1. /\ Len(q) \in Nat /\ \A i \in 1 .. Len(q) : q[i] \in A
      /\ N \in Nat /\ run \in Nat /\ run + N = Len(q)
  OBVIOUS
<1> DEFINE X == Seq(A)
           Turn(n, t) == IF Ascending(t, B) /\ q[run + n] \notin Elements(t)
                         THEN Insert(s, t, q[run + n]) ELSE t
           step == [n \in Nat |-> [t \in X |-> IF n \in 1 .. N THEN Turn(n, t) ELSE t]]
<1>2. ASSUME NEW n \in 1 .. N, NEW t \in X PROVE Turn(n, t) \in X
  <2>1. run + n \in 1 .. Len(q)
    BY <1>1
  <2>2. q[run + n] \in A
    BY <1>1, <2>1
  <2> QED BY <2>2, InsertIs
<1> HIDE DEF Turn, X
<1>3. step \in [Nat -> [X -> X]]
  BY <1>2
<1>4. first \in X
  BY DEF X, Holds
<1> HIDE DEF step
<1>5. Iterates(X, first, step, N) # {}
  BY <1>1, <1>3, <1>4, IterateExists
<1>6. PICK f : /\ f \in [0 .. N -> X] /\ f[0] = first
               /\ \A n \in 1 .. N : f[n] = step[n][f[n - 1]]
  BY <1>5 DEF Iterates
<1>7. ASSUME NEW n \in 1 .. N PROVE f[n] = Turn(n, f[n - 1]) /\ f[n - 1] \in X
  <2>1. n \in Nat /\ n - 1 \in 0 .. N
    BY <1>1
  <2>2. f[n - 1] \in X
    BY <1>6, <2>1
  <2> QED BY <1>6, <2>1, <2>2 DEF step
<1>8. Inserting(s, A, B, q, run, f)
  <2>1. ASSUME NEW n \in 1 .. N, f[n - 1] \in Seq(A), Ascending(f[n - 1], B),
               q[run + n] \notin Elements(f[n - 1])
        PROVE  f[n] = Insert(s, f[n - 1], q[run + n])
    BY <1>7, <2>1 DEF Turn
  <2> QED BY <1>6, <2>1 DEF Inserting
<1>9. \A n \in Nat : n <= N => Holds(f[n], q, run + n, A, B)
  BY <1>8, InsertionSorts
<1>10. ASSUME NEW n \in 1 .. N PROVE f[n] = Insert(s, f[n - 1], q[run + n])
  <2>1. /\ n - 1 \in Nat /\ n - 1 <= N /\ run + (n - 1) < run + n
        /\ run + n \in 1 .. Len(q) /\ n \in 1 .. Len(q) - run
    BY <1>1
  <2>2. /\ f[n - 1] \in Seq(A) /\ Ascending(f[n - 1], B)
        /\ Elements(f[n - 1]) = {q[i] : i \in 1 .. run + (n - 1)}
    BY <1>9, <2>1 DEF Holds
  <2>3. q[run + n] \notin Elements(f[n - 1])
    <3> SUFFICES ASSUME NEW i \in 1 .. run + (n - 1), q[i] = q[run + n] PROVE FALSE
      BY <2>2
    <3>1. i \in 1 .. Len(q) /\ i # run + n
      BY <1>1, <2>1
    <3> QED BY <2>1, <3>1 DEF Distinct
  <2> QED BY <1>8, <2>1, <2>2, <2>3 DEF Inserting
<1>11. \A n \in 0 .. N : f[n] = IF n = 0 THEN first ELSE Insert(s, f[n - 1], q[run + n])
  <2>1. \A n \in 0 .. N : n = 0 \/ n \in 1 .. N
    BY <1>1
  <2>2. \A n \in 1 .. N : n # 0
    BY <1>1
  <2> QED BY <1>6, <1>10, <2>1, <2>2
<1>12. f = [n \in 0 .. N |-> f[n]]
  BY <1>6
<1>13. f = [n \in 0 .. N |-> IF n = 0 THEN first ELSE Insert(s, f[n - 1], q[run + n])]
  BY <1>11, <1>12
<1> QED BY <1>13 DEF Inserts

\* And when they have been, all are in order.
LEMMA InsertedIs ==
    ASSUME NEW s, NEW A, NEW B, IsOrder(A, B), Compares(s, A, B),
           NEW q \in Seq(A), Distinct(q), NEW run \in 1 .. Len(q),
           NEW first, Holds(first, q, run, A, B),
           NEW N, N = Len(q) - run,
           NEW f, Inserts(s, q, run, first, N, f)
    PROVE  f[N] \in Seq(A) /\ Ascending(f[N], B) /\ Elements(f[N]) = Elements(q)
<1>1. Len(q) \in Nat /\ N \in Nat /\ run \in Nat /\ run + N = Len(q)
  OBVIOUS
<1>2. 0 \in 0 .. N /\ \A n \in 1 .. N : n \in 0 .. N /\ n # 0
  BY <1>1
<1>3. f[0] = first
  BY <1>2 DEF Inserts
<1>4. \A n \in 1 .. N : f[n] = Insert(s, f[n - 1], q[run + n])
  BY <1>2 DEF Inserts
<1>5. Inserting(s, A, B, q, run, f)
  BY <1>3, <1>4 DEF Inserting
<1>6. \A n \in Nat : n <= N => Holds(f[n], q, run + n, A, B)
  BY <1>5, InsertionSorts
<1>7. Holds(f[N], q, Len(q), A, B)
  BY <1>1, <1>6
<1> QED BY <1>7 DEF Holds, Elements

\* Collections.sort, with a comparator that is an order, sorts.
LEMMA SortedIs ==
    ASSUME NEW s, NEW A, NEW B, IsOrder(A, B), Compares(s, A, B),
           NEW q \in Seq(A), Distinct(q), NEW t, t = Sorted(s, q)
    PROVE  t \in Seq(A) /\ Ascending(t, B) /\ Elements(t) = Elements(q)
<1>1. Len(q) \in Nat /\ \A i \in 1 .. Len(q) : q[i] \in A
  OBVIOUS
<1>2. CASE Len(q) < 2
  <2>1. t = q
    BY <1>2 DEF Sorted
  <2>2. Ascending(q, B)
    BY <1>1, <1>2 DEF Ascending
  <2> QED BY <2>1, <2>2
<1>3. CASE Len(q) >= 2
  <2>1. PICK down : down = (CompareTo(s, q[2], q[2 - 1]) < 0)
    OBVIOUS
  <2> DEFINE runs == {k \in 2 .. Len(q) :
                         \A i \in 2 .. k : (CompareTo(s, q[i], q[i - 1]) < 0)
                                             = (CompareTo(s, q[2], q[2 - 1]) < 0)}
  <2>2. PICK run : run = CHOOSE k \in runs : \A j \in runs : j <= k
    OBVIOUS
  <2>3. runs \subseteq 2 .. Len(q) /\ 2 \in runs
    <3>1. 2 \in 2 .. Len(q) /\ \A i \in 2 .. 2 : i = 2
      BY <1>1, <1>3
    <3> QED BY <3>1
  <2>4. run \in runs
    <3> HIDE DEF runs
    <3>1. \E k \in runs : \A j \in runs : j <= k
      BY <1>1, <2>3, LongestRun
    <3> QED BY <2>2, <3>1
  <2>5. /\ down \in BOOLEAN /\ run \in 2 .. Len(q) /\ run \in 1 .. Len(q)
        /\ \A i \in 2 .. run : (CompareTo(s, q[i], q[i - 1]) < 0) = down
    BY <1>1, <2>1, <2>4
  <2>6. PICK first : first = IF down THEN Reverse(SubSeq(q, 1, run)) ELSE SubSeq(q, 1, run)
    OBVIOUS
  <2>7. Holds(first, q, run, A, B)
    BY <2>5, <2>6, FirstRunAscends
  <2>8. PICK N : N = Len(q) - run
    OBVIOUS
  <2>9. PICK f : f = CHOOSE g : Inserts(s, q, run, first, N, g)
    OBVIOUS
  <2>10. t = f[N]
    <3>1. ~(Len(q) < 2)
      BY <1>1, <1>3
    <3> QED BY <2>1, <2>2, <2>6, <2>8, <2>9, <3>1, ZenonT(60) DEF Sorted, Inserts
  <2>11. Inserts(s, q, run, first, N, f)
    <3>1. \E g : Inserts(s, q, run, first, N, g)
      BY <2>5, <2>7, <2>8, InsertionExists
    <3> QED BY <2>9, <3>1
  <2> QED BY <2>5, <2>7, <2>8, <2>10, <2>11, InsertedIs
<1> QED BY <1>1, <1>2, <1>3

\* In whatever order the hash table lists the renderables, the sorted list has them all
\* in the promised order.
LEMMA SceneIsSorted ==
    ASSUME NEW s, Scene(s), NEW N \in Nat, DOMAIN s \subseteq 0 .. N,
           NEW S, S \subseteq DOMAIN s, Untied(s, S),
           NEW q \in InHashOrder(S), NEW t, t = Sorted(s, q)
    PROVE  /\ Range(t) = S
           /\ \A i, j \in DOMAIN t : i < j => Below(s, t[i], t[j])
<1>1. PICK B : B = {b \in S \X S : Below(s, b[1], b[2])}
  OBVIOUS
<1>2. ASSUME NEW a \in S, NEW b \in S PROVE <<a, b>> \in B <=> Below(s, a, b)
  BY <1>1
<1>3. IsOrder(S, B)
  BY <1>2, BelowIsOrder DEF IsOrder
<1>4. Compares(s, S, B)
  <2> SUFFICES ASSUME NEW a \in S, NEW b \in S
               PROVE  CompareTo(s, a, b) < 0 <=> <<a, b>> \in B
    BY DEF Compares
  <2>1. CASE a = b
    <3>1. CompareTo(s, a, b) = 0
      BY <2>1 DEF CompareTo
    <3> QED BY <1>3, <2>1, <3>1 DEF IsOrder
  <2>2. CASE a # b
    <3>1. ~Tie(s, a, b)
      BY DEF Untied
    <3>2. CompareTo(s, a, b) = IF Below(s, a, b) THEN -1 ELSE 1
      BY <2>2, <3>1, CompareIsBelow
    <3> QED BY <1>2, <3>2
  <2> QED BY <2>1, <2>2
<1>5. PICK n : n = Cardinality(S) /\ n \in Nat
  <2>1. IsFiniteSet(0 .. N)
    BY FS_Interval
  <2>2. IsFiniteSet(S)
    BY <2>1, FS_Subset
  <2> QED BY <2>2, FS_CardinalityType
<1>6. /\ q \in [1 .. n -> S] /\ Range(q) = S
      /\ \A i, j \in DOMAIN q : i < j => HashOrder(q[i], q[j])
  BY <1>5 DEF InHashOrder
<1>7. q \in Seq(S) /\ Len(q) = n /\ DOMAIN q = 1 .. n
  BY <1>5, <1>6
<1>8. Distinct(q)
  <2> SUFFICES ASSUME NEW i \in 1 .. n, NEW j \in 1 .. n, i < j, q[i] = q[j] PROVE FALSE
    BY <1>5, <1>7 DEF Distinct
  <2>1. q[i] % Capacity < q[i] % Capacity
    BY <1>6, <1>7 DEF HashOrder
  <2>2. q[i] \in Nat
    BY <1>6, <1>7
  <2>3. q[i] % Capacity \in Int
    BY <2>2, OrderAssumption
  <2> QED BY <2>1, <2>3
<1>9. t \in Seq(S) /\ Ascending(t, B) /\ Elements(t) = Elements(q)
  BY <1>3, <1>4, <1>7, <1>8, SortedIs
<1>10. DOMAIN t = 1 .. Len(t) /\ \A i \in 1 .. Len(t) : t[i] \in S
  BY <1>9
<1>11. Range(t) = Elements(t) /\ Range(q) = Elements(q)
  BY <1>7, <1>10 DEF Range, Elements
<1>12. \A i, j \in DOMAIN t : i < j => Below(s, t[i], t[j])
  BY <1>2, <1>9, <1>10 DEF Ascending
<1> QED BY <1>6, <1>9, <1>11, <1>12

\* A frame of a scene without ties draws what there is, in the promised order.
\* (Sorted is the sort of fewer than 32 elements; nothing here needs that bound.)
THEOREM DrawnInOrder == Spec => []UntiedIsExact
<1>1. Init => UntiedIsExact
  BY DEF Init, UntiedIsExact
<1>2. SceneInv /\ UntiedIsExact /\ [Next]_vars => UntiedIsExact'
  <2> SUFFICES ASSUME SceneInv, UntiedIsExact, [Next]_vars PROVE UntiedIsExact'
    OBVIOUS
  <2>1. CASE Script
    <3>1. pc = "script" /\ pc' = pc
      BY <2>1 DEF Script, Create, SetCoordinates, SetViewport, Dispose
    <3> QED BY <3>1 DEF UntiedIsExact
  <2>2. CASE SortList
    <3>1. made' = made /\ alive' = alive
      BY <2>2 DEF SortList
    <3>2. PICK q \in InHashOrder(alive) : list' = Sorted(made, q)
      BY <2>2 DEF SortList
    <3>3. /\ Scene(made) /\ alive \subseteq DOMAIN made
          /\ counter \in Nat /\ DOMAIN made \subseteq 0 .. counter
      BY DEF SceneInv
    <3>4. ASSUME Untied(made, alive)
          PROVE  /\ Range(list') = alive
                 /\ \A i, j \in DOMAIN list' : i < j => Below(made, list'[i], list'[j])
      BY <3>2, <3>3, <3>4, SceneIsSorted
    <3> QED BY <3>1, <3>4 DEF UntiedIsExact
  <2>3. CASE DrawList
    BY <2>3 DEF DrawList, UntiedIsExact
  <2>4. CASE UNCHANGED vars
    BY <2>4 DEF vars, UntiedIsExact
  <2> QED BY <2>1, <2>2, <2>3, <2>4 DEF Next
<1> QED BY <1>1, <1>2, SceneAlways, PTL DEF Spec
=============================================================================
