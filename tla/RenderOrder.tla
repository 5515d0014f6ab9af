---------------------------- MODULE RenderOrder -----------------------------
(***************************************************************************)
(* The order in which a frame draws the renderables: compareTo, and the    *)
(* sort of java.util that is given it.  A renderable is its creationTime;  *)
(* what compareTo looks at is its viewport, z and y.                       *)
(*                                                                         *)
(* The sort starts from the order in which a HashMap lists its values, that*)
(* of the creation times modulo the capacity of its table.                 *)
(***************************************************************************)
EXTENDS Integers, FiniteSets, SequencesExt

CONSTANTS
    MaxRenderables,  \* bound: how many renderables the script makes
    Capacity,        \* of the hash table, a power of two; it never grows here
    Starts,          \* the values counter may have when the scene begins
    Coordinates      \* the z and y a script sets

ASSUME OrderAssumption ==
    /\ MaxRenderables \in Nat
    /\ Capacity \in Nat \ {0} /\ 4 * MaxRenderables <= 3 * Capacity
    /\ Starts \subseteq Nat
    /\ Coordinates \subseteq Int

VARIABLES
    start,    \* counter when the scene began
    counter,  \* AbstractRenderable.counter
    made,     \* what the script has made: creationTime -> what it is
    alive,    \* the keys of renderQueue
    pc,       \* "script", or "draw" while a frame draws its list
    list      \* the list the frame sorted

vars == <<start, counter, made, alive, pc, list>>

None == -1
Times == UNION {s .. s + MaxRenderables - 1 : s \in Starts}
Renderable == [isViewport : BOOLEAN, viewport : Times \cup {None},
               z : Coordinates, y : Coordinates]

-----------------------------------------------------------------------------
(* compareTo, on a scene s.                                                *)

\* Integer.compare and Long.compare
Sign(a, b) == IF a < b THEN -1 ELSE IF a > b THEN 1 ELSE 0

\* What the coordinates of o are compared as when p is in another viewport.
Standing(s, o) == IF s[o].viewport = None THEN o ELSE s[o].viewport

\* Mutant: it forgets that a viewport is drawn over what is in it.
CompareTo_NoContents(s, o, p) ==
    IF o = p THEN 0
    ELSE LET apart == s[o].viewport # s[p].viewport
             o1 == IF apart THEN Standing(s, o) ELSE o
             o2 == IF apart THEN Standing(s, p) ELSE p
         IN  IF s[o1].z # s[o2].z THEN Sign(s[o1].z, s[o2].z)
             ELSE IF s[o1].y # s[o2].y THEN Sign(s[o1].y, s[o2].y)
             ELSE Sign(o1, p)

\* Mutant: z and y of the renderables themselves, as in alternateComparator.
CompareTo_OwnY(s, o, p) ==
    IF o = p THEN 0
    ELSE IF s[p].viewport = o THEN 1
    ELSE IF s[o].viewport = p THEN -1
    ELSE LET o1 == Standing(s, o)
             o2 == Standing(s, p)
         IN  IF s[o1].z # s[o2].z THEN Sign(s[o1].z, s[o2].z)
             ELSE IF s[o].y # s[p].y THEN Sign(s[o].y, s[p].y)
             ELSE Sign(o, p)

\* AbstractRenderable.compareTo: in its last line o1 may be the viewport of o,
\* but p is never replaced.
CompareTo(s, o, p) ==
    IF o = p THEN 0
    ELSE IF s[p].viewport = o THEN 1
    ELSE IF s[o].viewport = p THEN -1
    ELSE LET apart == s[o].viewport # s[p].viewport
             o1 == IF apart THEN Standing(s, o) ELSE o
             o2 == IF apart THEN Standing(s, p) ELSE p
         IN  IF s[o1].z # s[o2].z THEN Sign(s[o1].z, s[o2].z)
             ELSE IF s[o1].y # s[o2].y THEN Sign(s[o1].y, s[o2].y)
             ELSE Sign(o1, p)

-----------------------------------------------------------------------------
(* Collections.sort for fewer than 32 elements.                            *)

\* The bounds of the binary search for the place of p in q, halved once.
Halved(s, q, p, b) ==
    LET mid == (b.left + b.right) \div 2
    IN  IF b.left >= b.right THEN b
        ELSE IF CompareTo(s, p, q[mid + 1]) < 0 THEN [left |-> b.left, right |-> mid]
        ELSE [left |-> mid + 1, right |-> b.right]

\* How many of the sorted q come before p: more than Len(q) turns are not needed.
Place(s, q, p) ==
    LET bounds[n \in 0 .. Len(q)] ==
            IF n = 0 THEN [left |-> 0, right |-> Len(q)]
            ELSE Halved(s, q, p, bounds[n - 1])
    IN  bounds[Len(q)].left

Insert(s, q, p) == InsertAt(q, Place(s, q, p) + 1, p)

\* The longest run at the beginning, reversed if it descends; then the other
\* elements are inserted one by one.
Sorted(s, q) ==
    LET descends(i) == CompareTo(s, q[i], q[i - 1]) < 0
        runs == {k \in 2 .. Len(q) : \A i \in 2 .. k : descends(i) = descends(2)}
        run == CHOOSE k \in runs : \A j \in runs : j <= k
        head == SubSeq(q, 1, run)
        inserted[n \in 0 .. Len(q) - run] ==
            IF n = 0 THEN IF descends(2) THEN Reverse(head) ELSE head
            ELSE Insert(s, inserted[n - 1], q[run + n])
    IN  IF Len(q) < 2 THEN q ELSE inserted[Len(q) - run]

\* renderQueue.values(): by bucket, of which none has two renderables.
HashOrder(o, p) == o % Capacity < p % Capacity
InHashOrder(S) ==
    {q \in [1 .. Cardinality(S) -> S] :
        /\ Range(q) = S
        /\ \A i, j \in DOMAIN q : i < j => HashOrder(q[i], q[j])}

-----------------------------------------------------------------------------
Init ==
    /\ start \in Starts /\ counter = start
    /\ made = <<>> /\ alive = {}
    /\ pc = "script" /\ list = <<>>

Viewportish == {None} \cup {v \in DOMAIN made : made[v].isViewport}

\* The constructor, and the setters a script calls before the next frame.
Create(r) ==
    /\ counter < start + MaxRenderables
    /\ r.viewport \in Viewportish
    /\ r.isViewport => r.viewport = None
    /\ counter' = counter + 1
    /\ made' = [o \in start .. counter |-> IF o = counter THEN r ELSE made[o]]
    /\ alive' = alive \cup {counter}
    /\ UNCHANGED <<start, pc, list>>

\* setZ, setY, and the change of a viewport's Rect
SetCoordinates(o, z, y) ==
    /\ made' = [made EXCEPT ![o].z = z, ![o].y = y]
    /\ UNCHANGED <<start, counter, alive, pc, list>>

SetViewport(o, v) ==
    /\ ~made[o].isViewport
    /\ v \in Viewportish
    /\ made' = [made EXCEPT ![o].viewport = v]
    /\ UNCHANGED <<start, counter, alive, pc, list>>

\* A renderable whose viewport is disposed of keeps it.
Dispose(o) ==
    /\ alive' = alive \ {o}
    /\ UNCHANGED <<start, counter, made, pc, list>>

\* The list of renderToBoundFramebuffer
SortList ==
    /\ pc = "script"
    /\ \E q \in InHashOrder(alive) : list' = Sorted(made, q)
    /\ pc' = "draw"
    /\ UNCHANGED <<start, counter, made, alive>>

DrawList ==
    /\ pc = "draw"
    /\ list' = <<>>
    /\ pc' = "script"
    /\ UNCHANGED <<start, counter, made, alive>>

Script ==
    /\ pc = "script"
    /\ \/ \E r \in Renderable : Create(r)
       \/ \E o \in DOMAIN made, z, y \in Coordinates : SetCoordinates(o, z, y)
       \/ \E o \in DOMAIN made, v \in Times \cup {None} : SetViewport(o, v)
       \/ \E o \in alive : Dispose(o)

Next == Script \/ SortList \/ DrawList

Spec == Init /\ [][Next]_vars

-----------------------------------------------------------------------------
(* The order the game is promised.                                         *)

\* o and p stand apart but at the same place, and were not generated in the order
\* in which what they stand in was: then compareTo, which takes the time of one
\* from its viewport and that of the other from itself, contradicts the order.
Tie(s, o, p) ==
    LET g == Standing(s, o)
        h == Standing(s, p)
    IN  /\ g # h
        /\ s[g].z = s[h].z /\ s[g].y = s[h].y
        /\ (g < p) # (g < h) \/ (h < o) # (h < g)

Untied(s, S) == \A o, p \in S : ~Tie(s, o, p)

\* By z, then y, then time of creation.
Under(s, o, p) ==
    \/ s[o].z < s[p].z
    \/ s[o].z = s[p].z /\ s[o].y < s[p].y
    \/ s[o].z = s[p].z /\ s[o].y = s[p].y /\ o < p

\* Renderables are drawn group by group, a viewport after what is in it.
Below(s, o, p) ==
    LET g == Standing(s, o)
        h == Standing(s, p)
    IN  IF g # h THEN Under(s, g, h)
        ELSE o # g /\ (p = g \/ Under(s, o, p))

\* The comparator that a frame gives the sort keeps the contract of Comparable
\* whenever no two renderables tie, whatever the script did before.
ContractKept ==
    Untied(made, alive) =>
        \A o, p, q \in alive :
            /\ CompareTo(made, o, p) = -CompareTo(made, p, o)
            /\ CompareTo(made, o, p) < 0 /\ CompareTo(made, p, q) < 0
                   => CompareTo(made, o, q) < 0

\* When no two renderables tie like this, the frame draws them all, in the
\* promised order, in whatever order the hash table lists them.
UntiedIsExact ==
    pc = "draw" /\ Untied(made, alive) =>
        /\ Range(list) = alive
        /\ \A i, j \in DOMAIN list : i < j => Below(made, list[i], list[j])

\* Of two sprites in the same viewport, or both in none, that have the same z and
\* y, the one that was generated later is drawn closer to the player: Sprite.java
\* promises it of every two, these are the least of them.
LaterIsCloser ==
    pc = "draw" =>
        \A i, j \in DOMAIN list :
            LET o == made[list[i]]
                p == made[list[j]]
            IN  ~o.isViewport /\ o = p /\ list[i] < list[j] => i < j
=============================================================================
