------------------------------- MODULE Stage --------------------------------
(***************************************************************************)
(* What the render queue promises to the game script, without references,  *)
(* identifiers or a garbage collector: a set of actors, and frames that    *)
(* show every actor that is on the stage at that moment and no other.      *)
(***************************************************************************)
EXTENDS Integers

CONSTANT MaxRenderables  \* bound: how many renderables are ever made

VARIABLES
    born,    \* how many renderables have been made
    actors,  \* the renderables that are made, not disposed of and not garbage
    shown    \* what the last frame showed

Ids == 0 .. MaxRenderables - 1

Init == born = 0 /\ actors = {} /\ shown = {}

\* A renderable is on the stage as soon as it is made.
Enter ==
    /\ born < MaxRenderables
    /\ born' = born + 1
    /\ actors' = actors \cup {born}
    /\ UNCHANGED shown

\* Renderables leave it for good: the script disposes of one, or nobody refers
\* to them any more.
Leave ==
    /\ \E gone \in SUBSET actors : actors' = actors \ gone
    /\ UNCHANGED <<born, shown>>

Show ==
    /\ shown' = actors
    /\ UNCHANGED <<born, actors>>

Next == Enter \/ Leave \/ Show

Spec == Init /\ [][Next]_<<born, actors, shown>>
=============================================================================
