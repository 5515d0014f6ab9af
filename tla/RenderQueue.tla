---------------------------- MODULE RenderQueue -----------------------------
(***************************************************************************)
(* The registry of everything that is drawn (AbstractRenderable.renderQueue)*)
(* and the frame that reads it (Graphics.renderToBoundFramebuffer).        *)
(*                                                                         *)
(* The registry maps creation times to weak references, so a renderable the*)
(* script drops without dispose() is found by the garbage collector, which *)
(* clears the reference at once and puts it on the reference queue later;  *)
(* cleanup() takes it from there at the start of a frame.  The collector   *)
(* runs between any two steps of a frame, also between the two reads of one*)
(* weak reference.                                                         *)
(***************************************************************************)
EXTENDS Integers, SequencesExt

CONSTANT MaxRenderables  \* bound: how many renderables are ever made

ASSUME MaxRenderablesAssumption == MaxRenderables \in Nat

VARIABLES
    counter,     \* AbstractRenderable.counter; a renderable is its creationTime
    viewports,   \* those that are Viewport objects
    viewport,    \* the viewport field of each renderable
    registry,    \* the keys of renderQueue
    disposed,    \* those with disposed = true
    held,        \* those the script refers to
    cleared,     \* those the collector has taken: get() is null
    pending,     \* cleared references that are not on the reference queue yet
    refQueue,    \* referenceQueue
    pc,          \* where the main thread is
    todo,        \* the stream over renderQueue.values(): entries to come
    cur,         \* the entry between its filter and its map
    list,        \* the list of renderables the frame is going to draw
    nullSeen,    \* that list has a null
    shown        \* what the last complete frame drew

scriptVars == <<counter, viewports, viewport, registry, disposed, held>>
gcVars == <<cleared, pending, refQueue>>
frameVars == <<pc, todo, cur, list, nullSeen, shown>>
vars == <<scriptVars, gcVars, frameVars>>

Ids == 0 .. MaxRenderables - 1
None == -1
Created == {o \in Ids : o < counter}

TypeOK ==
    /\ counter \in 0 .. MaxRenderables
    /\ viewports \subseteq Created
    /\ viewport \in [Ids -> Ids \cup {None}]
    /\ registry \subseteq Created
    /\ disposed \subseteq Created
    /\ held \subseteq Created
    /\ cleared \subseteq Created
    /\ pending \subseteq cleared
    /\ refQueue \in Seq(Ids)
    /\ pc \in {"script", "cleanup", "filter", "map", "draw"}
    /\ todo \subseteq Created
    /\ cur \in Ids \cup {None}
    /\ list \subseteq Created
    /\ nullSeen \in BOOLEAN
    /\ shown \subseteq Created

Init ==
    /\ counter = 0
    /\ viewports = {} /\ viewport = [o \in Ids |-> None]
    /\ registry = {} /\ disposed = {} /\ held = {}
    /\ cleared = {} /\ pending = {} /\ refQueue = <<>>
    /\ pc = "script"
    /\ todo = {} /\ cur = None /\ list = {} /\ nullSeen = FALSE /\ shown = {}

\* What is reachable without weak references: what the script holds, the list
\* of the frame under way, and the viewports of both.
Reachable ==
    LET roots == held \cup list
    IN  roots \cup {viewport[o] : o \in roots}

-----------------------------------------------------------------------------
(* The script.                                                             *)

Viewportish == {None} \cup (held \cap viewports)

\* The constructor of Viewport, Sprite, Plane, Window or of a Tilemap's layer.
Create(isViewport, v) ==
    /\ pc = "script" /\ counter < MaxRenderables
    /\ isViewport => v = None
    /\ counter' = counter + 1
    /\ viewports' = IF isViewport THEN viewports \cup {counter} ELSE viewports
    /\ viewport' = [viewport EXCEPT ![counter] = v]
    /\ registry' = registry \cup {counter}
    /\ held' = held \cup {counter}
    /\ UNCHANGED <<disposed, gcVars, frameVars>>

SetViewport(o, v) ==
    /\ pc = "script" /\ o \notin viewports
    /\ viewport' = [viewport EXCEPT ![o] = v]
    /\ UNCHANGED <<counter, viewports, registry, disposed, held, gcVars, frameVars>>

\* Mutant: dispose() only marks the object.
Dispose_KeepsEntry(o) ==
    /\ pc = "script"
    /\ disposed' = disposed \cup {o}
    /\ UNCHANGED <<counter, viewports, viewport, registry, held, gcVars, frameVars>>

Dispose(o) ==
    /\ pc = "script"
    /\ registry' = registry \ {o}
    /\ disposed' = disposed \cup {o}
    /\ UNCHANGED <<counter, viewports, viewport, held, gcVars, frameVars>>

\* The script forgets o, disposed of or not ...
Drop(o) ==
    /\ pc = "script"
    /\ held' = held \ {o}
    /\ UNCHANGED <<counter, viewports, viewport, registry, disposed, gcVars,
                   frameVars>>

\* ... and may get a viewport back from a renderable that has it.
FetchViewport(o) ==
    /\ pc = "script" /\ viewport[o] # None
    /\ held' = held \cup {viewport[o]}
    /\ UNCHANGED <<counter, viewports, viewport, registry, disposed, gcVars,
                   frameVars>>

Script ==
    \/ \E isViewport \in BOOLEAN, v \in Viewportish : Create(isViewport, v)
    \/ \E o \in held :
          \/ \E v \in Viewportish : SetViewport(o, v)
          \/ Dispose(o)
          \/ Drop(o)
          \/ FetchViewport(o)

-----------------------------------------------------------------------------
(* The garbage collector.                                                  *)

\* The collector clears the reference to an unreachable object, and with it
\* those to the unreachable objects from which it can be reached.
Collect(o) ==
    LET gone == {o} \cup {p \in Created \ (cleared \cup Reachable) : viewport[p] = o}
    IN  /\ o \in Created \ (cleared \cup Reachable)
        /\ cleared' = cleared \cup gone
        /\ pending' = pending \cup (gone \cap registry)
        /\ UNCHANGED <<scriptVars, refQueue, frameVars>>

Enqueue(o) ==
    /\ o \in pending
    /\ pending' = pending \ {o}
    /\ refQueue' = Append(refQueue, o)
    /\ UNCHANGED <<scriptVars, cleared, frameVars>>

-----------------------------------------------------------------------------
(* A frame.                                                                *)

FrameBegin ==
    /\ pc = "script"
    /\ pc' = "cleanup"
    /\ UNCHANGED <<scriptVars, gcVars, todo, cur, list, nullSeen, shown>>

\* Mutant: cleanup() drains the queue without looking at the registry.
CleanupPoll_KeepsEntry ==
    /\ pc = "cleanup" /\ refQueue # <<>>
    /\ refQueue' = Tail(refQueue)
    /\ UNCHANGED <<scriptVars, cleared, pending, frameVars>>

\* One turn of cleanup()'s loop.  A polled reference has been cleared, so the
\* branch that disposes of its referent is never taken.
CleanupPoll ==
    /\ pc = "cleanup" /\ refQueue # <<>>
    /\ refQueue' = Tail(refQueue)
    /\ registry' = registry \ {Head(refQueue)}
    /\ UNCHANGED <<counter, viewports, viewport, disposed, held, cleared, pending,
                   frameVars>>

\* Mutant: the list of the last frame is reused.
CleanupDone_ReusesShown ==
    /\ pc = "cleanup" /\ refQueue = <<>>
    /\ pc' = "filter"
    /\ todo' = registry
    /\ list' = shown \ cleared
    /\ UNCHANGED <<scriptVars, gcVars, cur, nullSeen, shown>>

\* poll() returns null; the stream is opened.
CleanupDone ==
    /\ pc = "cleanup" /\ refQueue = <<>>
    /\ pc' = "filter"
    /\ todo' = registry
    /\ UNCHANGED <<scriptVars, gcVars, cur, list, nullSeen, shown>>

\* Mutant: the entry that passed the test is not kept for the map.
Filter_LosesEntry(o) ==
    /\ pc = "filter" /\ o \in todo
    /\ todo' = todo \ {o}
    /\ pc' = IF o \in cleared THEN "filter" ELSE "map"
    /\ UNCHANGED <<scriptVars, gcVars, cur, list, nullSeen, shown>>

\* filter(reference -> reference.get() != null)
Filter(o) ==
    /\ pc = "filter" /\ o \in todo
    /\ todo' = todo \ {o}
    /\ IF o \in cleared
       THEN UNCHANGED <<pc, cur>>
       ELSE pc' = "map" /\ cur' = o
    /\ UNCHANGED <<scriptVars, gcVars, list, nullSeen, shown>>

\* Mutant: the stream ends at the first null.
MapGet_StopsAtNull ==
    /\ pc = "map"
    /\ IF cur \in cleared
       THEN nullSeen' = TRUE /\ todo' = {} /\ UNCHANGED list
       ELSE list' = list \cup {cur} /\ UNCHANGED <<nullSeen, todo>>
    /\ pc' = "filter" /\ cur' = None
    /\ UNCHANGED <<scriptVars, gcVars, shown>>

\* map(WeakReference::get): the object may be gone by now.
MapGet ==
    /\ pc = "map"
    /\ IF cur \in cleared
       THEN nullSeen' = TRUE /\ UNCHANGED list
       ELSE list' = list \cup {cur} /\ UNCHANGED nullSeen
    /\ pc' = "filter" /\ cur' = None
    /\ UNCHANGED <<scriptVars, gcVars, todo, shown>>

\* The list is complete.  A null in it makes Collections.sort, or the loop that
\* renders, throw: the frame is lost.
SnapshotDone ==
    /\ pc = "filter" /\ todo = {}
    /\ IF nullSeen
       THEN pc' = "script" /\ list' = {}
       ELSE pc' = "draw" /\ UNCHANGED list
    /\ nullSeen' = FALSE
    /\ UNCHANGED <<scriptVars, gcVars, todo, cur, shown>>

\* Every renderable of the sorted list is rendered.
Draw ==
    /\ pc = "draw"
    /\ shown' = list
    /\ list' = {}
    /\ pc' = "script"
    /\ UNCHANGED <<scriptVars, gcVars, todo, cur, nullSeen>>

Frame ==
    \/ CleanupPoll \/ CleanupDone
    \/ \E o \in todo : Filter(o)
    \/ MapGet \/ SnapshotDone \/ Draw

Next ==
    \/ Script
    \/ FrameBegin
    \/ Frame
    \/ \E o \in Ids : Collect(o) \/ Enqueue(o)

Spec == Init /\ [][Next]_vars

\* The reference handler thread runs, a frame that has begun goes on, and a game
\* calls Graphics.update again and again, whatever else its script does.
FairSpec ==
    /\ Spec
    /\ WF_vars(Frame)
    /\ WF_vars(FrameBegin)
    /\ \A o \in Ids : WF_vars(Enqueue(o))

-----------------------------------------------------------------------------
(* What the registry promises.                                             *)

\* The registry has exactly the renderables that are neither disposed of nor
\* garbage, and the entries of garbage that cleanup() is still going to find.
RegistryExact ==
    \A o \in Created :
        IF o \in cleared
        THEN o \in registry => o \in pending \cup ToSet(refQueue)
        ELSE o \in registry <=> o \notin disposed

\* A frame that is drawn has every renderable on the stage and no other,
\* whatever the collector took while the list was made.
FrameExact == pc = "draw" => list = registry \ cleared

\* A frame is lost only to garbage: every renderable the script holds and has
\* not disposed of is in the list, also when the list has a null.
HeldIsListed ==
    pc = "filter" /\ todo = {} => held \ disposed \subseteq list

\* The entry of a renderable that the script lost without dispose() does not
\* stay in the registry.
GarbageIsRemoved ==
    \A o \in Ids : (o \in cleared /\ o \in registry) ~> o \notin registry

\* The stage this module implements.
S == INSTANCE Stage WITH born <- counter, actors <- registry \ cleared

StageSpec == S!Spec
=============================================================================
