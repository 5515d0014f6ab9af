------------------------- MODULE RenderQueueProofs --------------------------
(* What the render queue promises, for every number of renderables, and that *)
(* it implements the stage.                                                  *)
EXTENDS RenderQueue, TLAPS

\* A viewport is in no other viewport, and what refers to one refers to a
\* Viewport object.
ViewportsAreFlat ==
    /\ \A v \in viewports : viewport[v] = None
    /\ \A o \in Ids : viewport[o] \in viewports \cup {None}

\* What the script holds and what the frame is going to draw is not garbage, nor
\* is the viewport of what is not; what the reference queue has, is.
NotGarbage ==
    /\ held \cap cleared = {}
    /\ list \cap cleared = {}
    /\ \A o \in Created \ cleared : viewport[o] \notin cleared
    /\ \A i \in DOMAIN refQueue : refQueue[i] \in cleared

\* The entry between filter and map is a renderable.
CurIsEntry == pc = "map" => cur \in Created

\* While the list is made, each renderable on the stage is in it or still to come.
Listing ==
    /\ list \subseteq registry
    /\ pc \in {"script", "cleanup"} => list = {}
    /\ pc \in {"filter", "map"} => todo \subseteq registry
    /\ pc = "filter" => registry \ cleared \subseteq list \cup todo
    /\ pc = "map" =>
          /\ registry \ cleared \subseteq list \cup todo \cup {cur}
          /\ cur \in registry
    /\ pc = "draw" => list = registry \ cleared

-----------------------------------------------------------------------------
(* Type correctness.                                                         *)

\* The entry under way and the viewports have the kind their uses need.
Typed == TypeOK /\ CurIsEntry /\ ViewportsAreFlat

LEMMA TypedInit == Init => Typed
<1> SUFFICES ASSUME Init PROVE Typed
  OBVIOUS
<1> USE DEF Init
<1>1. Created = {}
  BY MaxRenderablesAssumption DEF Created, Ids
<1>2. refQueue \in Seq(Ids)
  OBVIOUS
<1>3. counter \in 0 .. MaxRenderables
  BY MaxRenderablesAssumption
<1>4. viewport \in [Ids -> Ids \cup {None}]
  OBVIOUS
<1>5. TypeOK
  BY <1>1, <1>2, <1>3, <1>4, Zenon DEF TypeOK
<1>6. CurIsEntry /\ ViewportsAreFlat
  BY DEF CurIsEntry, ViewportsAreFlat
<1> QED
  BY <1>5, <1>6 DEF Typed

LEMMA TypedNext == Typed /\ [Next]_vars => Typed'
<1> SUFFICES ASSUME Typed, [Next]_vars PROVE Typed'
  OBVIOUS
<1> USE MaxRenderablesAssumption DEF Typed, TypeOK, CurIsEntry, ViewportsAreFlat, Ids,
   None, Created, scriptVars, gcVars, frameVars
<1>1. ASSUME NEW isViewport \in BOOLEAN, NEW v \in Viewportish, Create(isViewport, v)
       PROVE  Typed'
  BY <1>1 DEF Create, Viewportish
<1>2. ASSUME NEW o \in held, NEW v \in Viewportish, SetViewport(o, v)
       PROVE  Typed'
  BY <1>2 DEF SetViewport, Viewportish
<1>3. ASSUME NEW o \in held, Dispose(o)
       PROVE  Typed'
  BY <1>3 DEF Dispose
<1>4. ASSUME NEW o \in held, Drop(o)
       PROVE  Typed'
  BY <1>4 DEF Drop
<1>5. ASSUME NEW o \in held, FetchViewport(o)
       PROVE  Typed'
  BY <1>5 DEF FetchViewport
<1>6. CASE FrameBegin
  BY <1>6 DEF FrameBegin
<1>7. CASE CleanupPoll
  <2>1. Tail(refQueue) \in Seq(Ids)
    BY <1>7 DEF CleanupPoll
  <2>2. registry' \subseteq registry
    BY <1>7 DEF CleanupPoll
  <2> QED
    BY <1>7, <2>1, <2>2 DEF CleanupPoll
<1>8. CASE CleanupDone
  BY <1>8 DEF CleanupDone
<1>9. ASSUME NEW o \in todo, Filter(o)
       PROVE  Typed'
  BY <1>9 DEF Filter
<1>10. CASE MapGet
  BY <1>10 DEF MapGet
<1>11. CASE SnapshotDone
  BY <1>11 DEF SnapshotDone
<1>12. CASE Draw
  BY <1>12 DEF Draw
<1>13. ASSUME NEW o \in Ids, Collect(o)
       PROVE  Typed'
  BY <1>13 DEF Collect, Reachable
<1>14. ASSUME NEW o \in Ids, Enqueue(o)
       PROVE  Typed'
  BY <1>14 DEF Enqueue
<1>15. CASE UNCHANGED vars
  BY <1>15 DEF vars
<1> QED
  BY <1>1, <1>2, <1>3, <1>4, <1>5, <1>6, <1>7, <1>8, <1>9, <1>10, <1>11, <1>12,
     <1>13, <1>14, <1>15
     DEF Next, Script, Frame

\* Every variable keeps its type.
THEOREM TypeCorrect == Spec => []TypeOK
<1>1. Spec => []Typed
  BY TypedInit, TypedNext, PTL DEF Spec
<1>2. Typed => TypeOK
  BY DEF Typed
<1> QED
  BY <1>1, <1>2, PTL

-----------------------------------------------------------------------------
(* The collector takes nothing that is in use.                               *)

\* What the second read of a weak reference does to the list.
LEMMA MapGetList ==
    MapGet => IF cur \in cleared THEN list' = list /\ nullSeen'
              ELSE list' = list \cup {cur} /\ nullSeen' = nullSeen
  BY Zenon DEF MapGet

LEMMA GarbageNext == Typed /\ NotGarbage /\ [Next]_vars => NotGarbage'
<1> SUFFICES ASSUME Typed, NotGarbage, [Next]_vars PROVE NotGarbage'
  OBVIOUS
<1> USE MaxRenderablesAssumption DEF Typed, TypeOK, ViewportsAreFlat,
   NotGarbage, Ids, None, Created, scriptVars, gcVars, frameVars
<1>1. ASSUME NEW isViewport \in BOOLEAN, NEW v \in Viewportish, Create(isViewport, v)
       PROVE  NotGarbage'
  BY <1>1 DEF Create, Viewportish
<1>2. ASSUME NEW o \in held, NEW v \in Viewportish, SetViewport(o, v)
       PROVE  NotGarbage'
  BY <1>2 DEF SetViewport, Viewportish
<1>3. ASSUME NEW o \in held, Dispose(o)
       PROVE  NotGarbage'
  BY <1>3 DEF Dispose
<1>4. ASSUME NEW o \in held, Drop(o)
       PROVE  NotGarbage'
  BY <1>4 DEF Drop
<1>5. ASSUME NEW o \in held, FetchViewport(o)
       PROVE  NotGarbage'
  BY <1>5 DEF FetchViewport
<1>6. CASE FrameBegin
  BY <1>6 DEF FrameBegin
<1>7. CASE CleanupPoll
  <2>1. \A i \in DOMAIN Tail(refQueue) : Tail(refQueue)[i] = refQueue[i + 1]
                                       /\ i + 1 \in DOMAIN refQueue
    BY <1>7 DEF CleanupPoll
  <2> QED
    BY <1>7, <2>1 DEF CleanupPoll
<1>8. CASE CleanupDone
  BY <1>8 DEF CleanupDone
<1>9. ASSUME NEW o \in todo, Filter(o)
       PROVE  NotGarbage'
  BY <1>9 DEF Filter
<1>10. CASE MapGet
  <2>1. CASE list' = list
    BY <1>10, <2>1 DEF MapGet
  <2>2. CASE list' = list \cup {cur} /\ cur \notin cleared
    BY <1>10, <2>2 DEF MapGet
  <2> QED
    BY <1>10, <2>1, <2>2, MapGetList
<1>11. CASE SnapshotDone
  BY <1>11 DEF SnapshotDone
<1>12. CASE Draw
  BY <1>12 DEF Draw
<1>13. ASSUME NEW o \in Ids, Collect(o)
       PROVE  NotGarbage'
  <2> DEFINE gone == {o} \cup {p \in Created \ (cleared \cup Reachable) : viewport[p] = o}
  <2>1. o \in Created \ (cleared \cup Reachable) /\ cleared' = cleared \cup gone
    BY <1>13 DEF Collect
  <2>2. held \cap gone = {} /\ list \cap gone = {}
    BY <2>1 DEF Reachable
  <2>3. ASSUME NEW q \in Created \ (cleared \cup gone)
        PROVE  viewport[q] \notin gone
    <3>1. viewport[q] # o
      <4>1. CASE q \in Reachable
        BY <2>1, <4>1 DEF Reachable
      <4>2. CASE q \notin Reachable
        BY <2>3, <4>2
      <4> QED
        BY <4>1, <4>2
    <3>2. ASSUME NEW p \in Created, viewport[p] = o PROVE viewport[q] # p
      BY <3>2
    <3> QED
      BY <3>1, <3>2
  <2> QED
    BY <1>13, <2>1, <2>2, <2>3 DEF Collect
<1>14. ASSUME NEW o \in Ids, Enqueue(o)
       PROVE  NotGarbage'
  <2>1. \A i \in DOMAIN refQueue' : refQueue'[i] \in cleared
    BY <1>14 DEF Enqueue
  <2> QED
    BY <1>14, <2>1 DEF Enqueue
<1>15. CASE UNCHANGED vars
  BY <1>15 DEF vars
<1> QED
  BY <1>1, <1>2, <1>3, <1>4, <1>5, <1>6, <1>7, <1>8, <1>9, <1>10, <1>11, <1>12,
     <1>13, <1>14, <1>15
     DEF Next, Script, Frame

-----------------------------------------------------------------------------
(* The registry is exact.                                                    *)

LEMMA TailElements ==
    ASSUME NEW s \in Seq(Ids), s # <<>>
    PROVE  ToSet(s) \subseteq {Head(s)} \cup ToSet(Tail(s))
<1>1. Head(s) = s[1] /\ Len(Tail(s)) = Len(s) - 1 /\ Len(s) \in Nat
  OBVIOUS
<1>2. \A i \in 1 .. Len(s) : i = 1 \/ (i - 1 \in 1 .. Len(Tail(s)) /\ s[i] = Tail(s)[i - 1])
  BY <1>1
<1>3. DOMAIN s = 1 .. Len(s) /\ DOMAIN Tail(s) = 1 .. Len(Tail(s))
  OBVIOUS
<1> QED
  BY <1>1, <1>2, <1>3 DEF ToSet

LEMMA AppendElements ==
    ASSUME NEW s \in Seq(Ids), NEW o \in Ids
    PROVE  {o} \cup ToSet(s) \subseteq ToSet(Append(s, o))
<1>1. \A i \in DOMAIN s : i \in DOMAIN Append(s, o) /\ Append(s, o)[i] = s[i]
  OBVIOUS
<1>2. Len(s) + 1 \in DOMAIN Append(s, o) /\ Append(s, o)[Len(s) + 1] = o
  OBVIOUS
<1> QED
  BY <1>1, <1>2 DEF ToSet

LEMMA RegistryNext == Typed /\ NotGarbage /\ RegistryExact /\ [Next]_vars => RegistryExact'
<1> SUFFICES ASSUME Typed, NotGarbage, RegistryExact, [Next]_vars PROVE RegistryExact'
  OBVIOUS
<1> USE MaxRenderablesAssumption DEF Typed, TypeOK, NotGarbage, RegistryExact,
   Ids, None, Created, scriptVars, gcVars, frameVars
<1>1. ASSUME NEW isViewport \in BOOLEAN, NEW v \in Viewportish, Create(isViewport, v)
       PROVE  RegistryExact'
  BY <1>1 DEF Create, Viewportish
<1>2. ASSUME NEW o \in held, NEW v \in Viewportish, SetViewport(o, v)
       PROVE  RegistryExact'
  BY <1>2 DEF SetViewport, Viewportish
<1>3. ASSUME NEW o \in held, Dispose(o)
       PROVE  RegistryExact'
  BY <1>3 DEF Dispose
<1>4. ASSUME NEW o \in held, Drop(o)
       PROVE  RegistryExact'
  BY <1>4 DEF Drop
<1>5. ASSUME NEW o \in held, FetchViewport(o)
       PROVE  RegistryExact'
  BY <1>5 DEF FetchViewport
<1>6. CASE FrameBegin
  BY <1>6 DEF FrameBegin
<1>7. CASE CleanupPoll
  <2>1. ToSet(refQueue) \subseteq {Head(refQueue)} \cup ToSet(refQueue')
    BY <1>7, TailElements DEF CleanupPoll
  <2>2. Head(refQueue) \in cleared
    BY <1>7 DEF CleanupPoll
  <2> QED
    BY <1>7, <2>1, <2>2 DEF CleanupPoll
<1>8. CASE CleanupDone
  BY <1>8 DEF CleanupDone
<1>9. ASSUME NEW o \in todo, Filter(o)
       PROVE  RegistryExact'
  BY <1>9 DEF Filter
<1>10. CASE MapGet
  BY <1>10 DEF MapGet
<1>11. CASE SnapshotDone
  BY <1>11 DEF SnapshotDone
<1>12. CASE Draw
  BY <1>12 DEF Draw
<1>13. ASSUME NEW o \in Ids, Collect(o)
       PROVE  RegistryExact'
  BY <1>13 DEF Collect, Reachable
<1>14. ASSUME NEW o \in Ids, Enqueue(o)
       PROVE  RegistryExact'
  <2>1. {o} \cup ToSet(refQueue) \subseteq ToSet(refQueue')
    BY <1>14, AppendElements DEF Enqueue
  <2> QED
    BY <1>14, <2>1 DEF Enqueue
<1>15. CASE UNCHANGED vars
  BY <1>15 DEF vars
<1> QED
  BY <1>1, <1>2, <1>3, <1>4, <1>5, <1>6, <1>7, <1>8, <1>9, <1>10, <1>11, <1>12,
     <1>13, <1>14, <1>15
     DEF Next, Script, Frame

\* The keys of the registry are the renderables on the stage and the garbage the
\* frames to come are going to remove: dispose and cleanup miss nothing.
THEOREM RegistryIsExact == Spec => []RegistryExact
<1>1. Init => Typed /\ NotGarbage /\ RegistryExact
  <2> SUFFICES ASSUME Init PROVE NotGarbage /\ RegistryExact
    BY TypedInit
  <2>1. Created = {}
    BY MaxRenderablesAssumption DEF Created, Ids, Init
  <2> QED
    BY <2>1 DEF Init, NotGarbage, RegistryExact
<1> QED
  BY <1>1, TypedNext, GarbageNext, RegistryNext, PTL DEF Spec

-----------------------------------------------------------------------------
(* The frame is exact.                                                       *)

LEMMA ListingNext == Typed /\ NotGarbage /\ Listing /\ [Next]_vars => Listing'
<1> SUFFICES ASSUME Typed, NotGarbage, Listing, [Next]_vars PROVE Listing'
  OBVIOUS
<1> USE MaxRenderablesAssumption DEF Typed, TypeOK, NotGarbage, Listing,
   Ids, None, Created, scriptVars, gcVars, frameVars
<1>1. ASSUME NEW isViewport \in BOOLEAN, NEW v \in Viewportish, Create(isViewport, v)
       PROVE  Listing'
  BY <1>1 DEF Create, Viewportish
<1>2. ASSUME NEW o \in held, NEW v \in Viewportish, SetViewport(o, v)
       PROVE  Listing'
  BY <1>2 DEF SetViewport, Viewportish
<1>3. ASSUME NEW o \in held, Dispose(o)
       PROVE  Listing'
  BY <1>3 DEF Dispose
<1>4. ASSUME NEW o \in held, Drop(o)
       PROVE  Listing'
  BY <1>4 DEF Drop
<1>5. ASSUME NEW o \in held, FetchViewport(o)
       PROVE  Listing'
  BY <1>5 DEF FetchViewport
<1>6. CASE FrameBegin
  BY <1>6 DEF FrameBegin
<1>7. CASE CleanupPoll
  BY <1>7 DEF CleanupPoll
<1>8. CASE CleanupDone
  BY <1>8 DEF CleanupDone
<1>9. ASSUME NEW o \in todo, Filter(o)
       PROVE  Listing'
  BY <1>9 DEF Filter
<1>10. CASE MapGet
  <2>1. CASE cur \in cleared
    BY <1>10, <2>1, MapGetList DEF MapGet
  <2>2. CASE cur \notin cleared
    BY <1>10, <2>2, MapGetList DEF MapGet
  <2> QED
    BY <2>1, <2>2
<1>11. CASE SnapshotDone
  BY <1>11 DEF SnapshotDone
<1>12. CASE Draw
  BY <1>12 DEF Draw
<1>13. ASSUME NEW o \in Ids, Collect(o)
       PROVE  Listing'
  <2>1. list \cap cleared' = {}
    BY <1>13 DEF Collect, Reachable
  <2> QED
    BY <1>13, <2>1 DEF Collect
<1>14. ASSUME NEW o \in Ids, Enqueue(o)
       PROVE  Listing'
  BY <1>14 DEF Enqueue
<1>15. CASE UNCHANGED vars
  BY <1>15 DEF vars
<1> QED
  BY <1>1, <1>2, <1>3, <1>4, <1>5, <1>6, <1>7, <1>8, <1>9, <1>10, <1>11, <1>12,
     <1>13, <1>14, <1>15
     DEF Next, Script, Frame

\* All of it together is inductive.
Inv == Typed /\ NotGarbage /\ RegistryExact /\ Listing

LEMMA InvCorrect == Spec => []Inv
<1>1. Init => Inv
  <2> SUFFICES ASSUME Init PROVE NotGarbage /\ RegistryExact /\ Listing
    BY TypedInit DEF Inv
  <2>1. Created = {}
    BY MaxRenderablesAssumption DEF Created, Ids, Init
  <2> QED
    BY <2>1 DEF Init, NotGarbage, RegistryExact, Listing
<1>2. Inv /\ [Next]_vars => Inv'
  BY TypedNext, GarbageNext, RegistryNext, ListingNext DEF Inv
<1> QED
  BY <1>1, <1>2, PTL DEF Spec

\* A frame draws every renderable on the stage and no other.
THEOREM FrameIsExact == Spec => []FrameExact
<1>1. Inv => FrameExact
  BY DEF Inv, Listing, FrameExact
<1> QED
  BY <1>1, InvCorrect, PTL

\* What the script holds is drawn or still to come, in a frame that is lost too.
THEOREM HeldAreListed == Spec => []HeldIsListed
<1>1. Inv => HeldIsListed
  BY DEF Inv, Typed, TypeOK, NotGarbage, RegistryExact, Listing, HeldIsListed
<1> QED
  BY <1>1, InvCorrect, PTL

-----------------------------------------------------------------------------
(* The render queue implements the stage.                                    *)

LEMMA StepsAreStageSteps == Inv /\ [Next]_vars => [S!Next]_<<counter, registry \ cleared, shown>>
<1> SUFFICES ASSUME Inv, [Next]_vars
             PROVE  [S!Next]_<<counter, registry \ cleared, shown>>
  OBVIOUS
<1> DEFINE Step == [S!Next]_<<counter, registry \ cleared, shown>>
<1> USE DEF scriptVars, gcVars, frameVars
<1>1. ASSUME NEW isViewport \in BOOLEAN, NEW v \in Viewportish, Create(isViewport, v)
       PROVE  Step
  <2>1. counter \notin cleared
    BY MaxRenderablesAssumption DEF Inv, Typed, TypeOK, Created, Ids
  <2>2. registry' \ cleared' = (registry \ cleared) \cup {counter}
    BY <1>1, <2>1 DEF Create
  <2>3. S!Enter
    BY <1>1, <2>2 DEF Create, S!Enter
  <2> QED
    BY <2>3 DEF S!Next
<1>2. ASSUME NEW o \in held, NEW v \in Viewportish, SetViewport(o, v)
       PROVE  Step
  BY <1>2 DEF SetViewport, Viewportish
<1>3. ASSUME NEW o \in held, Dispose(o)
       PROVE  Step
  <2>1. registry' \ cleared' = (registry \ cleared) \ ({o} \cap (registry \ cleared))
    BY <1>3 DEF Dispose
  <2>2. S!Leave
    BY <1>3, <2>1 DEF Dispose, S!Leave
  <2> QED
    BY <2>2 DEF S!Next
<1>4. ASSUME NEW o \in held, Drop(o)
       PROVE  Step
  BY <1>4 DEF Drop
<1>5. ASSUME NEW o \in held, FetchViewport(o)
       PROVE  Step
  BY <1>5 DEF FetchViewport
<1>6. CASE FrameBegin
  BY <1>6 DEF FrameBegin
<1>7. CASE CleanupPoll
  <2>1. Head(refQueue) \in cleared
    BY <1>7 DEF CleanupPoll, Inv, Typed, TypeOK, NotGarbage
  <2>2. registry' \ cleared' = registry \ cleared
    BY <1>7, <2>1 DEF CleanupPoll
  <2> QED
    BY <1>7, <2>2 DEF CleanupPoll
<1>8. CASE CleanupDone
  BY <1>8 DEF CleanupDone
<1>9. ASSUME NEW o \in todo, Filter(o)
       PROVE  Step
  BY <1>9 DEF Filter
<1>10. CASE MapGet
  BY <1>10 DEF MapGet
<1>11. CASE SnapshotDone
  BY <1>11 DEF SnapshotDone
<1>12. CASE Draw
  <2>1. shown' = registry \ cleared
    BY <1>12 DEF Draw, Inv, Listing
  <2>2. S!Show
    BY <1>12, <2>1 DEF Draw, S!Show
  <2> QED
    BY <2>2 DEF S!Next
<1>13. ASSUME NEW o \in Ids, Collect(o)
       PROVE  Step
  <2> DEFINE gone == (cleared' \ cleared) \cap registry
  <2>1. registry' \ cleared' = (registry \ cleared) \ gone
    BY <1>13 DEF Collect
  <2>2. S!Leave
    BY <1>13, <2>1 DEF Collect, S!Leave
  <2> QED
    BY <2>2 DEF S!Next
<1>14. ASSUME NEW o \in Ids, Enqueue(o)
       PROVE  Step
  BY <1>14 DEF Enqueue
<1>15. CASE UNCHANGED vars
  BY <1>15 DEF vars
<1> QED
  BY <1>1, <1>2, <1>3, <1>4, <1>5, <1>6, <1>7, <1>8, <1>9, <1>10, <1>11, <1>12,
     <1>13, <1>14, <1>15
     DEF Next, Script, Frame

\* Creation, disposal, garbage collection, cleanup and frames together show the
\* game nothing but actors that enter, leave and are shown.
THEOREM ImplementsStage == Spec => StageSpec
<1>1. Init => S!Init
  BY DEF Init, S!Init
<1> QED
  BY <1>1, InvCorrect, StepsAreStageSteps, PTL DEF Spec, StageSpec, S!Spec
=============================================================================
