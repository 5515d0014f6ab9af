---------------------------- MODULE JAudioProofs ----------------------------
(* What the audio subsystem promises, for every number of files and Music    *)
(* objects and every set of calls.                                           *)
EXTENDS JAudio, TLAPS

\* Music objects are made in order, and none is used before it is made.
MadeInOrder ==
    /\ \A c \in Channels : music[c] <= made
    /\ \A m \in Music : m > made =>
          /\ source[m] = "none"
          /\ m \notin looping
          /\ m \notin disposed

\* The fields refer to objects of the right sort, and no two to the same one.
FieldsDiffer ==
    /\ \A c \in {"bgm", "bgs"} : music[c] # NoMusic => music[c] \in looping
    /\ music["me"] \notin looping
    /\ music["bgm"] = music["bgs"] => music["bgm"] = NoMusic

\* A *_stop method past its null check has a music; a field refers to a disposed
\* music exactly while a *_stop method is past dispose(); an ME it has stopped stays silent.
StopsMusic ==
    \A c \in Channels :
        /\ stopping \in {<<c, "dispose">>, <<c, "clear">>} => music[c] # NoMusic
        /\ stopping = <<c, "clear">> <=> music[c] \in disposed
        /\ stopping \in {<<"me", "dispose">>, <<"me", "clear">>}
              => ~Playing(music["me"])

\* What the listener's test has read is the BGM or one that bgm_stop has taken
\* away since.
SeenIsBgm ==
    /\ audioPc # "resume" => seen = NoMusic
    /\ audioPc = "resume" =>
          /\ seen \in looping
          /\ \/ seen = music["bgm"]
             \/ seen \in disposed /\ music["bgm"] = NoMusic

\* The inductive invariant behind LoopingReachable.
Reach == MadeInOrder /\ FieldsDiffer /\ StopsMusic /\ SeenIsBgm /\ LoopingReachable

\* Without overlapping MEs, an ME that sounds is the one me refers to,
\* mePlaying says so, and no completion listener is running.
OneMe ==
    ~overlapped =>
        \A m \in Music : (Playing(m) /\ m \notin looping) =>
            /\ m = music["me"]
            /\ mePlaying
            /\ audioPc \notin {"listener", "resume", "clear"}

\* A program without bgm_stop never is inside it.
NoBgmStop ==
    /\ stopping \notin {<<"bgm", "dispose">>, <<"bgm", "clear">>}
    /\ audioPc = "resume" => music["bgm"] # NoMusic

-----------------------------------------------------------------------------
(* Type correctness.                                                         *)

\* A *_stop method past its null check has a music to dispose of: without this
\* the type of disposed is not inductive.
StopsSome ==
    \A c \in Channels :
        stopping \in {<<c, "dispose">>, <<c, "clear">>} => music[c] # NoMusic

\* newMusic makes the next object and keeps the types of what it changes.
LEMMA NewMusicType ==
    ASSUME NEW src \in [Music -> Sources], NEW f \in Files,
           NEW loops \in BOOLEAN, NEW sound \in BOOLEAN,
           TypeOK, NewMusic(src, f, loops, sound)
    PROVE  /\ made + 1 \in Music
           /\ made' \in 0 .. MaxMusic
           /\ source' \in [Music -> Sources]
           /\ looping' \subseteq Music
           /\ file' \in [Music -> Names]
<1>1. made + 1 \in Music /\ made' \in 0 .. MaxMusic
  BY MaxMusicAssumption DEF TypeOK, NewMusic, Music
<1>2. source' \in [Music -> Sources]
  BY <1>1 DEF NewMusic, Sources
<1>3. looping' \subseteq Music
  BY <1>1 DEF NewMusic, TypeOK
<1>4. file' \in [Music -> Names]
  BY DEF NewMusic, TypeOK, Names
<1> QED
  BY <1>1, <1>2, <1>3, <1>4

\* Silencing and pausing a music leaves every music in one of the states.
LEMMA SilencedPausedType ==
    ASSUME NEW src \in [Music -> Sources], NEW m
    PROVE  /\ Silenced(src, m) \in [Music -> Sources]
           /\ Paused(src, m) \in [Music -> Sources]
BY DEF Silenced, Paused, Sources

\* Every variable keeps its type.
THEOREM TypeCorrect == Spec => []TypeOK
<1>1. Init => TypeOK /\ StopsSome
  <2> SUFFICES ASSUME Init PROVE TypeOK /\ StopsSome
    OBVIOUS
  <2>1. music \in [Channels -> Music \cup {NoMusic}] /\ made \in 0 .. MaxMusic
    BY MaxMusicAssumption DEF Init
  <2>2. source \in [Music -> Sources] /\ file \in [Music -> Names]
    BY DEF Init, Sources, Names
  <2>3. stopping \in StopSteps /\ StopsSome
    BY DEF Init, StopSteps, NotStopping, StopsSome, Channels
  <2>4. /\ bgmFilename \in Names /\ se \in Sounds \cup {NoFile} /\ seCache \subseteq Sounds
        /\ last \in [{"bgm", "bgs"} -> Names]
        /\ seen \in Music \cup {NoMusic}
    BY DEF Init, Names
  <2> QED
    BY <2>1, <2>2, <2>3, <2>4 DEF Init, TypeOK
<1>2. TypeOK /\ StopsSome /\ [Next]_vars => (TypeOK /\ StopsSome)'
  <2> SUFFICES ASSUME TypeOK, StopsSome, [Next]_vars PROVE (TypeOK /\ StopsSome)'
    OBVIOUS
  <2> USE MaxMusicAssumption DEF TypeOK, StopsSome, Channels, Music, NoMusic, Names,
     Sources, StopSteps, InPass, NotStopping, scriptVars, objectVars, audioVars
  <2>1. ASSUME NEW f \in Files, BgmPlaySame(f) PROVE (TypeOK /\ StopsSome)'
    BY <2>1 DEF BgmPlaySame, Ready
  <2>2. ASSUME NEW f \in Files, BgmPlayNew(f) PROVE (TypeOK /\ StopsSome)'
    <3>1. Silenced(source, music["bgm"]) \in [Music -> Sources]
      BY SilencedPausedType
    <3>2. NewMusic(Silenced(source, music["bgm"]), f, TRUE, ~mePlaying)
      BY <2>2 DEF BgmPlayNew
    <3>3. /\ made + 1 \in Music /\ made' \in 0 .. MaxMusic
          /\ source' \in [Music -> Sources]
          /\ looping' \subseteq Music /\ file' \in [Music -> Names]
      BY <3>1, <3>2, NewMusicType, Zenon
    <3> QED
      BY <2>2, <3>3 DEF BgmPlayNew, Ready
  <2>3. ASSUME NEW f \in Files, BgmPlayFails(f) PROVE (TypeOK /\ StopsSome)'
    BY <2>3 DEF BgmPlayFails, Ready, Silenced
  <2>4. ASSUME NEW f \in Files, BgsPlay(f) PROVE (TypeOK /\ StopsSome)'
    <3>1. Silenced(source, music["bgs"]) \in [Music -> Sources]
      BY SilencedPausedType
    <3>2. NewMusic(Silenced(source, music["bgs"]), f, TRUE, ~mePlaying)
      BY <2>4 DEF BgsPlay
    <3>3. /\ made + 1 \in Music /\ made' \in 0 .. MaxMusic
          /\ source' \in [Music -> Sources]
          /\ looping' \subseteq Music /\ file' \in [Music -> Names]
      BY <3>1, <3>2, NewMusicType, Zenon
    <3> QED
      BY <2>4, <3>3 DEF BgsPlay, Ready
  <2>5. CASE BgsPlayFails
    BY <2>5 DEF BgsPlayFails, Ready, Silenced
  <2>6. ASSUME NEW f \in Files, MePlay(f) PROVE (TypeOK /\ StopsSome)'
    BY <2>6 DEF MePlay, NewMusic, Ready, Paused
  <2>7. CASE MePlayFails
    BY <2>7 DEF MePlayFails, Ready, Paused
  <2>8. ASSUME NEW f \in Sounds, SePlay(f) PROVE (TypeOK /\ StopsSome)'
    BY <2>8 DEF SePlay
  <2>9. ASSUME NEW c \in Channels, StopMusic(c) PROVE (TypeOK /\ StopsSome)'
    BY <2>9 DEF StopMusic, Ready, Silenced
  <2>10. ASSUME NEW c \in Channels, StopNothing(c) PROVE (TypeOK /\ StopsSome)'
    BY <2>10 DEF StopNothing, Ready
  <2>11. ASSUME NEW c \in Channels, StopDispose(c) PROVE (TypeOK /\ StopsSome)'
    BY <2>11 DEF StopDispose, Silenced
  <2>12. ASSUME NEW c \in Channels, StopClear(c) PROVE (TypeOK /\ StopsSome)'
    BY <2>12 DEF StopClear
  <2>13. CASE PassBegin
    BY <2>13 DEF PassBegin
  <2>14. CASE ThreadEnds
    BY <2>14 DEF ThreadEnds
  <2>15. CASE PassEnd
    BY <2>15 DEF PassEnd
  <2>16. CASE ListenerTest
    BY <2>16 DEF ListenerTest
  <2>17. CASE ListenerResume
    BY <2>17 DEF ListenerResume
  <2>18. CASE ListenerCrash
    BY <2>18 DEF ListenerCrash
  <2>19. CASE ListenerClear
    BY <2>19 DEF ListenerClear
  <2>20. ASSUME NEW m \in Music, Completed(m) PROVE (TypeOK /\ StopsSome)'
    BY <2>20 DEF Completed
  <2>21. CASE MainReturns
    BY <2>21 DEF MainReturns
  <2>22. CASE CloseAudio
    BY <2>22 DEF CloseAudio, DisposeAudio
  <2>23. CASE Exit
    BY <2>23 DEF Exit, DisposeAudio
  <2>24. CASE SystemExit
    BY <2>24 DEF SystemExit
  <2>25. CASE UNCHANGED vars
    BY <2>25 DEF vars
  <2> QED
    BY <2>1, <2>2, <2>3, <2>4, <2>5, <2>6, <2>7, <2>8, <2>9, <2>10, <2>11, <2>12, <2>13, <2>14, <2>15, <2>16, <2>17, <2>18, <2>19, <2>20, <2>21, <2>22, <2>23, <2>24, <2>25
       DEF Next, ScriptCall, StopStep, AudioStep, Shutdown, Ended
<1> QED
  BY <1>1, <1>2, PTL DEF Spec
-----------------------------------------------------------------------------
(* No looping music escapes its field.                                       *)

\* Reach is an invariant.
LEMMA ReachInvariant == Spec => []Reach
<1>1. Init => Reach
  BY DEF Init, Reach, MadeInOrder, FieldsDiffer, StopsMusic, SeenIsBgm,
     LoopingReachable, Channels, NotStopping, NoMusic, Music, Playing
<1>2. TypeOK /\ TypeOK' /\ Reach /\ [Next]_vars => Reach'
  <2> SUFFICES ASSUME TypeOK, TypeOK', Reach, [Next]_vars PROVE Reach'
    OBVIOUS
  <2> USE MaxMusicAssumption DEF TypeOK, Reach, MadeInOrder, FieldsDiffer, StopsMusic,
     SeenIsBgm, LoopingReachable, Playing, Channels, Music, NoMusic, 
     StopSteps, InPass, NotStopping, scriptVars, objectVars, audioVars
  <2>1. ASSUME NEW f \in Files, BgmPlaySame(f) PROVE Reach'
    BY <2>1 DEF BgmPlaySame, Ready, MonitorFree
  <2>2. ASSUME NEW f \in Files, BgmPlayNew(f) PROVE Reach'
    BY <2>2 DEF BgmPlayNew, Ready, MonitorFree, NewMusic, Silenced
  <2>3. ASSUME NEW f \in Files, BgmPlayFails(f) PROVE Reach'
    BY <2>3 DEF BgmPlayFails, Ready, MonitorFree, Silenced
  <2>4. ASSUME NEW f \in Files, BgsPlay(f) PROVE Reach'
    BY <2>4 DEF BgsPlay, NewMusic, Ready, MonitorFree, Silenced
  <2>5. CASE BgsPlayFails
    BY <2>5 DEF BgsPlayFails, Ready, MonitorFree, Silenced
  <2>6. ASSUME NEW f \in Files, MePlay(f) PROVE Reach'
    BY <2>6 DEF MePlay, NewMusic, Ready, MonitorFree, Paused
  <2>7. CASE MePlayFails
    BY <2>7 DEF MePlayFails, Ready, MonitorFree, Paused
  <2>8. ASSUME NEW f \in Sounds, SePlay(f) PROVE Reach'
    BY <2>8 DEF SePlay, Ready, MonitorFree
  <2>9. ASSUME NEW c \in Channels, StopMusic(c) PROVE Reach'
    BY <2>9 DEF StopMusic, Ready, Silenced
  <2>10. ASSUME NEW c \in Channels, StopNothing(c) PROVE Reach'
    BY <2>10 DEF StopNothing, Ready
  <2>11. ASSUME NEW c \in Channels, StopDispose(c) PROVE Reach'
    BY <2>11 DEF StopDispose, Silenced
  <2>12. ASSUME NEW c \in Channels, StopClear(c) PROVE Reach'
    BY <2>12 DEF StopClear
  <2>13. CASE PassBegin
    BY <2>13 DEF PassBegin
  <2>14. CASE ThreadEnds
    BY <2>14 DEF ThreadEnds
  <2>15. CASE PassEnd
    BY <2>15 DEF PassEnd
  <2>16. CASE ListenerTest
    BY <2>16 DEF ListenerTest
  <2>17. CASE ListenerResume
    BY <2>17 DEF ListenerResume
  <2>18. CASE ListenerCrash
    BY <2>18 DEF ListenerCrash
  <2>19. CASE ListenerClear
    BY <2>19 DEF ListenerClear
  <2>20. ASSUME NEW m \in Music, Completed(m) PROVE Reach'
    BY <2>20 DEF Completed
  <2>21. CASE MainReturns
    BY <2>21 DEF MainReturns
  <2>22. CASE CloseAudio
    BY <2>22 DEF CloseAudio, DisposeAudio
  <2>23. CASE Exit
    BY <2>23 DEF Exit, DisposeAudio
  <2>24. CASE SystemExit
    BY <2>24 DEF SystemExit
  <2>25. CASE UNCHANGED vars
    BY <2>25 DEF vars
  <2> QED
    BY <2>1, <2>2, <2>3, <2>4, <2>5, <2>6, <2>7, <2>8, <2>9, <2>10, <2>11, <2>12,
       <2>13, <2>14, <2>15, <2>16, <2>17, <2>18, <2>19, <2>20, <2>21, <2>22,
       <2>23, <2>24, <2>25
       DEF Next, ScriptCall, StopStep, AudioStep, Shutdown, Ended
<1> QED
  BY <1>1, <1>2, TypeCorrect, PTL DEF Spec

\* A looping music that sounds is the BGM or the BGS, or a disposed one, for
\* every script.
THEOREM Reachable == Spec => []LoopingReachable
<1>1. Reach => LoopingReachable
  BY DEF Reach
<1> QED
  BY <1>1, ReachInvariant, PTL

\* A disposed music is heard again only through the window in the completion
\* listener that NoResurrection names.
THEOREM Resurrection == Spec => NoResurrection
<1> DEFINE Window ==
      \A m \in disposed : Playing(m)' /\ ~Playing(m) =>
          /\ audioPc = "resume"
          /\ stopping = <<"bgm", "clear">> \/ music["bgm"] = NoMusic
<1>1. TypeOK /\ Reach /\ [Next]_vars => [Window]_vars
  <2> SUFFICES ASSUME TypeOK, Reach, [Next]_vars PROVE Window
    OBVIOUS
  <2> USE MaxMusicAssumption DEF TypeOK, Reach, MadeInOrder, FieldsDiffer, StopsMusic,
     SeenIsBgm, LoopingReachable, Playing, Channels, Music, NoMusic,
     StopSteps, InPass, NotStopping, scriptVars, objectVars, audioVars
  <2>1. ASSUME NEW f \in Files, BgmPlaySame(f) PROVE Window
    BY <2>1 DEF BgmPlaySame, Ready, MonitorFree
  <2>2. ASSUME NEW f \in Files, BgmPlayNew(f) PROVE Window
    BY <2>2 DEF BgmPlayNew, Ready, MonitorFree, NewMusic, Silenced
  <2>3. ASSUME NEW f \in Files, BgmPlayFails(f) PROVE Window
    BY <2>3 DEF BgmPlayFails, Ready, MonitorFree, Silenced
  <2>4. ASSUME NEW f \in Files, BgsPlay(f) PROVE Window
    BY <2>4 DEF BgsPlay, NewMusic, Ready, MonitorFree, Silenced
  <2>5. CASE BgsPlayFails
    BY <2>5 DEF BgsPlayFails, Ready, MonitorFree, Silenced
  <2>6. ASSUME NEW f \in Files, MePlay(f) PROVE Window
    BY <2>6 DEF MePlay, NewMusic, Ready, MonitorFree, Paused
  <2>7. CASE MePlayFails
    BY <2>7 DEF MePlayFails, Ready, MonitorFree, Paused
  <2>8. ASSUME NEW f \in Sounds, SePlay(f) PROVE Window
    BY <2>8 DEF SePlay, Ready, MonitorFree
  <2>9. ASSUME NEW c \in Channels, StopMusic(c) PROVE Window
    BY <2>9 DEF StopMusic, Ready, Silenced
  <2>10. ASSUME NEW c \in Channels, StopNothing(c) PROVE Window
    BY <2>10 DEF StopNothing, Ready
  <2>11. ASSUME NEW c \in Channels, StopDispose(c) PROVE Window
    BY <2>11 DEF StopDispose, Silenced
  <2>12. ASSUME NEW c \in Channels, StopClear(c) PROVE Window
    BY <2>12 DEF StopClear
  <2>13. CASE PassBegin
    BY <2>13 DEF PassBegin
  <2>14. CASE ThreadEnds
    BY <2>14 DEF ThreadEnds
  <2>15. CASE PassEnd
    BY <2>15 DEF PassEnd
  <2>16. CASE ListenerTest
    BY <2>16 DEF ListenerTest
  <2>17. CASE ListenerResume
    BY <2>17 DEF ListenerResume
  <2>18. CASE ListenerCrash
    BY <2>18 DEF ListenerCrash
  <2>19. CASE ListenerClear
    BY <2>19 DEF ListenerClear
  <2>20. ASSUME NEW m \in Music, Completed(m) PROVE Window
    BY <2>20 DEF Completed
  <2>21. CASE MainReturns
    BY <2>21 DEF MainReturns
  <2>22. CASE CloseAudio
    BY <2>22 DEF CloseAudio, DisposeAudio
  <2>23. CASE Exit
    BY <2>23 DEF Exit, DisposeAudio
  <2>24. CASE SystemExit
    BY <2>24 DEF SystemExit
  <2>25. CASE UNCHANGED vars
    BY <2>25 DEF vars
  <2> QED
    BY <2>1, <2>2, <2>3, <2>4, <2>5, <2>6, <2>7, <2>8, <2>9, <2>10, <2>11, <2>12,
       <2>13, <2>14, <2>15, <2>16, <2>17, <2>18, <2>19, <2>20, <2>21, <2>22,
       <2>23, <2>24, <2>25
       DEF Next, ScriptCall, StopStep, AudioStep, Shutdown, Ended
<1> QED
  BY <1>1, TypeCorrect, ReachInvariant, PTL DEF Spec, NoResurrection

-----------------------------------------------------------------------------
(* The BGM under an ME.                                                      *)

\* A script that does not start an ME over another one never hears a BGM under
\* an ME.
THEOREM Ducked == Spec => []BgmDucked
<1> DEFINE Duck == OneMe /\ BgmDucked
<1>1. Init => Duck
  BY DEF Init, OneMe, BgmDucked, Playing, Music
<1>2. TypeOK /\ Reach /\ Duck /\ [Next]_vars => Duck'
  <2> SUFFICES ASSUME TypeOK, Reach, Duck, [Next]_vars PROVE Duck'
    OBVIOUS
  <2> USE MaxMusicAssumption DEF TypeOK, Reach, MadeInOrder, FieldsDiffer, StopsMusic,
     SeenIsBgm, OneMe, BgmDucked, Playing, Channels, Music, NoMusic,
     StopSteps, InPass, NotStopping, scriptVars, objectVars, audioVars
  <2>1. ASSUME NEW f \in Files, BgmPlaySame(f) PROVE Duck'
    BY <2>1 DEF BgmPlaySame, Ready, MonitorFree
  <2>2. ASSUME NEW f \in Files, BgmPlayNew(f) PROVE Duck'
    BY <2>2 DEF BgmPlayNew, Ready, MonitorFree, NewMusic, Silenced
  <2>3. ASSUME NEW f \in Files, BgmPlayFails(f) PROVE Duck'
    BY <2>3 DEF BgmPlayFails, Ready, MonitorFree, Silenced
  <2>4. ASSUME NEW f \in Files, BgsPlay(f) PROVE Duck'
    BY <2>4 DEF BgsPlay, NewMusic, Ready, MonitorFree, Silenced
  <2>5. CASE BgsPlayFails
    BY <2>5 DEF BgsPlayFails, Ready, MonitorFree, Silenced
  <2>6. ASSUME NEW f \in Files, MePlay(f) PROVE Duck'
    BY <2>6 DEF MePlay, NewMusic, Ready, MonitorFree, Paused
  <2>7. CASE MePlayFails
    BY <2>7 DEF MePlayFails, Ready, MonitorFree, Paused
  <2>8. ASSUME NEW f \in Sounds, SePlay(f) PROVE Duck'
    BY <2>8 DEF SePlay, Ready, MonitorFree
  <2>9. ASSUME NEW c \in Channels, StopMusic(c) PROVE Duck'
    BY <2>9 DEF StopMusic, Ready, Silenced
  <2>10. ASSUME NEW c \in Channels, StopNothing(c) PROVE Duck'
    BY <2>10 DEF StopNothing, Ready
  <2>11. ASSUME NEW c \in Channels, StopDispose(c) PROVE Duck'
    BY <2>11 DEF StopDispose, Silenced
  <2>12. ASSUME NEW c \in Channels, StopClear(c) PROVE Duck'
    BY <2>12 DEF StopClear
  <2>13. CASE PassBegin
    BY <2>13 DEF PassBegin
  <2>14. CASE ThreadEnds
    BY <2>14 DEF ThreadEnds
  <2>15. CASE PassEnd
    BY <2>15 DEF PassEnd
  <2>16. CASE ListenerTest
    BY <2>16 DEF ListenerTest
  <2>17. CASE ListenerResume
    BY <2>17 DEF ListenerResume
  <2>18. CASE ListenerCrash
    BY <2>18 DEF ListenerCrash
  <2>19. CASE ListenerClear
    BY <2>19 DEF ListenerClear
  <2>20. ASSUME NEW m \in Music, Completed(m) PROVE Duck'
    BY <2>20 DEF Completed
  <2>21. CASE MainReturns
    BY <2>21 DEF MainReturns
  <2>22. CASE CloseAudio
    BY <2>22 DEF CloseAudio, DisposeAudio
  <2>23. CASE Exit
    BY <2>23 DEF Exit, DisposeAudio
  <2>24. CASE SystemExit
    BY <2>24 DEF SystemExit
  <2>25. CASE UNCHANGED vars
    BY <2>25 DEF vars
  <2> QED
    BY <2>1, <2>2, <2>3, <2>4, <2>5, <2>6, <2>7, <2>8, <2>9, <2>10, <2>11, <2>12,
       <2>13, <2>14, <2>15, <2>16, <2>17, <2>18, <2>19, <2>20, <2>21, <2>22,
       <2>23, <2>24, <2>25
       DEF Next, ScriptCall, StopStep, AudioStep, Shutdown, Ended
<1> QED
  BY <1>1, <1>2, TypeCorrect, ReachInvariant, PTL DEF Spec

-----------------------------------------------------------------------------
(* The audio thread.                                                         *)

\* In a program that stops its BGM only by playing another one, the audio
\* thread never dies of an exception.
THEOREM ThreadSurvives ==
    ASSUME "bgm_stop" \notin Calls
    PROVE  Spec => []AudioThreadSurvives
<1> DEFINE Survive == NoBgmStop /\ AudioThreadSurvives
<1>1. Init => Survive
  BY DEF Init, NoBgmStop, AudioThreadSurvives, NotStopping
<1>2. TypeOK /\ Reach /\ Survive /\ [Next]_vars => Survive'
  <2> SUFFICES ASSUME TypeOK, Reach, Survive, [Next]_vars PROVE Survive'
    OBVIOUS
  <2> USE MaxMusicAssumption DEF TypeOK, Reach, MadeInOrder, CallOf,
     NoBgmStop, AudioThreadSurvives, Channels, Music, NoMusic,
     StopSteps, InPass, NotStopping, scriptVars, objectVars, audioVars
  <2>1. ASSUME NEW f \in Files, BgmPlaySame(f) PROVE Survive'
    BY <2>1 DEF BgmPlaySame, Ready, MonitorFree
  <2>2. ASSUME NEW f \in Files, BgmPlayNew(f) PROVE Survive'
    BY <2>2 DEF BgmPlayNew, Ready, MonitorFree, NewMusic, Silenced
  <2>3. ASSUME NEW f \in Files, BgmPlayFails(f) PROVE Survive'
    BY <2>3 DEF BgmPlayFails, Ready, MonitorFree, Silenced
  <2>4. ASSUME NEW f \in Files, BgsPlay(f) PROVE Survive'
    BY <2>4 DEF BgsPlay, NewMusic, Ready, MonitorFree, Silenced
  <2>5. CASE BgsPlayFails
    BY <2>5 DEF BgsPlayFails, Ready, MonitorFree, Silenced
  <2>6. ASSUME NEW f \in Files, MePlay(f) PROVE Survive'
    BY <2>6 DEF MePlay, NewMusic, Ready, MonitorFree, Paused
  <2>7. CASE MePlayFails
    BY <2>7 DEF MePlayFails, Ready, MonitorFree, Paused
  <2>8. ASSUME NEW f \in Sounds, SePlay(f) PROVE Survive'
    BY <2>8 DEF SePlay, Ready, MonitorFree
  <2>9. ASSUME NEW c \in Channels, StopMusic(c) PROVE Survive'
    BY <2>9 DEF StopMusic, Ready, Silenced
  <2>10. ASSUME NEW c \in Channels, StopNothing(c) PROVE Survive'
    BY <2>10 DEF StopNothing, Ready
  <2>11. ASSUME NEW c \in Channels, StopDispose(c) PROVE Survive'
    BY <2>11 DEF StopDispose, Silenced
  <2>12. ASSUME NEW c \in Channels, StopClear(c) PROVE Survive'
    BY <2>12 DEF StopClear
  <2>13. CASE PassBegin
    BY <2>13 DEF PassBegin
  <2>14. CASE ThreadEnds
    BY <2>14 DEF ThreadEnds
  <2>15. CASE PassEnd
    BY <2>15 DEF PassEnd
  <2>16. CASE ListenerTest
    BY <2>16 DEF ListenerTest
  <2>17. CASE ListenerResume
    BY <2>17 DEF ListenerResume
  <2>18. CASE ListenerCrash
    BY <2>18 DEF ListenerCrash
  <2>19. CASE ListenerClear
    BY <2>19 DEF ListenerClear
  <2>20. ASSUME NEW m \in Music, Completed(m) PROVE Survive'
    BY <2>20 DEF Completed
  <2>21. CASE MainReturns
    BY <2>21 DEF MainReturns
  <2>22. CASE CloseAudio
    BY <2>22 DEF CloseAudio, DisposeAudio
  <2>23. CASE Exit
    BY <2>23 DEF Exit, DisposeAudio
  <2>24. CASE SystemExit
    BY <2>24 DEF SystemExit
  <2>25. CASE UNCHANGED vars
    BY <2>25 DEF vars
  <2> QED
    BY <2>1, <2>2, <2>3, <2>4, <2>5, <2>6, <2>7, <2>8, <2>9, <2>10, <2>11, <2>12,
       <2>13, <2>14, <2>15, <2>16, <2>17, <2>18, <2>19, <2>20, <2>21, <2>22,
       <2>23, <2>24, <2>25
       DEF Next, ScriptCall, StopStep, AudioStep, Shutdown, Ended
<1> QED
  BY <1>1, <1>2, TypeCorrect, ReachInvariant, PTL DEF Spec

\* mainLoop's wait for the audio thread is enough: audio is not used after it
\* has been disposed of.
THEOREM Closed == Spec => []NoUpdateAfterClose
<1>1. Init => NoUpdateAfterClose
  BY DEF Init, NoUpdateAfterClose
<1>2. NoUpdateAfterClose /\ [Next]_vars => NoUpdateAfterClose'
  <2> SUFFICES ASSUME NoUpdateAfterClose, [Next]_vars PROVE NoUpdateAfterClose'
    OBVIOUS
  <2> USE DEF NoUpdateAfterClose, scriptVars, objectVars, audioVars
  <2>1. ASSUME NEW f \in Files, BgmPlaySame(f) PROVE NoUpdateAfterClose'
    BY <2>1 DEF BgmPlaySame, Ready, MonitorFree
  <2>2. ASSUME NEW f \in Files, BgmPlayNew(f) PROVE NoUpdateAfterClose'
    BY <2>2 DEF BgmPlayNew, Ready, MonitorFree, NewMusic, Silenced
  <2>3. ASSUME NEW f \in Files, BgmPlayFails(f) PROVE NoUpdateAfterClose'
    BY <2>3 DEF BgmPlayFails, Ready, MonitorFree, Silenced
  <2>4. ASSUME NEW f \in Files, BgsPlay(f) PROVE NoUpdateAfterClose'
    BY <2>4 DEF BgsPlay, NewMusic, Ready, MonitorFree, Silenced
  <2>5. CASE BgsPlayFails
    BY <2>5 DEF BgsPlayFails, Ready, MonitorFree, Silenced
  <2>6. ASSUME NEW f \in Files, MePlay(f) PROVE NoUpdateAfterClose'
    BY <2>6 DEF MePlay, NewMusic, Ready, MonitorFree, Paused
  <2>7. CASE MePlayFails
    BY <2>7 DEF MePlayFails, Ready, MonitorFree, Paused
  <2>8. ASSUME NEW f \in Sounds, SePlay(f) PROVE NoUpdateAfterClose'
    BY <2>8 DEF SePlay, Ready, MonitorFree
  <2>9. ASSUME NEW c \in Channels, StopMusic(c) PROVE NoUpdateAfterClose'
    BY <2>9 DEF StopMusic, Ready, Silenced
  <2>10. ASSUME NEW c \in Channels, StopNothing(c) PROVE NoUpdateAfterClose'
    BY <2>10 DEF StopNothing, Ready
  <2>11. ASSUME NEW c \in Channels, StopDispose(c) PROVE NoUpdateAfterClose'
    BY <2>11 DEF StopDispose, Silenced
  <2>12. ASSUME NEW c \in Channels, StopClear(c) PROVE NoUpdateAfterClose'
    BY <2>12 DEF StopClear
  <2>13. CASE PassBegin
    BY <2>13 DEF PassBegin
  <2>14. CASE ThreadEnds
    BY <2>14 DEF ThreadEnds
  <2>15. CASE PassEnd
    BY <2>15 DEF PassEnd
  <2>16. CASE ListenerTest
    BY <2>16 DEF ListenerTest
  <2>17. CASE ListenerResume
    BY <2>17 DEF ListenerResume
  <2>18. CASE ListenerCrash
    BY <2>18 DEF ListenerCrash
  <2>19. CASE ListenerClear
    BY <2>19 DEF ListenerClear
  <2>20. ASSUME NEW m \in Music, Completed(m) PROVE NoUpdateAfterClose'
    BY <2>20 DEF Completed
  <2>21. CASE MainReturns
    BY <2>21 DEF MainReturns
  <2>22. CASE CloseAudio
    BY <2>22 DEF CloseAudio, DisposeAudio
  <2>23. CASE Exit
    BY <2>23 DEF Exit, DisposeAudio
  <2>24. CASE SystemExit
    BY <2>24 DEF SystemExit
  <2>25. CASE UNCHANGED vars
    BY <2>25 DEF vars
  <2> QED
    BY <2>1, <2>2, <2>3, <2>4, <2>5, <2>6, <2>7, <2>8, <2>9, <2>10, <2>11, <2>12,
       <2>13, <2>14, <2>15, <2>16, <2>17, <2>18, <2>19, <2>20, <2>21, <2>22,
       <2>23, <2>24, <2>25
       DEF Next, ScriptCall, StopStep, AudioStep, Shutdown, Ended
<1> QED
  BY <1>1, <1>2, PTL DEF Spec

-----------------------------------------------------------------------------
(* What the script is told.                                                  *)

\* RPG::BGM.last and RPG::BGS.last name what the Java side plays.
THEOREM LastPlayed == Spec => []LastIsPlayed
<1>1. Init => LastIsPlayed
  BY DEF Init, LastIsPlayed, Channels, NoMusic
<1>2. TypeOK /\ Reach /\ LastIsPlayed /\ [Next]_vars => LastIsPlayed'
  <2> SUFFICES ASSUME TypeOK, Reach, LastIsPlayed, [Next]_vars PROVE LastIsPlayed'
    OBVIOUS
  <2> USE MaxMusicAssumption DEF TypeOK, Reach, MadeInOrder, LastIsPlayed, Channels,
     Music, NoMusic, StopSteps, scriptVars, objectVars, audioVars
  <2>1. ASSUME NEW f \in Files, BgmPlaySame(f) PROVE LastIsPlayed'
    BY <2>1 DEF BgmPlaySame, Ready, MonitorFree
  <2>2. ASSUME NEW f \in Files, BgmPlayNew(f) PROVE LastIsPlayed'
    BY <2>2 DEF BgmPlayNew, Ready, MonitorFree, NewMusic, Silenced
  <2>3. ASSUME NEW f \in Files, BgmPlayFails(f) PROVE LastIsPlayed'
    BY <2>3 DEF BgmPlayFails, Ready, MonitorFree, Silenced
  <2>4. ASSUME NEW f \in Files, BgsPlay(f) PROVE LastIsPlayed'
    BY <2>4 DEF BgsPlay, NewMusic, Ready, MonitorFree, Silenced
  <2>5. CASE BgsPlayFails
    BY <2>5 DEF BgsPlayFails, Ready, MonitorFree, Silenced
  <2>6. ASSUME NEW f \in Files, MePlay(f) PROVE LastIsPlayed'
    BY <2>6 DEF MePlay, NewMusic, Ready, MonitorFree, Paused
  <2>7. CASE MePlayFails
    BY <2>7 DEF MePlayFails, Ready, MonitorFree, Paused
  <2>8. ASSUME NEW f \in Sounds, SePlay(f) PROVE LastIsPlayed'
    BY <2>8 DEF SePlay, Ready, MonitorFree
  <2>9. ASSUME NEW c \in Channels, StopMusic(c) PROVE LastIsPlayed'
    BY <2>9 DEF StopMusic, Ready, Silenced
  <2>10. ASSUME NEW c \in Channels, StopNothing(c) PROVE LastIsPlayed'
    BY <2>10 DEF StopNothing, Ready
  <2>11. ASSUME NEW c \in Channels, StopDispose(c) PROVE LastIsPlayed'
    BY <2>11 DEF StopDispose, Silenced
  <2>12. ASSUME NEW c \in Channels, StopClear(c) PROVE LastIsPlayed'
    BY <2>12 DEF StopClear
  <2>13. CASE PassBegin
    BY <2>13 DEF PassBegin
  <2>14. CASE ThreadEnds
    BY <2>14 DEF ThreadEnds
  <2>15. CASE PassEnd
    BY <2>15 DEF PassEnd
  <2>16. CASE ListenerTest
    BY <2>16 DEF ListenerTest
  <2>17. CASE ListenerResume
    BY <2>17 DEF ListenerResume
  <2>18. CASE ListenerCrash
    BY <2>18 DEF ListenerCrash
  <2>19. CASE ListenerClear
    BY <2>19 DEF ListenerClear
  <2>20. ASSUME NEW m \in Music, Completed(m) PROVE LastIsPlayed'
    BY <2>20 DEF Completed
  <2>21. CASE MainReturns
    BY <2>21 DEF MainReturns
  <2>22. CASE CloseAudio
    BY <2>22 DEF CloseAudio, DisposeAudio
  <2>23. CASE Exit
    BY <2>23 DEF Exit, DisposeAudio
  <2>24. CASE SystemExit
    BY <2>24 DEF SystemExit
  <2>25. CASE UNCHANGED vars
    BY <2>25 DEF vars
  <2> QED
    BY <2>1, <2>2, <2>3, <2>4, <2>5, <2>6, <2>7, <2>8, <2>9, <2>10, <2>11, <2>12,
       <2>13, <2>14, <2>15, <2>16, <2>17, <2>18, <2>19, <2>20, <2>21, <2>22,
       <2>23, <2>24, <2>25
       DEF Next, ScriptCall, StopStep, AudioStep, Shutdown, Ended
<1> QED
  BY <1>1, <1>2, TypeCorrect, ReachInvariant, PTL DEF Spec
=============================================================================
