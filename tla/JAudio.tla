------------------------------- MODULE JAudio -------------------------------
(***************************************************************************)
(* The audio subsystem: org.jrgss.api.JAudio (driven by the game script on *)
(* the main thread, through the Ruby classes RPG::BGM/BGS/ME/SE), the      *)
(* audio update thread of JRGSSDesktop, and the two ways the program shuts *)
(* audio down.  Every *_play method holds the monitor of JAudio.class, and *)
(* so does one pass of the audio thread over the streaming musics; the     *)
(* *_stop methods hold nothing, so each of their statements interleaves    *)
(* with the completion listener, which runs inside a pass.                 *)
(*                                                                         *)
(* Music objects are libGDX's OpenALMusic, modelled as the code uses them: *)
(* play() makes a music sound, even one whose dispose() has run; stop()    *)
(* and dispose() silence it; a music that does not loop ends by itself,    *)
(* and its listener is called from OpenALAudio.update().                   *)
(***************************************************************************)
EXTENDS Integers

CONSTANTS
    Files,     \* names of the music files the script plays
    Sounds,    \* names of the sound effects it plays
    NoFile,    \* the empty name: RPG::BGM.new
    MaxMusic,  \* bound: how many Music objects are created
    Calls      \* the calls the script makes, see AllCalls

AllCalls == {"bgm_play", "bgs_play", "me_play", "se_play",
             "bgm_stop", "bgs_stop", "me_stop", "load_failure"}

ASSUME NoFileAssumption == NoFile \notin Files \cup Sounds
ASSUME MaxMusicAssumption == MaxMusic \in Nat
ASSUME CallsAssumption == Calls \subseteq AllCalls

VARIABLES
    music,        \* the static fields bgm, bgs and me
    bgmFilename,  \* the static field of that name
    mePlaying,    \* the static field of that name
    se, seCache,  \* the static field se, and the keys of se_cache
    last,         \* @@last of RPG::BGM and RPG::BGS: the file it names
    made,         \* Music objects made so far
    source,       \* what each Music object does
    looping,      \* the Music objects with setLooping(true)
    disposed,     \* the Music objects whose dispose() has run
    file,         \* the file each Music object was made from
    stopping,     \* where the main thread is: a *_stop method, or "no"
    audioPc,      \* where the audio thread is
    seen,         \* the BGM its listener's null check read
    phase,        \* where the program is on its way to its end
    overlapped    \* history: an ME was replaced while it was sounding

scriptVars == <<music, bgmFilename, mePlaying, se, seCache, last>>
objectVars == <<made, source, looping, disposed, file>>
audioVars == <<audioPc, seen>>
vars == <<scriptVars, objectVars, stopping, audioVars, phase, overlapped>>

Channels == {"bgm", "bgs", "me"}
NoMusic == 0
Music == 1 .. MaxMusic
Names == Files \cup {NoFile}
Sources == {"none", "stopped", "playing", "paused"}
NotStopping == <<"no", "no">>
StopSteps == {NotStopping} \cup (Channels \X {"dispose", "clear"})
InPass == {"updating", "listener", "resume", "clear"}

TypeOK ==
    /\ music \in [Channels -> Music \cup {NoMusic}]
    /\ bgmFilename \in Names
    /\ mePlaying \in BOOLEAN
    /\ se \in Sounds \cup {NoFile}
    /\ seCache \subseteq Sounds
    /\ last \in [{"bgm", "bgs"} -> Names]
    /\ made \in 0 .. MaxMusic
    /\ source \in [Music -> Sources]
    /\ looping \subseteq Music
    /\ disposed \subseteq Music
    /\ file \in [Music -> Names]
    /\ stopping \in StopSteps
    /\ audioPc \in {"asleep", "dead", "crashed"} \cup InPass
    /\ seen \in Music \cup {NoMusic}
    /\ phase \in {"running", "closing", "disposed", "exiting", "exited"}
    /\ overlapped \in BOOLEAN

Init ==
    /\ music = [c \in Channels |-> NoMusic]
    /\ bgmFilename = NoFile
    /\ mePlaying = FALSE
    /\ se = NoFile
    /\ seCache = {}
    /\ last = [c \in {"bgm", "bgs"} |-> NoFile]
    /\ made = 0
    /\ source = [m \in Music |-> "none"]
    /\ looping = {}
    /\ disposed = {}
    /\ file = [m \in Music |-> NoFile]
    /\ stopping = NotStopping
    /\ audioPc = "asleep"
    /\ seen = NoMusic
    /\ phase = "running"
    /\ overlapped = FALSE

-----------------------------------------------------------------------------
(* What a Music object does. *)

Playing(m) == m \in Music /\ source[m] = "playing"

\* OpenALMusic.pause(): a music that has no source yet stays as it is.
Paused(src, m) ==
    [n \in Music |-> IF n = m /\ src[n] = "playing" THEN "paused" ELSE src[n]]

\* stop() then dispose() of m, for m = NoMusic nothing.
Silenced(src, m) == [n \in Music |-> IF n = m THEN "stopped" ELSE src[n]]

\* Gdx.audio.newMusic(FileUtil.loadAudio(f)), then play() when "sound" holds;
\* src is the state of the other musics.
NewMusic(src, f, loops, sound) ==
    /\ made < MaxMusic
    /\ made' = made + 1
    /\ source' = [src EXCEPT ![made + 1] = IF sound THEN "playing" ELSE "stopped"]
    /\ looping' = IF loops THEN looping \cup {made + 1} ELSE looping
    /\ file' = [file EXCEPT ![made + 1] = f]

-----------------------------------------------------------------------------
(* The main thread: the script's calls.                                    *)

\* The script is between two calls, and makes this one.
Ready(call) == phase = "running" /\ stopping = NotStopping /\ call \in Calls

\* Mutant: the *_play methods are not synchronized.
MonitorFree_Unsynchronized == TRUE

\* Nobody holds the monitor of JAudio.class: a synchronized method may run.
\* The only other holder is the audio thread, for the whole of a pass.
MonitorFree == audioPc \notin InPass

\* Mutant: bgm_play does not compare the names.
BgmPlaySame_AnyName(f) ==
    /\ Ready("bgm_play") /\ MonitorFree
    /\ music["bgm"] # NoMusic
    /\ last' = [last EXCEPT !["bgm"] = f]
    /\ UNCHANGED <<music, bgmFilename, mePlaying, se, seCache, objectVars,
                   stopping, audioVars, phase, overlapped>>

\* Playing the file the BGM already plays only sets its volume: a paused BGM
\* stays paused.
BgmPlaySame(f) ==
    /\ Ready("bgm_play") /\ MonitorFree
    /\ music["bgm"] # NoMusic /\ bgmFilename = f
    /\ last' = [last EXCEPT !["bgm"] = f]
    /\ UNCHANGED <<music, bgmFilename, mePlaying, se, seCache, objectVars,
                   stopping, audioVars, phase, overlapped>>

\* Mutant: the music that was playing is dropped, not stopped.
BgmPlayNew_NoStop(f) ==
    /\ Ready("bgm_play") /\ MonitorFree
    /\ music["bgm"] = NoMusic \/ bgmFilename # f
    /\ NewMusic(source, f, TRUE, ~mePlaying)
    /\ music' = [music EXCEPT !["bgm"] = made + 1]
    /\ bgmFilename' = f
    /\ last' = [last EXCEPT !["bgm"] = f]
    /\ UNCHANGED <<mePlaying, se, seCache, disposed, stopping, audioVars, phase,
                   overlapped>>

BgmPlayNew(f) ==
    /\ Ready("bgm_play") /\ MonitorFree
    /\ music["bgm"] = NoMusic \/ bgmFilename # f
    /\ NewMusic(Silenced(source, music["bgm"]), f, TRUE, ~mePlaying)
    /\ disposed' = disposed \cup ({music["bgm"]} \cap Music)
    /\ music' = [music EXCEPT !["bgm"] = made + 1]
    /\ bgmFilename' = f
    /\ last' = [last EXCEPT !["bgm"] = f]
    /\ UNCHANGED <<mePlaying, se, seCache, stopping, audioVars, phase, overlapped>>

\* bgm_play of a file that loadAudio does not find or newMusic cannot open:
\* the old BGM is gone and the exception leaves RPG::BGM#play before @@last is
\* assigned.
BgmPlayFails(f) ==
    /\ Ready("bgm_play") /\ MonitorFree /\ "load_failure" \in Calls
    /\ music["bgm"] = NoMusic \/ bgmFilename # f
    /\ source' = Silenced(source, music["bgm"])
    /\ disposed' = disposed \cup ({music["bgm"]} \cap Music)
    /\ music' = [music EXCEPT !["bgm"] = NoMusic]
    /\ UNCHANGED <<bgmFilename, mePlaying, se, seCache, last, made, looping,
                   file, stopping, audioVars, phase, overlapped>>

BgsPlay(f) ==
    /\ Ready("bgs_play") /\ MonitorFree
    /\ NewMusic(Silenced(source, music["bgs"]), f, TRUE, ~mePlaying)
    /\ disposed' = disposed \cup ({music["bgs"]} \cap Music)
    /\ music' = [music EXCEPT !["bgs"] = made + 1]
    /\ last' = [last EXCEPT !["bgs"] = f]
    /\ UNCHANGED <<bgmFilename, mePlaying, se, seCache, stopping, audioVars, phase,
                   overlapped>>

BgsPlayFails ==
    /\ Ready("bgs_play") /\ MonitorFree /\ "load_failure" \in Calls
    /\ source' = Silenced(source, music["bgs"])
    /\ disposed' = disposed \cup ({music["bgs"]} \cap Music)
    /\ music' = [music EXCEPT !["bgs"] = NoMusic]
    /\ UNCHANGED <<bgmFilename, mePlaying, se, seCache, last, made, looping,
                   file, stopping, audioVars, phase, overlapped>>

\* Mutant: mePlaying is not set.
MePlay_NoFlag(f) ==
    /\ Ready("me_play") /\ MonitorFree
    /\ NewMusic(Paused(source, music["bgm"]), f, FALSE, TRUE)
    /\ music' = [music EXCEPT !["me"] = made + 1]
    /\ overlapped' = (overlapped \/ Playing(music["me"]))
    /\ UNCHANGED <<bgmFilename, mePlaying, se, seCache, last, disposed, stopping,
                   audioVars, phase>>

\* The BGM is paused and the field me is overwritten: an ME that still sounds
\* keeps sounding, with its listener, and nothing refers to it any more.
MePlay(f) ==
    /\ Ready("me_play") /\ MonitorFree
    /\ NewMusic(Paused(source, music["bgm"]), f, FALSE, TRUE)
    /\ music' = [music EXCEPT !["me"] = made + 1]
    /\ mePlaying' = TRUE
    /\ overlapped' = (overlapped \/ Playing(music["me"]))
    /\ UNCHANGED <<bgmFilename, se, seCache, last, disposed, stopping, audioVars,
                   phase>>

\* The BGM has been paused when newMusic throws.
MePlayFails ==
    /\ Ready("me_play") /\ MonitorFree /\ "load_failure" \in Calls
    /\ source' = Paused(source, music["bgm"])
    /\ UNCHANGED <<scriptVars, made, looping, disposed, file, stopping, audioVars,
                   phase, overlapped>>

\* A Sound is loaded once for each file name and kept for ever.
SePlay(f) ==
    /\ Ready("se_play") /\ MonitorFree
    /\ seCache' = seCache \cup {f}
    /\ se' = f
    /\ UNCHANGED <<music, bgmFilename, mePlaying, last, objectVars, stopping,
                   audioVars, phase, overlapped>>

\* bgm_stop, bgs_stop, me_stop (and *_fade, which only call them), in three
\* steps that no monitor protects: the null check with stop(), dispose(), and
\* the assignment of null, after which the Ruby class forgets @@last.
CallOf == [bgm |-> "bgm_stop", bgs |-> "bgs_stop", me |-> "me_stop"]

\* Mutant: the null check is missing.
StopMusic_NoNullCheck(c) ==
    /\ Ready(CallOf[c])
    /\ source' = Silenced(source, music[c])
    /\ stopping' = <<c, "dispose">>
    /\ UNCHANGED <<scriptVars, made, looping, disposed, file, audioVars, phase,
                   overlapped>>

StopMusic(c) ==
    /\ Ready(CallOf[c])
    /\ music[c] # NoMusic
    /\ source' = Silenced(source, music[c])
    /\ stopping' = <<c, "dispose">>
    /\ UNCHANGED <<scriptVars, made, looping, disposed, file, audioVars, phase,
                   overlapped>>

StopDispose(c) ==
    /\ stopping = <<c, "dispose">> /\ phase = "running"
    /\ source' = Silenced(source, music[c])
    /\ disposed' = disposed \cup {music[c]}
    /\ stopping' = <<c, "clear">>
    /\ UNCHANGED <<scriptVars, made, looping, file, audioVars, phase, overlapped>>

StopClear(c) ==
    /\ stopping = <<c, "clear">> /\ phase = "running"
    /\ music' = [music EXCEPT ![c] = NoMusic]
    /\ last' = [d \in {"bgm", "bgs"} |-> IF d = c THEN NoFile ELSE last[d]]
    /\ stopping' = NotStopping
    /\ UNCHANGED <<bgmFilename, mePlaying, se, seCache, objectVars, audioVars,
                   phase, overlapped>>

\* The same call when there is no music: only @@last changes.
StopNothing(c) ==
    /\ Ready(CallOf[c])
    /\ music[c] = NoMusic
    /\ last' = [d \in {"bgm", "bgs"} |-> IF d = c THEN NoFile ELSE last[d]]
    /\ UNCHANGED <<music, bgmFilename, mePlaying, se, seCache, objectVars,
                   stopping, audioVars, phase, overlapped>>

ScriptCall ==
    \/ \E f \in Files : \/ BgmPlaySame(f) \/ BgmPlayNew(f) \/ BgmPlayFails(f)
                        \/ BgsPlay(f) \/ MePlay(f)
    \/ \E f \in Sounds : SePlay(f)
    \/ BgsPlayFails
    \/ MePlayFails
    \/ \E c \in Channels : StopMusic(c) \/ StopNothing(c)

StopStep == \E c \in Channels : StopDispose(c) \/ StopClear(c)

-----------------------------------------------------------------------------
(* The audio thread.                                                       *)

AudioRuns == phase # "exited"

\* The loop's test, and the entry into synchronized (JAudio.class).
PassBegin ==
    /\ AudioRuns /\ audioPc = "asleep" /\ phase \in {"running", "exiting"}
    /\ audioPc' = "updating"
    /\ UNCHANGED <<scriptVars, objectVars, seen, stopping, phase, overlapped>>

\* Mutant: the loop does not look at killAudio.
ThreadEnds_Never == FALSE

\* The loop's test finds killAudio set.
ThreadEnds ==
    /\ AudioRuns /\ audioPc = "asleep" /\ phase \in {"closing", "disposed"}
    /\ audioPc' = "dead"
    /\ UNCHANGED <<scriptVars, objectVars, seen, stopping, phase, overlapped>>

\* audio.update() finds that m has been played to its end: m stops and its
\* listener is entered.
Completed(m) ==
    /\ AudioRuns /\ audioPc = "updating"
    /\ Playing(m) /\ m \notin looping
    /\ source' = [source EXCEPT ![m] = "stopped"]
    /\ audioPc' = "listener"
    /\ UNCHANGED <<scriptVars, made, looping, disposed, file, seen, stopping,
                   phase, overlapped>>

\* Mutant: the null check is missing.
ListenerTest_NoNullCheck ==
    /\ AudioRuns /\ audioPc = "listener"
    /\ seen' = music["bgm"]
    /\ audioPc' = "resume"
    /\ UNCHANGED <<scriptVars, objectVars, stopping, phase, overlapped>>

\* onCompletion: "if(bgm != null)" ...
ListenerTest ==
    /\ AudioRuns /\ audioPc = "listener"
    /\ seen' = music["bgm"]
    /\ audioPc' = IF music["bgm"] # NoMusic THEN "resume" ELSE "clear"
    /\ UNCHANGED <<scriptVars, objectVars, stopping, phase, overlapped>>

\* ... "bgm.play()": the field is not volatile and this thread holds no monitor
\* its writer uses, so the JIT compiler may read it again or keep what the test
\* read ...
ListenerResume ==
    /\ AudioRuns /\ audioPc = "resume"
    /\ \E b \in {seen, music["bgm"]} \ {NoMusic} :
          source' = [source EXCEPT ![b] = "playing"]
    /\ seen' = NoMusic
    /\ audioPc' = "clear"
    /\ UNCHANGED <<scriptVars, made, looping, disposed, file, stopping, phase,
                   overlapped>>

\* ... and a second read may find null: the exception ends the thread.
ListenerCrash ==
    /\ AudioRuns /\ audioPc = "resume"
    /\ music["bgm"] = NoMusic
    /\ seen' = NoMusic
    /\ audioPc' = "crashed"
    /\ UNCHANGED <<scriptVars, objectVars, stopping, phase, overlapped>>

\* Mutant: the flag stays set.
ListenerClear_KeepsFlag ==
    /\ AudioRuns /\ audioPc = "clear"
    /\ audioPc' = "updating"
    /\ UNCHANGED <<scriptVars, objectVars, seen, stopping, phase, overlapped>>

\* ... "mePlaying = false".
ListenerClear ==
    /\ AudioRuns /\ audioPc = "clear"
    /\ mePlaying' = FALSE
    /\ audioPc' = "updating"
    /\ UNCHANGED <<music, bgmFilename, se, seCache, last, objectVars, seen,
                   stopping, phase, overlapped>>

\* audio.update() returns and the monitor is released.
PassEnd ==
    /\ AudioRuns /\ audioPc = "updating"
    /\ audioPc' = "asleep"
    /\ UNCHANGED <<scriptVars, objectVars, seen, stopping, phase, overlapped>>

AudioStep ==
    \/ PassBegin \/ ThreadEnds \/ PassEnd
    \/ ListenerTest \/ ListenerResume \/ ListenerCrash \/ ListenerClear

-----------------------------------------------------------------------------
(* The two ways the program ends.                                          *)

\* rgss_main has returned or has thrown: killAudio = true.
MainReturns ==
    /\ phase = "running" /\ stopping = NotStopping
    /\ phase' = "closing"
    /\ UNCHANGED <<scriptVars, objectVars, stopping, audioVars, overlapped>>

\* audio.dispose() silences every music.
DisposeAudio ==
    source' = [m \in Music |-> IF source[m] = "none" THEN "none" ELSE "stopped"]

\* Mutant: mainLoop does not wait for the audio thread.
CloseAudio_NoWait ==
    /\ phase = "closing"
    /\ DisposeAudio
    /\ phase' = "disposed"
    /\ UNCHANGED <<scriptVars, made, looping, disposed, file, stopping, audioVars,
                   overlapped>>

\* mainLoop disposes audio when the audio thread is no longer alive.
CloseAudio ==
    /\ phase = "closing" /\ audioPc \in {"dead", "crashed"}
    /\ DisposeAudio
    /\ phase' = "disposed"
    /\ UNCHANGED <<scriptVars, made, looping, disposed, file, stopping, audioVars,
                   overlapped>>

\* exit(), called from handlePlatform when the window is closed: audio is
\* disposed of whatever the audio thread is doing ...
Exit ==
    /\ phase = "running" /\ stopping = NotStopping
    /\ DisposeAudio
    /\ phase' = "exiting"
    /\ UNCHANGED <<scriptVars, made, looping, disposed, file, stopping, audioVars,
                   overlapped>>

\* ... and System.exit(0) ends all threads.
SystemExit ==
    /\ phase = "exiting"
    /\ phase' = "exited"
    /\ UNCHANGED <<scriptVars, objectVars, stopping, audioVars, overlapped>>

Shutdown == MainReturns \/ CloseAudio \/ Exit \/ SystemExit

\* The process is gone.
Ended == phase \in {"disposed", "exited"} /\ UNCHANGED vars

Next ==
    \/ ScriptCall
    \/ StopStep
    \/ AudioStep
    \/ \E m \in Music : Completed(m)
    \/ Shutdown
    \/ Ended

Spec == Init /\ [][Next]_vars

\* The scheduler runs both threads; a music that is never stopped is played to
\* its end.
Fairness ==
    /\ WF_vars(AudioStep)
    /\ WF_vars(StopStep)
    /\ WF_vars(CloseAudio)
    /\ \A m \in Music : SF_vars(Completed(m))

FairSpec == Spec /\ Fairness
-----------------------------------------------------------------------------
(* What the audio subsystem promises.                                      *)

\* A BGM or BGS that sounds can be stopped: the field bgm or bgs still refers
\* to it, unless its dispose() has run (which NoResurrection is about).
LoopingReachable ==
    \A m \in looping : Playing(m) => m \in {music["bgm"], music["bgs"]} \cup disposed

\* While an ME sounds the BGM is silent, whichever of the two the script starts
\* first and whatever it stops or fails to load, as long as it does not start
\* an ME over another one.
BgmDucked ==
    ~overlapped => ~(Playing(music["me"]) /\ Playing(music["bgm"]))

\* What RPG::BGM.last and RPG::BGS.last name is what the Java side holds, so
\* that replay restores the right music, also after a failed load.
LastIsPlayed ==
    /\ \A c \in {"bgm", "bgs"} :
          music[c] # NoMusic => last[c] = file[music[c]]
    /\ music["bgm"] # NoMusic => bgmFilename = file[music["bgm"]]

\* When mainLoop has disposed of audio the audio thread never uses it again.
NoUpdateAfterClose == phase = "disposed" => audioPc \in {"dead", "crashed"}

\* A disposed music starts to sound again in one place only: the completion
\* listener of an ME, when bgm_stop is between dispose() and the end of its
\* assignment of null, or has just passed it.
NoResurrection ==
    [][\A m \in disposed : Playing(m)' /\ ~Playing(m) =>
          /\ audioPc = "resume"
          /\ stopping = <<"bgm", "clear">> \/ music["bgm"] = NoMusic]_vars

\* The audio thread does not die of an exception (in a program that stops its
\* BGM only by playing another one, which the monitor protects).
AudioThreadSurvives == audioPc # "crashed"

\* A BGM that was interrupted by an ME, or started during one, comes to sound
\* (in a program that never stops an ME and whose files load).
BgmResumes ==
    (phase = "running" /\ music["bgm"] # NoMusic) ~>
    (phase # "running" \/ music["bgm"] = NoMusic \/ Playing(music["bgm"]))

\* Once rgss_main is over, the wait for the audio thread ends.
ShutdownCompletes == phase = "closing" ~> phase = "disposed"
=============================================================================
