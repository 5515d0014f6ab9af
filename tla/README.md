# JRGSS in TLA+

JRGSS runs games made with RPG Maker VX Ace on the JVM. A game is a set of Ruby
scripts; JRGSS executes them with JRuby and gives them the classes of RGSS3
(`Graphics`, `Sprite`, `Audio`, `Input`, ...), implemented in Java over libGDX. Games
come as installers with cabinet files in them; the extractor unpacks these with
libmspack, a C library that is part of the repository.
This directory holds TLA+ modules of the parts of both programs whose correctness depends
on order: what happens between two threads, between the program and the garbage
collector, between two calls of a script or of the library.

Paths below are relative to `src/`; `api/` stands for
`Player-Core/src/main/java/org/jrgss/api/`, `mspack/` for `libmspack-0.4alpha/mspack/`.

## The system

| part | code | state | operations | what is hard |
|---|---|---|---|---|
| Audio | `api/JAudio.java`, `RPG::BGM` and its like in `resources/rpg/Rpg.rb` | the fields `bgm`, `bgs`, `me`, `se`, `bgmFilename`, `mePlaying`, the cache of sounds, Ruby's `@@last` | play, stop, fade of each | a completion listener that runs on another thread, stops that take no lock, files that fail to load |
| Audio thread, end of the program | `JRGSSDesktop.java` | `killAudio`, the thread | one pass each 16 ms, `mainLoop`, `exit` | two ways to end, one of which does not wait |
| Render registry | `api/AbstractRenderable.java` | `renderQueue` (weak references), `referenceQueue`, `counter` | construct, dispose, `cleanup`, the stream of a frame | the garbage collector runs between any two steps |
| Drawing order | `compareTo`, `Graphics.renderToBoundFramebuffer` | z, y, viewport and creation time of each renderable | the setters, the sort | a comparator over groups, fed in hash order |
| Screen | `api/Graphics.java`, `api/Viewport.java` | `brightness`, `backBuffer`, `backBufferOpacity`, `transitioning`, `transitionTexture`, `tempBuffer` | `update`, `freeze`, `transition`, fades, `wait`, `snap_to_bitmap`, `resize_screen` | calls that run frames inside themselves, framebuffers that several of them share, float arithmetic |
| Main loop, GL tasks | `JRGSSGame.java`, `JRGSSDesktop.handlePlatform`, `bootstrap.rb` | the queue of runnables, the GL thread | `runWithGLContext`, script loading | tasks that run later than they are posted |
| Input | `api/Input.java` | `isPressed`, `triggerStatus`, `repeatStatus`, timestamps | `update`, `press?`, `trigger?`, `repeat?`, `dir4` | focus loss, two keys on one symbol, the clock |
| Bitmaps, fonts | `api/Bitmap.java`, `api/Font.java` | framebuffer, region, cached pixmap; the font cache | drawing calls, `dispose`, font setters | tasks that read fields when they run |
| Windows, sprites, tilemap, scissors | `api/Window.java`, `Sprite`, `Plane`, `Tilemap`, `Scissors.java` | their attributes, the stack of clip rectangles | setters, `update`, `render`, `dispose` | pushes and pops that must match |
| Files | `FileUtil.java`, `rgssa/` | the case-insensitive cache, the archive's table | `loadImg`, `loadAudio`, `rawLoadFile` | a cache that remembers absence |
| Values | `Table`, `Color`, `Tone`, `Rect` | their components | get, set, load, dump | indices, clamping |
| Cabinets and sets | `mspack/cabd.c`, `cab.h` | linked lists of cabinets, folders and files, shared by the cabinets of a set | `open`, `search`, `append`, `prepend`, `close` | lists merged in place, with folders freed that others point to |
| Cabinet extraction | `mspack/cabd.c` | one decompression state `d`, kept between calls: folder, offset, input file, block, decoder | `extract`, with `cabd_sys_read` and `cabd_sys_write` as callbacks of a decoder | calls in any order, failures in the middle of a call, blocks split between cabinets |
| Decoders | `mspack/lzxd.c`, `mszipd.c`, `qtmd.c` | a window, positions in it, what is decoded and not yet written, the open block or frame | `init`, `decompress` | a call may end anywhere in a frame, block or match; damaged input |
| CHM helpfiles | `mspack/chmd.c`, `chm.h` | headers, a cache of directory chunks, one decompression state | `open`, `fast_open`, `fast_find`, `extract`, `close` | one decoder and one input file for everything, reset points, a directory searched on disk |
| Other formats | `mspack/kwajd.c`, `szddd.c`, `lzssd.c`, `oabd.c` | none between calls | `open`, `extract`, `decompress` | headers and bits |
| Not for TLA+ | shaders, `win32/`, logger, launcher, the extractor's JNA classes, libmspack's stubs and system layer, `repo` | | | floating point on the card, stubs, text |

How they interact: the script runs on the main thread. It calls the Java classes
directly and calls `Graphics.update` once per frame, which runs `handlePlatform`: window
messages (and `exit()` if the window was closed), the runnables posted with
`runWithGLContext`, then one frame (`JRGSSGame.render`, `Graphics.render`), which reads
the registry, sorts it and renders each object. So a frame never overlaps with the
script. The audio thread is the only other thread of the program that shares its state:
it calls `audio.update()` under the monitor of `JAudio.class`, and `audio.update()` calls
the completion listener of an ME. The collector and the reference handler of the JVM act
between any two steps. `fadeout`, `transition` and `wait` are loops of `Graphics.update`
inside one call of the script.

libmspack is another program: one thread calls a decompressor object, which keeps state
between its calls. `extract` gives a decoder (LZX, MSZIP, Quantum, or none) two
callbacks. Through the one the decoder asks for input, and `cabd_sys_read` fetches the
next block of the folder, from the next cabinet of the set if need be; through the other
it hands out what it has decoded, which is written only from where the wanted file
begins. `chmd.c` uses the LZX decoder in the same way with a reset table for random
access.

What makes each part correct: of audio, that the music which sounds is one the script
can name and stop, that BGM and ME do not sound together, and that the thread lives and
ends; of the registry, that each frame shows every object that is on the stage and no
other; of the order, that the comparator is an order and the promised one; of the
screen, that a frozen picture stays until its transition and that nothing is left of a
transition or fade that is over; of cabinets, that lists and memory agree and a set lists
each of its files once; of extraction, that what a call says it has extracted is the
file, and that an intact file is extracted whatever failed in the cabinets before; of a decoder, that
it writes the stream in order however the calls cut it, and that a call returns.

## The modules

**`JAudio`** (audio, audio thread, end of the program). `music[c]` is the field `bgm`,
`bgs` or `me`; a Music object is a number with a `source` (what OpenAL does with it), a
`file`, and membership of `looping` and `disposed`. The synchronized `*_play` methods are
one action each, guarded by `MonitorFree`: the only other holder of the monitor is the
audio thread during a pass. The `*_stop` methods take no monitor, so they are three
steps (`StopMusic`, `StopDispose`, `StopClear`). The audio thread is `PassBegin`,
`Completed` (a music has ended and its listener is entered), `ListenerTest`,
`ListenerResume` or `ListenerCrash`, `ListenerClear`, `PassEnd`. The field `bgm` is not
volatile and is read twice in the listener without a common lock, so the second read may
give what the first gave or what is there now. `BgmPlayFails`, `BgsPlayFails` and
`MePlayFails` are loads that throw. `MainReturns`, `CloseAudio`, `Exit`, `SystemExit` are
the ends. `Calls` says which calls the script makes; `MCJAudio` gives the values.

**`RenderQueue`** (registry), with its abstract specification **`Stage`**. A renderable
is its `creationTime`. `registry` is the key set of `renderQueue`; `held` is what the
script refers to; `Collect` clears the reference of an object that nothing strongly
reachable refers to (and, as the JVM does, of those from which it can be reached), and
`Enqueue` brings it to the reference queue later. A frame is `FrameBegin`, `CleanupPoll`
repeated, `CleanupDone`, then for each entry `Filter` (the test `get() != null`) and
`MapGet` (the second `get()`), `SnapshotDone`, `Draw`. Steps of the script happen only
between frames. Losing a frame to a null is a way back to the script: the script may
rescue the exception. `Stage` has no references or collector: actors enter, leave, and a
frame shows exactly the actors.

**`RenderOrder`** (drawing order). A scene is a function from creation times to
`[isViewport, viewport, z, y]`. `CompareTo` follows `AbstractRenderable.compareTo` line by
line. `Sorted` is what `Collections.sort` does with fewer than 32 elements (the longest
first run, reversed if it descends, then binary insertion at the `Place` that a search
finds by halving its bounds), started from `InHashOrder`, the list of `HashMap.values`.
`Below` states the documented order: groups by z, y, time; a
viewport after what stands in it. `Tie` names the pairs for which the last line of
`compareTo` goes wrong.

**`Graphics`** (screen). What the script draws is a version of the scene; `Toned` are the
scenes in which a viewport has a tone, `Solid` those that leave alpha 1 in every pixel of
the framebuffer, which is cleared with alpha 0. A framebuffer is the scene in it and its
size. A frame draws the live scene and the back buffer over it (`shown`); `Seen` are the
pictures of which something is then visible.
The calls that run frames are `Begin...`, one `Turn` for each turn of the loop (it sets
brightness or opacity, then does `Update`), and `Return`. `FadeLevel` computes
`(int) (i * (255f / d))` in binary32, rounding included. `last` records the call that has
returned (for `FadeIsComplete`), `frozen` the picture that waits for a transition. `WaitInFiber` is `wait` off
the render thread.

**`Input`** (keys and pad buttons), with its abstract specification **`Keypad`**. The four
maps of `Input.java` are the sets of buttons they map to true and, for
`repeatTimestamps`, an `age` that stops at the delay; `known` is the domain of
`isPressed`, through which the update without the focus goes. `Update` is
`Input.update` with `updateKey` for all buttons (`PutTrigger`, `PutRepeat`,
`PutTimestamp`); `Messages` is `Graphics.update`, the only place where the window learns
of keys and of the focus; `Tick` is time. `active` and `quiet` are history. `Keypad` has
no maps, pad, focus or clock: an update notes what is held, and what is held for the
first time is fresh. A button is handled in no time, a pad does not come or go, and the
clock goes forward only: the code uses the wall clock, and setting that back stops the
repeats of a held button for as long.

**`Cabd`** (cabinets and sets), with its abstract specification **`CabSet`**. A cabinet
object is named by the cabinet on disk, a folder or file by its cabinet and place; `live`
is what is allocated. `cab`, `folder` and `nextFile` are the structures of `mspack.h`,
with their pointers. `Join` is `cabd_merge`: `CannotAttach` (its arguments), `CanMerge`
(`cabd_can_merge_folders`), then `JoinLists` or `JoinMerging`, both followed by `Attach`.
`CloseCabs` follows the pointers as `cabd_close` does. `CabSet` knows only which cabinets
are open and in which sequences they are joined.

**`CabExtract`** (extraction), over `Cabd`. `d` is `mscabd_decompress_state`; `call` is
the `extract` under way, in its two phases (decode and skip, decode and write). The steps
of a call are those of the decoder (`Decoded`, `Write`, `DecodeFrame`, `AskForInput`) and
of `cabd_sys_read` (`CopyInput`, `EndOfFolder`, `NextBlock`, `ReadBlock`,
`ReadSplitBlock`, and the ways they fail). `Extract` is a call up to its decoding: it is
refused, or changes `d` to the file's folder (`ExtractBegin`), or cannot, when the cabinet
does not open (`ExtractCannotOpen`), the seek fails (`ExtractCannotSeek`), or
`cabd_init_decomp` does (`ExtractCannotDecode`: no memory, window bits the decoder refuses,
or a compression type nobody knows). In the last two `d` keeps the folder it was for beside
an input file that stands somewhere else, perhaps in another cabinet (`astray`), and has no
decoder (`dec`) after the last. A file of the old folder is then decoded from the wrong
place (`ReadNoBlock`) or by nothing (`NoDecoderThere`), where a null pointer may be used: then
the process ends (`Crash`). `method` is `d.decompress`. Of the codes in `error` and
`read_error` only "ok" matters, and the others are one, "failed". A byte is a pair of stream
and position, so that wrong output is told from right. The decoder of a packed folder is a frame that
comes out when its input is complete, with an error that stays; what happens inside is
`Decoders`' affair. `noned_decompress` is modelled as it is.

**`Decoder`, `Lzxd`, `Mszipd`, `Qtmd`** (the decoders), **`Decoders`** (the three beside
their common promise), with the abstract specification **`Stream`**. `Decoder` has what
they share: the window, `posn`, `optr` and `oend`, the call's `want`, and the history
`plain` (what the encoder encoded) and `written`. A symbol is read as a whole: literals,
matches of any offset and length in the constants, block headers, damage anywhere. The
encoder's choices are the nondeterminism, so each behaviour is one stream and one series
of calls. `Lzxd` has frames, blocks that go on over frames, the three repeated offsets,
resets, reference data, and the odd byte after an uncompressed block. What such a block's
header says of the repeated offsets (`LzxRepeats`) nobody checks: they may be 0 or larger
than the window, and `Distance` is how far back the copy of `lzxd_decompress` then goes. `Mszipd` a window
of one frame decoded over the frame before, blocks, and the repair mode; `Qtmd` windows
smaller than a frame and matches over the window's end. `Junk` is what the window holds
before anything is decoded into it: `qtmd_init` and `mszipd_init` leave it as allocated, so
the value matters to nothing but `NoJunk`, and any number that is no byte of the stream
would do. `Lzxd` has no step in which the input ends: `lzxd_decompress` asks for no more of
the stream than a frame that still fits in it, which `WholeFrames` (below) proves.
`Stream` has only what is written: a call writes the next bytes of the stream, an error is for good.

**`Chmd`** (CHM helpfiles). `Image` is what a helpfile has on disk: chunks of entries
with quick references and links, frames that are intact or not, a reset table.
`GroupStart` (turn by turn, `Halved`) and `InGroup` are the two steps of `search_chunk`, and
`Path` is the walk over chunks of `chmd_fast_find` (`Onward` is a step of it; a walk that
goes on for ever is cut at the length of the directory). `Ordered` and `WellFormed` are not
code but what the format promises of a directory: entries sorted, chunks of files linked in
order, an index that is a tree over them with each name under the last entry not after it,
and the four system files. `InitDecomp` is `chmd_init_decomp` with `find_sys_file` and
`read_reset_table`; `Extract` is one action per case of `chmd_extract`. `Faults` are
what may go wrong in a call. An LZX frame is decoded or fails (`Decode`), including the
frame too many that `lzxd.c` decodes when a request ends on a frame's boundary; a request
past the end of the stream fails. The stream is taken to have whole reset intervals, as
the code does of the length in the reset table. `ImageAssumption` leaves out directories
that go on past the last chunk (`last_pmgl` is not compared with `num_chunks`) and index
entries that name no chunk; the read of such a chunk fails.

**`JAudioProofs`, `RenderQueueProofs`, `RenderOrderProofs`, `GraphicsProofs`,
`InputProofs`, `CabProofs`, `ChmdProofs`, `DecodersProofs`** hold the theorems.

Each module has mutants (`Operation_WhatIsWrong`): variants of an operation with a bug
such code could have. They are not used by the specification; with one in place of its
operation TLC finds the property it stands for violated.

## The runs

| run | instance | shows |
|---|---|---|
| `audio` | 2 files, 4 Music objects, all calls | type, `LoopingReachable`, `BgmDucked`, `LastIsPlayed`, `NoUpdateAfterClose`, `NoResurrection` |
| `audio_live` | 2 files, 3 Music objects, no manual stop of BGM or ME, no failing load | `AudioThreadSurvives`, `BgmResumes`, `ShutdownCompletes` |
| `render_queue` | 3 renderables, any of them viewports | type, `RegistryExact`, `FrameExact`, `HeldIsListed`, `GarbageIsRemoved`, and that it implements `Stage` |
| `render_order` | up to 4 renderables, z and y in {0, 1}, creation times from 0 or across the end of the hash table | `UntiedIsExact`, `ContractKept` |
| `render_order_doc` | the same, all at one place | `LaterIsCloser` fails |
| `graphics` | 3 scenes, one of them solid and one toned, 2 sizes, durations 0, 1, 7, 60 | type, `FrozenIsShown`, `TransitionReleases`, `FadeIsComplete` |
| `input` | two keys, one pad button, a delay of 2 ticks, a shared and an unbound symbol | type, `StatusesAgree`, `ReleasedOutOfFocus`, `RepeatPaced`, and that it implements `Keypad` |
| `cab` | three cabinets of a set, a folder split over all of them, a stored folder with a bad block, one of an unknown type, two cabinets to search for | `HeapIsSound`, `FilesAreListedOnce`, `ExtractIsSound`, `IntactIsExtracted`, and that it implements `CabSet` (`SetsAreSets`) |
| `cab_stored` | the same set, with two files of a stored folder around a bad block | `StoredIsSound` fails |
| `decoders` | LZX frames of 3 in a window of 6, MSZIP frames of 4, Quantum windows of 4 in frames of 8, streams of 7 and 10 bytes, calls of 1, 2 or 5 bytes | type, `IntactIsDecoded`, `NoJunk`, `CallsReturn`, and that each implements `Stream` (`DecodesInOrder`) |
| `qtm_wrap` | the same | `MatchFitsTheCall` fails |
| `chm` | a helpfile with an index, quick references, a damaged frame and files past the end of its stream, one whose chunks are only chained, with a damaged chunk and no reset table | `FindIsRight`, `ExtractIsSound`, `InStep`, `SecondTrySucceeds` |

Bounds. Four Music objects are enough for a BGM, a BGS and an ME with one replacement,
or for two MEs over one another with a BGM before and after. Three renderables are a
viewport, a sprite in it, and one that is made while the collector deals with them. Four
are what a wrong order needs: two sprites, a viewport, and a sprite in it; the hash
table has eight buckets, which four renderables do not fill. A button of each kind
and one key that two symbols share are what the tests of `Input` tell apart; with a
delay of two ticks a button is asked before, at and after it is due. Durations 0 and 1 are the edges of the loops and of the
transition with a graphic; 7 loses a level of brightness to rounding; 60 is what games
use. Files are interchangeable, hence the symmetry in `audio`; `audio_live` checks
liveness and has none.

The lists of `cab` have no bound of their own: `ListOf` cuts a list that is longer than
there are objects, since that one does not end. Three
cabinets are what a folder needs that is continued both ways, and what tells a set from
a pair; the other folders are before and after the split one, so that
extraction goes from one folder to another and back. Blocks of two bytes let a file end
inside one, at its end, or begin in the next; a read buffer of three is longer than a
block and not a multiple of it. The decoders' frames and windows are the smallest in
which a match can lie within a frame, go over the window's end, and refer to the frame
before; the streams are two frames and a bit (LZX), nearly two (MSZIP), and two windows
and a half (Quantum); calls of 1, 2 and 5 end within, at and after a frame. An uncompressed
block's header gives the repeated offsets of an intact stream, or 0 and one larger than
the window. A run of
`decoders` stops when everything has been asked for or an error has been returned, hence
no check for deadlock. The two helpfiles of `chm` have every kind of chunk, a file in each
section, files that begin and end at and beside frames and resets, one that goes over the
end of the stream and one behind it, and a group of quick references that is shorter than
the others; their directories are as the format promises
(`MCWellFormed`). `SecondTrySucceeds` is about the first of them alone, the other being
damaged where the directory is: that it also holds of a whole helpfile whose reset table
cannot be read is shown by its theorem, not by the run.

Fairness. In `JAudio`: the audio thread runs (weak fairness of `AudioStep`), a `*_stop`
method that has begun goes on, `mainLoop` goes on, and a music that is not stopped is
played to its end (strong fairness of `Completed`, since the thread leaves the pass and
comes back). Nothing is assumed of the script. In `RenderQueue`: a frame goes on once
begun, the reference handler runs, and the script calls `Graphics.update` again, as every
RGSS game must or its window hangs. In `Decoders`: a call goes on until it returns
(`Fairness`: weak fairness of the steps of a call), since it waits for nothing. Nothing is assumed of the caller.
Safety properties and theorems use no fairness.

What the runs found.

- Two sprites at one place may be drawn in the wrong order because of a third in a
  viewport (`render_order_doc`, against `Sprite.java:260`).
- `noned_decompress` keeps no error and `extract` keeps `d` when a read fails
  (`cabd.c:1392`): the file tried again, or the next one of the same stored folder, is
  written from the wrong place and `extract` returns `MSPACK_ERR_OK` (`cab_stored`).
- A Quantum match over the window's end in a call that ends inside its first part makes
  `qtmd_decompress` give up on an intact stream (`qtm_wrap`), which a comment at
  `qtmd.c:367` says should not happen.

The models of the player also contain these behaviours, which have no run of their own:

- `bgm_stop` against the completion listener of an ME either kills the audio thread by a
  null pointer, after which no music is updated, or makes the disposed BGM sound again
  with nothing left that could stop it. `NoResurrection` shows this is the only such
  place, `AudioThreadSurvives` that programs which never stop the BGM by hand are safe.
- `me_stop` during an ME leaves `mePlaying` set and the BGM paused for good; a failed
  `me_play` also leaves the BGM paused. `BgmResumes` is stated for programs without these.
- `me_play` during an ME leaves the first one sounding; its end clears `mePlaying` under
  the second. `BgmDucked` excludes this with the history variable `overlapped`.
- A BGS that is started while an ME plays never sounds: the listener resumes only the BGM.
- `exit()` disposes of audio without stopping the audio thread.
- `fadein(d)` ends at 254 for d = 7 and other durations, `fadein(0)` at 0, hence the form
  of `FadeIsComplete`.
- After a transition with a graphic the back buffer is not disposed of (inverted test,
  `Graphics.java:440`). A script that rescues the exception of a missing graphic stays
  frozen.
- `dir8` returns 0 always (`Input.java:154`). `trigger?` of a symbol is true when a second
  of its keys goes down while the first is held. A press and a release between two
  updates are never seen.
- A snapshot before the first frame, and a freeze of a toned scene before it, throw.
- Fades and plain transitions run one frame more than asked (`Graphics.java:402, 447, 458`
  against the comments at 505, 510, 520); a snapshot is the last frame, not what has been
  drawn since (467 against 529); a freeze of a scene with a toned viewport is not the
  current screen (`Viewport.java:82` against 513). Each can be read off the action that
  models it.
- A freeze does not stop screen rewrites as `Graphics.java:515` says: each frame draws the
  live scene, and the back buffer over it (330 to 337). Where nothing opaque was drawn
  before the freeze (the buffer is cleared with alpha 0, 220), and after the freeze of any
  scene with a toned viewport that was not fully opaque under it, what the script draws
  shows through. `FrozenIsShown` states both cases.

And these of libmspack, some of them left out of the models on purpose, as said:

- A request that ends on a frame's boundary makes `lzxd_decompress` decode one frame more;
  if that frame is damaged, the file before it cannot be extracted, however often it is
  tried, although all its bytes are intact. `SecondTrySucceeds` therefore counts that frame
  among those of the file (`Clean`). What a second try repairs is damage that the decoder
  of the calls before meets on its way, ahead of the file's reset point, and a reset table
  that cannot be read.
- The output length, which `lzx.h:130` says matters only to the E8 translation, is needed
  to decode a short last frame. A cabinet tells it when the last block is read
  (`cabd.c:1203`).
- `lzxd_reset_state` forgets that an odd uncompressed block leaves a byte to skip
  (`BlockFits` leaves such streams out).
- MSZIP and Quantum copy from window bytes that nothing was decoded into when a stream is
  bad; `NoJunk` is stated for LZX only. LZX does so too, in one case: the header of an
  uncompressed block may set a repeated offset to 0 (`lzxd.c:513`), a match that uses it
  passes the test for offsets beyond the stream (611) and copies the window onto itself
  (633), so what the window held is written, memory that `lzxd_init` left as allocated
  included. `NoJunk` says so: it holds up to such a match (`zero`). In MSZIP's repair mode a frame that is too long
  overwrites its own start.
- `inflate` accepts distance code 30 with tables of 30 entries (`mszipd.c:267`; not
  modelled).
- `cabd_find` misses a signature after another `M` (`cabd.c:674`), and `cabd_search`
  returns what it has found so far when reading fails, with an error set.
- Cabinets that `search` found and that are then joined are freed twice or not at all
  (`cabd.c:290`; the model joins only cabinets of `open`). Joining in the wrong order only
  warns (`cabd.c:829`), and the test before `extract` for an incomplete set (`cabd.c:995`)
  does not catch every such set.
- When a seek or `cabd_init_decomp` fails (`cabd.c:1029`, `1034`), `d` keeps its old folder
  with another input file or without a decoder; a folder of an unknown compression type
  (1129) or with window bits that the decoder refuses is enough. An intact file of the old
  folder then fails, for good if its decoder has seen the error, with `MSPACK_ERR_ARGS` if
  there is none; a stored one, or any after an unknown type, ends the process on a null
  pointer (1388, 1074), and so does reading on in a stored folder whose last part had been
  passed (1257). And the input
  file may be in a cabinet that is closed while the old folder stays, so that `d.incab`
  points to freed memory: a later cabinet at the same address would be taken for it (1020;
  no address is used twice in the model). `HeapIsSound` and `IntactIsExtracted` make these
  exceptions (`astray`, `whole`) and no other; that such a file is never extracted wrongly
  without an error is part of `ExtractIsSound`.
- After a reset table that cannot be read, `chmd_extract` returns the error of the attempt
  although the decoder is there; the next try works. `fast_find` does not keep the error
  of a helpfile that cannot be opened, and follows cycles of chunks for ever (a TODO in the
  code; the model cuts them, and `Ordered` leaves such directories out).

## The proofs

All theorems hold for every value of the constants that meets the assumptions stated
with them; the assumptions say only what the constants are (files are not the empty
name, bounds are natural numbers, durations and levels fit a byte).

- `JAudioProofs`. `TypeOK` is inductive together with the fact that a `*_stop` method past
  its null check holds a music. `LoopingReachable` needs `Reach`: Music objects are used
  in the order they are made, fields refer to objects of the right sort and `bgm` and
  `bgs` to different ones, a field refers to a disposed music exactly while its `*_stop` is past
  `dispose()`, and what the listener has read is the BGM or one that was disposed of
  since. `NoResurrection` follows from the same invariant. `BgmDucked` needs in addition
  what `mePlaying` means at each step of the listener; `AudioThreadSurvives` is proved
  under the assumption that `bgm_stop` is not among the calls; `NoUpdateAfterClose` and
  `LastIsPlayed` have invariants of their own.
- `RenderQueueProofs`. The invariant is `Typed /\ NotGarbage /\ RegistryExact /\ Listing`:
  what is strongly reachable has not been collected, and the entries still to come, the
  current one and the list make up the registry but for garbage. From it follow
  `FrameExact`, `HeldIsListed` and, step by step, that every step is one of `Stage` or a
  stutter.
- `RenderOrderProofs`. `BelowIsOrder`: the documented order is a strict total order on any
  scene. `CompareIsBelow`: without ties `compareTo` is that order. With the invariant that
  viewports stand in no viewport, this gives `ContractKept`. Then the sort, for lists of
  every length: the bounds of the binary search always enclose the place of the element and
  narrow until they meet (`HalvedNarrows`, `PlaceIs`), inserting there keeps a list in order
  (`InsertIs`), and the run at the beginning, reversed or not, is in order to begin with
  (`FirstRunAscends`). So the list has every renderable, in the documented order, however
  the hash table listed them (`SortedIs`, `DrawnInOrder`). What is not proved is that
  `java.util` sorts lists of 32 elements and more, where the merging sort begins.
- `GraphicsProofs`. `Owned` says to whom the back buffer and the mask belong at each
  moment; it is inductive and gives `TransitionReleases` and `FrozenIsShown`. `FadeState`
  says that in the middle of a fade `brightness` is the level of the last turn; with it
  the type invariant is inductive (`Typed`, `Flags`). That a level is a byte, and the last
  one 254 at least (`FadeIsComplete`), is a fact about rounding, proved for all 255
  durations at once: the quotient `255f / d` has 24 bits whatever `d` is
  (`FadeLevelBounds`), so it is off by less than half of its last bit, and `d` times that is
  less than one level.
- `ChmdProofs`. `Steady` says what the decompression state is between calls: if there is
  a decoder it is one of that helpfile, has not failed, and its position and next frame
  are `offset` and `inoffset`. With the form of the headers it is inductive
  (`SteadyKeeps`, `CompressedKeeps`, `NextIInv`) and gives `InStep`. `ExtractIsSound`
  follows from it step by step: a decoder in step gives the bytes from its offset to the
  end of the file, of which those before the file are not written. The assumptions are
  `ImageAssumption`, what a helpfile that passes the header checks has on disk, and that
  `NULL` is not a decoder or a state.
  `FindIsRight` (`FindRight`) has `Ordered` as its hypothesis, since a directory that is not
  sorted cannot be searched by halves; TLC evaluates it for the helpfiles of the runs. The
  name is always between the heads of the groups before `L` and after `R`, and the bounds
  narrow until the group is found (`HalvedIs`, `GroupStartIs`); in the group the search stops
  at the entry that has the name or is the last before it (`InGroupIs`, `HitIs`). Each chunk
  of a walk has a lower rank than the one before, its place in the directory or its level in
  the index, so that the walk ends within as many steps as there are chunks (`PathEnds`);
  for a name that is listed it stays among the chunks up to the one that has it, or under
  the entries that lead there (`ChainFinds`, `IndexFinds`). A cache changes what is read,
  not what is found (`FindIs`).
  `SecondTrySucceeds` (`SecondTryDoes`, under `WellFormed`) needs `RetryInv`: a clean file
  (in the stream, and all frames that a new decoder reads for it intact)
  whose extraction failed with nothing going wrong outside left no decoder, and a reset
  table that can be read, or a decoder at the first byte and a table that cannot (`Ready`).
  From either the file is extracted (`CleanExtract`): the system files are found
  (`SysFileFound`, from `FindIs`), the decoder begins at a reset point that is not after the
  file (`ResetFrameIs`) and in the stream (`ResetPointInside`), and all frames it then needs are intact (`CleanFrames`,
  `CleanDecode`).
- `InputProofs`. What repeats is pressed and what triggers repeats (`Nested`), nothing is
  pressed after an update without the focus (`Released`), and the timestamp of a pressed
  button is that of its last report (`Stamped`); with the type invariant, which says that
  nothing has a status no update has seen, this is inductive. `UpdateStatus` says what an
  update leaves in each map; all five properties follow from it.
- `CabProofs`. `SetsAreSets` and `HeapIsSound` for any cabinets, folders that go over any
  number of them, and any order of calls. The lists of `Cabd` are read along pointers, so
  the invariant has to say that pointers and sequences are the same thing. `ListIs` does it
  once for all lists: a chain of different objects that ends in `NULL` is what `ListOf`
  reads. `JoinChains`, `LinkedIs` and `WithoutIs` say what linking two lists, relinking one and
  dropping a folder's files do to it. `HeapInv` says that there is a set S of
  sequences of cabinets in which each open cabinet is once, such that `prevcab` and
  `nextcab` are its neighbours in its sequence (`AreSets`), all of a sequence have the
  same two lists, not empty and without a repetition, and these have nothing in common
  with those of another (`Heap`): what is allocated is what they hold, a folder's parts, marked
  files and those of its files that are left lie in its set. In addition the cabinets
  `search` found are chained by `next` (`FoundAre`), and the decompressor stands in an
  allocated folder and an open cabinet, unless it is `astray` (`StateInv`). The hard case is a merge. The folder
  that goes has a `merge_prev`, so `extract` has always refused its files and the
  decompressor does not stand in it; the `merge_next` that `MergedNext` leaves is no file
  that goes with it; and the first file of the set stays, since the folders before the
  merged one keep theirs. From the same invariant every step is one of `CabSet` or a
  stutter.
  Assumptions: what is on disk is finite and well formed (`ImageAssumption`), `search` finds a
  cabinet once (`FoundAssumption`) and what it found is not joined (`JoinAssumption`, see
  above), and a cabinet with a file that is continued both ways has one folder
  (`SplitAssumption`). The last is what the format means, and nothing checks it: in a
  cabinet with several folders the file would belong to the first of them and be the `merge_next`
  of the last, which would refer to freed memory after the first was merged (`cabd.c:880`
  looks at the merged folder only).
- `DecodersProofs`. `Sound` is inductive (`SoundInit`, `SoundNext`) for any window, frame,
  stream, any calls and any damage. Its core is `Mirrors`: as far back as the window reaches,
  byte n before `posn` is the one n places from the end of `plain`. A match is copied byte by
  byte, by `CopyIn` from the window and by `WithCopy` from the stream; by induction over the
  length the two copies agree (`CopyMirrors`), also when a match reads what it writes.
  `Follows` says the same of what lies between `optr` and `oend`: it is what `plain` has
  after `written`. `Accounts` relates what is asked for, written and pending. The rest is
  per decoder. LZX: every frame but the last is a whole one, and none goes over the window's
  end or the stream's (`WholeFrames`). MSZIP: the window up to `bytesOutput` is the frame,
  what lies behind it the end of the frame before, and what `Put` flushes in the middle of a
  symbol is in order (`Inflated`). Quantum: a match over the window's end is copied in two
  parts, of which the first is written before the second is copied. From `Sound` follow the
  type invariant and, step by step, that each decoder implements `Stream`
  (`DecodesInOrder`).
  `NoJunk` needs no more than that a match of LZX, but for one of distance 0, never refers to
  before the stream and its reference data (`NoJunkDecoded`). That an offset larger than the
  window, which an unchecked header may give, still copies from inside it is `SameSource`.
  `IntactIsDecoded` says of a stream nobody has damaged that the decoder finds no fault in
  it. The danger is where frames, blocks and resets meet: `LzxIntact` says that the block
  and its run end where they must, that a block crosses no reset, and that
  `lzxd_decompress` skips a byte exactly when the block has one; `ZipWants`, that MSZIP opens
  a frame only if more is wanted.
  Assumptions beside sizes being numbers: frames fill the LZX window, the offsets an LZX
  match spells out are within the window, and so are those of Quantum, as the formats'
  position slots give them.

The prover cannot use an induction theorem that has a predicate as a parameter. The
modules tell induction with sets: a set of natural numbers that has 0, and with each
number the next, has them all (`Induct`), because < is well-founded on them
(`LeastNumber`). `IterateExists` uses it to define what a loop has computed after n turns.

What the proofs changed in the model: `LzxInputEnds` is gone, a step that the proof showed
could not be taken. The offsets of Quantum are those the window has. The lists of `Cabd` are
cut at the number of objects instead of at a constant, and files of a merged folder are
dropped by `Without`, along the list as the loop of `cabd_merge` goes. The binary search of
`search_chunk` and the walk of `chmd_fast_find` are functions of the turn they are at, where
they were recursive over bounds and chunks.

Only model-checked: the liveness properties (`BgmResumes`, `ShutdownCompletes`,
`GarbageIsRemoved`, `CallsReturn`: liveness under fairness is out of the prover's reach),
and of `cab` `FilesAreListedOnce`, `ExtractIsSound` and
`IntactIsExtracted`: they hold of cabinets whose headers agree with one another, and what
that means of any number of cabinets is more than the code or the format states.

## Not modelled

Volume, pitch and position of music; sound effects beyond their cache; full-screen
letter boxes, frame counters; the content of pictures. The JRuby runtime is represented
by the freedom of the script: it may make any call at any time between frames. Fibers of
JRuby that run off the main thread could make renderables concurrently with a frame
(`addToRenderQueue` locks the object, not the class); only `wait` is modelled for them.
Shaders, the Win32 stubs, logger, launcher and the extractor's JNA classes are left out
for the reasons in the table; `repo` holds vendored jars.

Of libmspack: bits, Huffman tables, the arithmetic decoder and the E8 translation, which
are functions of bytes without a choice of order (a symbol is read as a whole); the checks
of single header fields, for which one failure stands; `param`, `last_error`, FIXMSZIP
and its ignored checksums; blocks that are not maximal; allocation that fails in the
middle of a call, but for the calls of `cabd.c`. KWAJ, SZDD and OAB decode one file in one call and keep nothing; OAB's
blocks are LZX streams with reference data, which `Lzxd` has as an option. Compressors,
HLP and LIT are stubs that return NULL.

## Plan

1. `Oabd`: the loop over blocks with `Lzxd`'s reference data, and failures in between.
2. `Kwajd` and `Lzssd`: the ring buffer of LZSS as a fourth decoder that implements
   `Stream`, and the two ways KWAJ ends its input.
3. `GLTasks` and `Bitmap`, with `Font`: the queue of `runWithGLContext`, the fields that
   tasks read when they run, the cached pixmap, dispose, the cache of fonts and its keys.
   Proof: the cached pixels are those of the framebuffer when no task is pending.
4. `Files`: lookup order of `loadWithExtensions` and `rawLoadFile`, the case-insensitive
   cache against files that are saved during the game, the archive's key stream over
   bounded inputs.
5. `Windows`: openness, cursor, pause counter, and `render` against the stack of
   `Scissors`. Proof: the stack is empty between frames.
6. More proofs: `FilesAreListedOnce` and `ExtractIsSound` of cabinets, from a statement of
   when the headers of a set agree.
