-------------------------------- MODULE Lzxd --------------------------------
(***************************************************************************)
(* The LZX decoder, lzxd.c: frames of a fixed size in a window of several, *)
(* blocks that need not end with a frame, three offsets that repeat, resets*)
(* every so many frames, and data before the stream to refer to (DELTA).   *)
(*                                                                         *)
(* Bits, Huffman codes and the translation of E8 calls are left out: a     *)
(* symbol is read as a whole, and the streams have no intel_filesize.      *)
(***************************************************************************)
EXTENDS Decoder

CONSTANTS
    LzxFrame,       \* LZX_FRAME_SIZE
    LzxWindow,      \* window_size
    LzxOffsets,     \* the match offsets
    LzxLengths,     \* the match lengths
    LzxRepeats,     \* what an uncompressed block's header may say of R0, R1 and R2
    LzxOptions      \* what lzxd_init is given: see LzxAssumption

\* Frames fill the window; each set of options has the reset interval, the size of
\* the reference data and when the output length is told.
ASSUME LzxAssumption ==
    /\ LzxFrame \in Nat \ {0}
    /\ LzxWindow \in Nat /\ LzxWindow > 0 /\ LzxWindow % LzxFrame = 0
    /\ LzxOffsets \subseteq 1 .. LzxWindow
    /\ LzxLengths \subseteq Nat \ {0}
    /\ LzxRepeats \subseteq Nat \X Nat \X Nat
    /\ LzxOptions \subseteq [interval : Nat, ref : 0 .. LzxWindow,
                     told : {"start", "last block"}]

VARIABLE
    lz  \* the rest of lzxd_stream and the locals of lzxd_decompress, with the
        \* offsets that repeat and the odd byte to skip as the encoder has them, and
        \* whether a match of distance 0 has been decoded (zero)

lzxVars == <<decoderVars, lz>>

NoRepeats == <<1, 1, 1>>    \* R0, R1, R2

\* lzxd_init and lzxd_set_reference_data.
LzxInit ==
    /\ method = "lzx"
    /\ InitDecoder
    /\ \E options \in LzxOptions :
          /\ lz = [frame |-> 0, framePosn |-> 0, endFrame |-> 0, size |-> 0, todo |-> 0,
                   run |-> 0, remaining |-> 0, blockType |-> "invalid", blockLength |-> 0,
                   R |-> NoRepeats, trueR |-> NoRepeats, pad |-> FALSE, zero |-> FALSE,
                   options |-> options]
          /\ window = [i \in 0 .. LzxWindow - 1 |->
                          IF i >= LzxWindow - options.ref THEN i - LzxWindow ELSE Junk]

InLzx(at) == method = "lzx" /\ pc = at

LzxStart ==
    /\ InLzx("start")
    /\ lz' = [lz EXCEPT !.endFrame = (Len(written) + want) \div LzxFrame + 1]
    /\ pc' = "frame"
    /\ UNCHANGED <<method, total, want, window, posn, optr, oend, err,
                   plain, written, asked, damaged>>

\* lzx->length, or 0 if nobody has told it: a cabinet does when the block of the
\* last frame is read.
KnownLength ==
    IF \/ lz.options.told = "start"
       \/ lz.options.told = "last block" /\ lz.frame >= (total - 1) \div LzxFrame
    THEN total ELSE 0

AtReset == lz.options.interval # 0 /\ lz.frame % lz.options.interval = 0

\* lzxd_reset_state.
Reset == [lz EXCEPT !.R = NoRepeats, !.trueR = NoRepeats, !.remaining = 0,
                    !.blockType = "invalid"]

\* The size of the frame; it is the full one as long as the length is not known.
FrameSize ==
    IF KnownLength # 0 /\ KnownLength - Len(written) < LzxFrame
    THEN KnownLength - Len(written) ELSE LzxFrame

LzxFrameBegins ==
    /\ InLzx("frame") /\ lz.frame < lz.endFrame
    /\ IF AtReset /\ lz.remaining # 0
       THEN Fail("decrunch") /\ UNCHANGED lz
       ELSE /\ pc' = "decode"
            /\ UNCHANGED err
            /\ lz' = [(IF AtReset THEN Reset ELSE lz) EXCEPT
                         !.size = FrameSize, !.todo = lz.framePosn + FrameSize - posn]
    /\ UNCHANGED <<method, total, want, window, posn, optr, oend,
                   plain, written, asked, damaged>>

\* "bytes left to output"
LzxReturns ==
    /\ InLzx("frame") /\ lz.frame >= lz.endFrame
    /\ IF want # 0 THEN Fail("decrunch") ELSE pc' = "idle" /\ UNCHANGED err
    /\ UNCHANGED <<method, total, want, window, posn, optr, oend, lz,
                   plain, written, asked, damaged>>

\* A mutant of Realigns: never.
Realigns_Never == FALSE

\* Whether the byte after an odd uncompressed block is skipped.
Realigns == lz.blockType = "uncompressed" /\ lz.blockLength % 2 = 1

\* The blocks an encoder may begin here.  None of them goes on over a reset, and
\* an uncompressed one that ends there has an even length.
BlockFits(type, length) ==
    LET end == Len(plain) + length
        stretch == lz.options.interval * LzxFrame
    IN  /\ end <= total
        /\ stretch # 0 =>
              /\ Len(plain) \div stretch = (end - 1) \div stretch
              /\ type = "uncompressed" /\ end % stretch = 0 => length % 2 = 0

\* A block header; an uncompressed block sets the offsets that repeat, unchecked.
LzxBlock(type, length, repeats) ==
    /\ InLzx("decode") /\ lz.todo > 0 /\ lz.remaining = 0
    /\ BlockFits(type, length)
    /\ IF Realigns # lz.pad
       THEN Fail("decrunch") /\ UNCHANGED lz
       ELSE /\ lz' = [lz EXCEPT
                  !.blockType = type, !.remaining = length, !.blockLength = length,
                  !.R = IF type = "uncompressed" THEN repeats ELSE @,
                  !.trueR = IF type = "uncompressed" THEN repeats ELSE @,
                  !.pad = (type = "uncompressed" /\ length % 2 = 1)]
            /\ UNCHANGED <<err, pc>>
    /\ UNCHANGED <<method, total, want, window, posn, optr, oend,
                   plain, written, asked, damaged>>

LzxRun ==
    /\ InLzx("decode") /\ lz.todo > 0 /\ lz.remaining > 0
    /\ LET run == AtMost(lz.remaining, lz.todo)
       IN  lz' = [lz EXCEPT !.run = run, !.todo = @ - run, !.remaining = @ - run]
    /\ pc' = "symbols"
    /\ UNCHANGED <<method, total, want, window, posn, optr, oend, err,
                   plain, written, asked, damaged>>

Decoding == InLzx("symbols") /\ lz.run > 0

\* A literal, and a byte of an uncompressed block.
LzxLiteral ==
    /\ Decoding
    /\ window' = [window EXCEPT ![posn] = NextLiteral]
    /\ plain' = Append(plain, NextLiteral)
    /\ posn' = posn + 1
    /\ lz' = [lz EXCEPT !.run = @ - 1]
    /\ UNCHANGED <<method, total, pc, want, optr, oend, err, written, asked, damaged>>

\* The repeated offsets after a match that used the one of the slot, or a new one.
UsedRepeat(R, slot, off) ==
    CASE slot = 0 -> R
      [] slot = 1 -> <<R[2], R[1], R[3]>>
      [] slot = 2 -> <<R[3], R[2], R[1]>>
      [] OTHER    -> <<off, R[1], R[2]>>

\* The same as the format has it: the offset that is used changes places with the
\* first, or is put before it.
Promoted(R, slot, off) ==
    IF slot < 3 THEN [R EXCEPT ![1] = R[slot + 1], ![slot + 1] = R[1]]
    ELSE <<off>> \o SubSeq(R, 1, 2)

\* A mutant of BeyondStream: only the size of the window limits an offset.
BeyondStream_Window(off) == off - posn > LzxWindow

\* "match offset beyond LZX stream", or beyond the window
BeyondStream(off) ==
    /\ off > posn
    /\ \/ off > Len(written) /\ off - posn > lz.options.ref
       \/ off - posn > LzxWindow

\* How far back a match copies from, the window being a ring: by the offset, but for one
\* that is 0 or larger than the window, which only a damaged stream has. A match of
\* distance 0 leaves what the window holds, from a window ago.
Distance(off) == 1 + ((off - 1) % LzxWindow)

LzxMatch(slot, newOffset, len) ==
    /\ Decoding /\ lz.blockType = "verbatim"
    /\ LET off == IF slot < 3 THEN lz.R[slot + 1] ELSE newOffset
           trueOff == IF slot < 3 THEN lz.trueR[slot + 1] ELSE newOffset
       IN  /\ damaged' = (damaged \/ len > lz.run
                             \/ trueOff \notin 1 .. AtMost(Len(plain) + lz.options.ref, LzxWindow))
           /\ IF posn + len > LzxWindow \/ BeyondStream(off)
              THEN Fail("decrunch") /\ UNCHANGED <<window, posn, plain, lz>>
              ELSE /\ window' = CopyMatch(window, LzxWindow, posn, off, len)
                   /\ posn' = posn + len
                   /\ plain' = WithCopy(plain, Distance(trueOff), len, lz.options.ref)
                   /\ lz' = [lz EXCEPT !.run = @ - len, !.zero = (@ \/ off = 0),
                                       !.R = UsedRepeat(lz.R, slot, newOffset),
                                       !.trueR = Promoted(lz.trueR, slot, newOffset)]
                   /\ UNCHANGED <<err, pc>>
    /\ UNCHANGED <<method, total, want, optr, oend, written, asked>>

\* "did the final match overrun our desired this_run length?"
LzxRunEnds ==
    /\ InLzx("symbols") /\ lz.run <= 0
    /\ IF -lz.run > lz.remaining
       THEN Fail("decrunch") /\ UNCHANGED lz
       ELSE /\ lz' = [lz EXCEPT !.remaining = @ + lz.run, !.run = 0]
            /\ pc' = "decode" /\ UNCHANGED err
    /\ UNCHANGED <<method, total, want, window, posn, optr, oend,
                   plain, written, asked, damaged>>

\* No match has gone beyond the frame, and all that was decoded before is written.
FrameChecks == posn - lz.framePosn = lz.size /\ optr = oend

Wrapped(p) == IF p = LzxWindow THEN 0 ELSE p

\* The frame is decoded: as much of it as is asked for is written.
LzxFrameEnds ==
    /\ InLzx("decode") /\ lz.todo <= 0
    /\ IF ~FrameChecks
       THEN Fail("decrunch") /\ UNCHANGED <<want, posn, optr, oend, lz, written>>
       ELSE LET n == AtMost(want, lz.size)
            IN  /\ written' = written \o Slice(window, lz.framePosn, lz.framePosn + n)
                /\ want' = want - n
                /\ optr' = lz.framePosn + n
                /\ oend' = lz.framePosn + lz.size
                /\ posn' = Wrapped(posn)
                /\ lz' = [lz EXCEPT !.framePosn = Wrapped(@ + lz.size), !.frame = @ + 1]
                /\ pc' = "frame" /\ UNCHANGED err
    /\ UNCHANGED <<method, total, window, plain, asked, damaged>>

LzxWriteFails ==
    /\ InLzx("decode") /\ lz.todo <= 0
    /\ FrameChecks /\ AtMost(want, lz.size) > 0
    /\ Fail("write") /\ damaged' = TRUE
    /\ UNCHANGED <<method, total, want, window, posn, optr, oend, plain, written, asked, lz>>

BlockBegins == InLzx("decode") /\ lz.todo > 0 /\ lz.remaining = 0

\* A frame ends where the stream does, so the input ends here only if it is damaged.
LzxDamage == (Decoding \/ BlockBegins) /\ Damage /\ UNCHANGED lz

LzxNext ==
    \/ LzxStart \/ LzxFrameBegins \/ LzxReturns
    \/ \E type \in {"verbatim", "uncompressed"}, length \in 1 .. total :
          \E repeats \in LzxRepeats : LzxBlock(type, length, repeats)
    \/ LzxRun \/ LzxLiteral
    \/ \E slot \in 0 .. 3, off \in LzxOffsets, len \in LzxLengths : LzxMatch(slot, off, len)
    \/ LzxRunEnds \/ LzxFrameEnds \/ LzxWriteFails
    \/ LzxDamage
=============================================================================
