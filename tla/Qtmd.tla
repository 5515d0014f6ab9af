-------------------------------- MODULE Qtmd --------------------------------
(***************************************************************************)
(* The Quantum decoder, qtmd.c: only as many symbols are decoded as the    *)
(* call needs, the window may be smaller than a frame, and a match may     *)
(* go over the end of it.                                                  *)
(*                                                                         *)
(* The arithmetic decoder is left out here: a symbol is read as a whole.   *)
(***************************************************************************)
EXTENDS Decoder

CONSTANTS
    QtmFrame,       \* QTM_FRAME_SIZE
    QtmWindow,      \* window_size
    QtmOffsets,     \* the match offsets
    QtmLengths      \* the match lengths

\* Both are powers of two in the code, and a window's size limits the position slots.
ASSUME QtmAssumption ==
    /\ QtmFrame \in Nat \ {0} /\ QtmWindow \in Nat \ {0}
    /\ QtmFrame % QtmWindow = 0 \/ QtmWindow % QtmFrame = 0
    /\ QtmOffsets \subseteq 1 .. QtmWindow
    /\ QtmLengths \subseteq 1 .. QtmWindow

VARIABLE
    qtm \* frame_todo and frame_end, and whether a match was in the way of a window's end

qtmVars == <<decoderVars, qtm>>

\* qtmd_init
QtmInit ==
    /\ method = "qtm"
    /\ InitDecoder
    /\ qtm = [todo |-> QtmFrame, frameEnd |-> 0, split |-> FALSE]
    /\ window = [i \in 0 .. QtmWindow - 1 |-> Junk]

InQtm(at) == method = "qtm" /\ pc = at

Stored == oend - optr

\* "up to the number of bytes needed, the frame boundary, or the window boundary"
FrameEnd == AtMost(AtMost(posn + want - Stored, posn + qtm.todo), QtmWindow)

QtmDecodeMore ==
    /\ InQtm("start") /\ Stored < want
    /\ qtm' = [qtm EXCEPT !.frameEnd = FrameEnd]
    /\ pc' = "symbols"
    /\ UNCHANGED <<method, total, want, window, posn, optr, oend, err,
                   plain, written, asked, damaged>>

DecodingQtm == InQtm("symbols") /\ posn < qtm.frameEnd

QtmLiteral ==
    /\ DecodingQtm /\ Len(plain) < total
    /\ window' = [window EXCEPT ![posn] = NextLiteral]
    /\ plain' = Append(plain, NextLiteral)
    /\ posn' = posn + 1
    /\ qtm' = [qtm EXCEPT !.todo = @ - 1]
    /\ UNCHANGED <<method, total, pc, want, optr, oend, err, written, asked, damaged>>

\* What is wrong with a match: it refers to nothing, or leaves its frame.
BadMatch(off, len) == off > Len(plain) \/ len > qtm.todo

\* A match that ends in the window. Its offset is checked against the window only.
QtmMatch(off, len) ==
    /\ DecodingQtm /\ posn + len <= QtmWindow
    /\ Len(plain) + len <= total
    /\ damaged' = (damaged \/ BadMatch(off, len))
    /\ IF off > posn /\ off - posn > QtmWindow
       THEN Fail("decrunch") /\ UNCHANGED <<window, posn, plain, qtm>>
       ELSE /\ window' = CopyMatch(window, QtmWindow, posn, off, len)
            /\ plain' = WithCopy(plain, off, len, 0)
            /\ posn' = posn + len
            /\ qtm' = [qtm EXCEPT !.todo = @ - len]
            /\ UNCHANGED <<err, pc>>
    /\ UNCHANGED <<method, total, want, optr, oend, written, asked>>

\* The match from k bytes on, put at at, as it is copied around the window's end.
CopyAround(w, at, from, n) ==
    LET copied[k \in 0 .. n] ==
            IF k = 0 THEN w
            ELSE [copied[k - 1] EXCEPT
                     ![at + k - 1] = copied[k - 1][(from + k - 1) % QtmWindow]]
    IN  copied[n]

\* How much of the window is left.
Room == QtmWindow - posn

\* A mutant of SecondPart: it begins like the first one.
SecondPart_Restart(off) == posn - off

\* Where its second part is copied from.
SecondPart(off) == posn - off + Room

\* A match that goes on at the window's start: what is stored is written up to the
\* window's end between its two parts, or there is no way to do it.
QtmWrappingMatch(off, len) ==
    /\ DecodingQtm /\ posn + len > QtmWindow
    /\ Len(plain) + len <= total
    /\ damaged' = (damaged \/ BadMatch(off, len))
    /\ LET first == CopyAround(window, posn, posn - off, Room)
           n == QtmWindow - optr
       IN  IF n > want
           THEN \* "this should not happen, but if it does ... bail out"
                /\ Fail("decrunch")
                /\ qtm' = [qtm EXCEPT !.split = ~damaged']
                /\ UNCHANGED <<want, window, posn, optr, oend, plain, written>>
           ELSE /\ written' = written \o Slice(first, optr, QtmWindow)
                /\ want' = want - n
                /\ window' = CopyAround(first, 0, SecondPart(off), len - Room)
                /\ plain' = WithCopy(plain, off, len, 0)
                /\ optr' = 0 /\ oend' = 0
                /\ posn' = posn + len - QtmWindow
                /\ qtm' = [qtm EXCEPT !.todo = @ - len]
                /\ pc' = "decoded"
                /\ UNCHANGED err
    /\ UNCHANGED <<method, total, asked>>

QtmRunEnds ==
    /\ InQtm("symbols") /\ posn >= qtm.frameEnd
    /\ pc' = "decoded"
    /\ UNCHANGED <<method, total, want, window, posn, optr, oend, err,
                   plain, written, asked, damaged, qtm>>

\* A mutant of Overshot: it is not looked for.
Overshot_Never == FALSE

\* "overshot frame alignment"
Overshot == qtm.todo < 0

\* A mutant of FlushAtWrap: whatever is asked for.
FlushAtWrap_Always(n) == TRUE

\* Whether the window is written when it wraps: "break out if we have more than enough
\* to finish this request".
FlushAtWrap(n) == n < want

\* "another frame completed?", "window wrap?"
QtmDecoded ==
    /\ InQtm("decoded")
    /\ oend' = posn
    /\ IF Overshot
       THEN Fail("decrunch") /\ UNCHANGED <<want, posn, optr, written, qtm>>
       ELSE /\ qtm' = [qtm EXCEPT !.todo = IF @ = 0 THEN QtmFrame ELSE @]
            /\ UNCHANGED err
            /\ pc' = IF posn # QtmWindow THEN "start"
                     ELSE IF FlushAtWrap(posn - optr) THEN "wrap" ELSE "rest"
            /\ UNCHANGED <<want, posn, optr, written>>
    /\ UNCHANGED <<method, total, window, plain, asked, damaged>>

QtmWindowWraps ==
    /\ InQtm("wrap")
    /\ written' = written \o Slice(window, optr, oend)
    /\ want' = want - Stored
    /\ optr' = 0 /\ oend' = 0 /\ posn' = 0
    /\ pc' = "start"
    /\ UNCHANGED <<method, total, window, err, plain, asked, damaged, qtm>>

\* Enough is stored: what is asked for is written, and the rest is kept.
QtmWritesRest ==
    /\ \/ InQtm("rest")
       \/ InQtm("start") /\ Stored >= want
    /\ written' = written \o Slice(window, optr, optr + want)
    /\ optr' = optr + want
    /\ want' = 0
    /\ pc' = "end"
    /\ UNCHANGED <<method, total, window, posn, oend, err, plain, asked, damaged, qtm>>

\* Any of its writes, the one in the middle of a match included.
QtmWriteFails ==
    /\ \/ InQtm("wrap") \/ InQtm("rest")
       \/ InQtm("start") /\ Stored >= want
       \/ /\ DecodingQtm /\ QtmWindow - optr <= want
          /\ \E len \in QtmLengths : posn + len > QtmWindow /\ Len(plain) + len <= total
    /\ Fail("write") /\ damaged' = TRUE
    /\ UNCHANGED <<method, total, want, window, posn, optr, oend, plain, written, asked, qtm>>

QtmDamage ==
    /\ \/ DecodingQtm /\ Len(plain) < total
       \/ InQtm("decoded") /\ qtm.todo = 0
    /\ Damage /\ UNCHANGED qtm

QtmInputEnds == DecodingQtm /\ InputEnds /\ UNCHANGED qtm

QtmNext ==
    \/ QtmDecodeMore \/ QtmLiteral
    \/ \E off \in QtmOffsets, len \in QtmLengths :
          QtmMatch(off, len) \/ QtmWrappingMatch(off, len)
    \/ QtmRunEnds \/ QtmDecoded \/ QtmWindowWraps \/ QtmWritesRest
    \/ QtmWriteFails \/ QtmDamage \/ QtmInputEnds
=============================================================================
