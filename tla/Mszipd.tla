------------------------------- MODULE Mszipd -------------------------------
(***************************************************************************)
(* The MSZIP decoder, mszipd.c: a window of one frame, which is decoded    *)
(* over the frame before it and can still refer to it; and a repair mode   *)
(* that fills with zeros what a damaged frame lacks.                       *)
(*                                                                         *)
(* Bits and Huffman codes are left out. A short match is copied byte by    *)
(* byte and a long one in runs: both are bytes here.                       *)
(***************************************************************************)
EXTENDS Decoder

CONSTANTS
    ZipFrame,       \* MSZIP_FRAME_SIZE
    ZipOffsets,     \* the match distances
    ZipLengths,     \* the match lengths
    ZipBlocks       \* how many blocks a frame has at most

ASSUME ZipAssumption ==
    /\ ZipFrame \in Nat \ {0}
    /\ ZipOffsets \subseteq 1 .. ZipFrame
    /\ ZipLengths \subseteq Nat \ {0}
    /\ ZipBlocks \in Nat \ {0}

Zero == -50     \* the byte that fills a hole

VARIABLE
    zip \* the rest of mszipd_stream and the locals of inflate

zipVars == <<decoderVars, zip>>

\* mszipd_init
ZipInit ==
    /\ method = "mszip"
    /\ InitDecoder
    /\ \E repair \in BOOLEAN :
          zip = [bytesOutput |-> 0, blocks |-> 0, lastBlock |-> FALSE,
                 huffman |-> FALSE, repair |-> repair]
    /\ window = [i \in 0 .. ZipFrame - 1 |-> Junk]

InZip(at) == method = "mszip" /\ pc = at

\* The next frame, if more is asked for: "CK" is looked for and inflate begins.
\* Its window is not cleared.
ZipFrameBegins ==
    /\ InZip("start") /\ Len(plain) < total
    /\ pc' = "block"
    /\ posn' = 0
    /\ zip' = [zip EXCEPT !.bytesOutput = 0, !.blocks = 0]
    /\ UNCHANGED <<method, total, want, window, optr, oend, err,
                   plain, written, asked, damaged>>

ZipBlock(last, huffman) ==
    /\ InZip("block")
    /\ ~last => zip.blocks + 1 < ZipBlocks
    /\ pc' = "bytes"
    /\ zip' = [zip EXCEPT !.lastBlock = last, !.huffman = huffman, !.blocks = @ + 1]
    /\ UNCHANGED <<method, total, want, window, posn, optr, oend, err,
                   plain, written, asked, damaged>>

\* The window after a byte is put at p, the place of the next and what flush_window
\* has counted. More than a frame is an error.
Put(s, b) ==
    LET full == s.p + 1 = ZipFrame
    IN  IF ~s.ok THEN s
        ELSE [w |-> [s.w EXCEPT ![s.p] = b],
              p |-> IF full /\ s.out = 0 THEN 0 ELSE s.p + 1,
              out |-> IF full THEN s.out + ZipFrame ELSE s.out,
              ok |-> full => s.out = 0]

\* A distance greater than window_posn leads to the frame before.
MatchPosn(p, distance) == IF distance > p THEN ZipFrame + p - distance ELSE p - distance

CopyZip(s, distance, len) ==
    LET from == MatchPosn(s.p, distance)
        copied[n \in 0 .. len] ==
            IF n = 0 THEN s
            ELSE Put(copied[n - 1], copied[n - 1].w[(from + n - 1) % ZipFrame])
    IN  copied[len]

Here == [w |-> window, p |-> posn, out |-> zip.bytesOutput, ok |-> TRUE]

\* inflate fails. Without repair that is the end of the stream; else the frame is
\* filled up from what flush_window was told of. A read error stays even so.
InflateFails(e, s) ==
    LET have == IF s.out = 0 THEN s.p ELSE s.out
        filled == [i \in 0 .. ZipFrame - 1 |-> IF i >= have THEN Zero ELSE s.w[i]]
    IN  /\ damaged' = TRUE
        /\ err' = IF zip.repair /\ e = "decrunch" THEN "ok" ELSE e
        /\ pc' = IF zip.repair THEN "frame" ELSE "idle"
        /\ IF zip.repair
           THEN /\ window' = filled
                /\ plain' = SubSeq(plain, 1, Len(written)) \o Slice(filled, 0, ZipFrame)
                /\ zip' = [zip EXCEPT !.bytesOutput = ZipFrame]
           ELSE UNCHANGED <<window, plain, zip>>
        /\ UNCHANGED <<method, total, want, posn, optr, oend, written, asked>>

\* The bytes of a symbol are put into the window.
Decoded(s, bytes) ==
    IF s.ok
    THEN /\ window' = s.w /\ posn' = s.p
         /\ zip' = [zip EXCEPT !.bytesOutput = s.out]
         /\ plain' = bytes
         /\ UNCHANGED <<method, total, pc, want, optr, oend, err, written, asked, damaged>>
    ELSE InflateFails("decrunch", s)

\* A literal, and a byte of an uncompressed block.
ZipLiteral ==
    /\ InZip("bytes")
    /\ Len(plain) < total
    /\ Decoded(Put(Here, NextLiteral), Append(plain, NextLiteral))

\* The frame before is looked for in the window even if there was none: such a
\* stream is damaged, and decodes to what is in the memory.
ZipMatch(distance, len) ==
    /\ InZip("bytes") /\ zip.huffman
    /\ Len(plain) + len <= total /\ distance <= Len(plain)
    /\ Decoded(CopyZip(Here, distance, len), WithCopy(plain, distance, len, 0))

\* The end of a block; after the last one the rest is flushed.
BlockEnds ==
    LET out == zip.bytesOutput + posn
    IN  /\ InZip("bytes")
        /\ IF ~zip.lastBlock
           THEN /\ pc' = "block"
                /\ UNCHANGED <<method, total, want, window, posn, optr, oend, err, plain,
                               written, asked, damaged, zip>>
           ELSE IF out > ZipFrame
           THEN InflateFails("decrunch", [Here EXCEPT !.out = out])
           ELSE /\ out = ZipFrame \/ Len(plain) = total
                /\ pc' = "frame"
                /\ zip' = [zip EXCEPT !.bytesOutput = out]
                /\ UNCHANGED <<method, total, want, window, posn, optr, oend, err, plain,
                               written, asked, damaged>>

\* What is asked for of the frame is written; after a read error that was all.
ZipFrameEnds ==
    /\ InZip("frame")
    /\ LET n == AtMost(want, zip.bytesOutput)
       IN  /\ written' = written \o Slice(window, 0, n)
           /\ oend' = zip.bytesOutput
           /\ IF err = "ok"
              THEN /\ optr' = n /\ want' = want - n
                   /\ pc' = IF want' > 0 THEN "start" ELSE "end"
              ELSE /\ optr' = 0 /\ pc' = "end"
                   /\ UNCHANGED want
    /\ UNCHANGED <<method, total, window, posn, err, plain, asked, damaged, zip>>

ZipWriteFails ==
    /\ InZip("frame")
    /\ Fail("write") /\ damaged' = TRUE
    /\ UNCHANGED <<method, total, want, window, posn, optr, oend, plain, written, asked, zip>>

\* No "CK" to be found is an error of mszipd_decompress, which repair does not cover.
ZipDamage ==
    \/ InZip("start") /\ Len(plain) < total /\ Damage /\ err' = "read" /\ UNCHANGED zip
    \/ /\ InZip("block") \/ InZip("bytes")
       /\ \E e \in {"read", "decrunch"} : InflateFails(e, Here)

ZipInputEnds == InZip("start") /\ InputEnds /\ UNCHANGED zip

ZipNext ==
    \/ ZipFrameBegins
    \/ \E last, huffman \in BOOLEAN : ZipBlock(last, huffman)
    \/ ZipLiteral
    \/ \E distance \in ZipOffsets, len \in ZipLengths : ZipMatch(distance, len)
    \/ BlockEnds \/ ZipFrameEnds \/ ZipWriteFails \/ ZipDamage \/ ZipInputEnds
=============================================================================
