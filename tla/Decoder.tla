------------------------------ MODULE Decoder -------------------------------
(***************************************************************************)
(* What the LZX, MSZIP and Quantum decoders of libmspack have in common: a *)
(* window that is decoded into, a part of it that is decoded and not       *)
(* written yet, and an error that sticks.                                  *)
(*                                                                         *)
(* The compressed stream is not given beforehand: each symbol is chosen    *)
(* when the decoder reads it, and plain is what it stands for, told        *)
(* without a window, a frame or a call.  The nth byte that is not a copy   *)
(* has the value n, so no two bytes look alike unless they are copies.     *)
(***************************************************************************)
EXTENDS Integers, Sequences, FiniteSets

CONSTANTS
    Requests,   \* how many bytes a caller may ask for at a time
    Totals      \* how long a stream may be for each of the methods

Methods == {"lzx", "mszip", "qtm"}

ASSUME RequestsAssumption ==
    Requests \subseteq Nat \ {0} /\ Totals \in [Methods -> SUBSET (Nat \ {0})]

Junk == 0       \* memory that nothing has been written to

VARIABLES
    method,     \* the decoder that runs
    total,      \* the length of the stream
    pc,         \* where in decompress it is
    want,       \* out_bytes
    window, posn,       \* the window, window_posn
    optr, oend,         \* o_ptr and o_end, as places in the window
    err,        \* the error field of the stream
    \* history:
    plain,      \* the bytes that the symbols read so far stand for
    written,    \* the bytes written
    asked,      \* the bytes asked for
    damaged     \* something was wrong with the stream or the output file

decoderVars == <<method, total, pc, want, window, posn, optr, oend, err,
                 plain, written, asked, damaged>>

AtMost(m, n) == IF m < n THEN m ELSE n

\* The bytes of w from index i up to j, which is not included.
Slice(w, i, j) == [k \in 1 .. j - i |-> w[i + k - 1]]

NextLiteral == Len(plain) + 1

\* The byte off places back in p, where ref bytes came before the stream.
Back(p, off, ref) ==
    IF off <= Len(p) THEN p[Len(p) + 1 - off]
    ELSE IF off - Len(p) <= ref THEN -(off - Len(p)) ELSE Junk

\* p and a copy of len bytes from off places back.
WithCopy(p, off, len, ref) ==
    LET longer[n \in 0 .. len] ==
            IF n = 0 THEN p ELSE Append(longer[n - 1], Back(longer[n - 1], off, ref))
    IN  longer[len]

\* The copy of a match in a window of the size, in one run or two.
Source(size, at, off, n) ==
    IF off > at
    THEN IF n < off - at THEN size - (off - at) + n ELSE n - (off - at)
    ELSE at - off + n

CopyMatch(w, size, at, off, len) ==
    LET copied[n \in 0 .. len] ==
            IF n = 0 THEN w
            ELSE [copied[n - 1] EXCEPT ![at + n - 1] = copied[n - 1][Source(size, at, off, n - 1)]]
    IN  copied[len]

Idle == pc = "idle"

Fail(e) == err' = e /\ pc' = "idle"

\* out_bytes more bytes; after an error there is nothing to be had.
Call(n) ==
    /\ Idle /\ err = "ok"
    /\ asked + n <= total + 1
    /\ asked' = asked + n
    /\ want' = n
    /\ pc' = "flush"
    /\ UNCHANGED <<method, total, window, posn, optr, oend, err, plain, written, damaged>>

\* What is left from the call before.
Pending == AtMost(oend - optr, want)

Flush ==
    /\ pc = "flush"
    /\ written' = written \o Slice(window, optr, optr + Pending)
    /\ optr' = optr + Pending
    /\ want' = want - Pending
    /\ pc' = IF want' = 0 THEN "end" ELSE "start"
    /\ UNCHANGED <<method, total, window, posn, oend, err, plain, asked, damaged>>

FlushFails ==
    /\ pc = "flush" /\ Pending > 0
    /\ Fail("write") /\ damaged' = TRUE
    /\ UNCHANGED <<method, total, want, window, posn, optr, oend, plain, written, asked>>

Returns ==
    /\ pc = "end"
    /\ pc' = "idle"
    /\ UNCHANGED <<method, total, want, window, posn, optr, oend, err,
                   plain, written, asked, damaged>>

\* The input ends, a code has no meaning or a table cannot be built.
Damage ==
    /\ err' \in {"read", "decrunch"} /\ pc' = "idle"
    /\ damaged' = TRUE
    /\ UNCHANGED <<method, total, want, window, posn, optr, oend, plain, written, asked>>

\* The decoder reads on where the stream is over.
InputEnds ==
    /\ Len(plain) >= total
    /\ Fail("read")
    /\ UNCHANGED <<method, total, want, window, posn, optr, oend, plain, written,
                   asked, damaged>>

InitDecoder ==
    /\ method \in Methods
    /\ total \in Totals[method]
    /\ pc = "idle" /\ want = 0 /\ posn = 0 /\ optr = 0 /\ oend = 0 /\ err = "ok"
    /\ plain = <<>> /\ written = <<>> /\ asked = 0 /\ damaged = FALSE
=============================================================================
