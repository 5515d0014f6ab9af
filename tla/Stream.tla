------------------------------- MODULE Stream -------------------------------
(* What the decompressors of libmspack promise: decompress can be called any *)
(* number of times, for any number of bytes, and what it writes over all the *)
(* calls is the decoded stream, in order; once it fails it goes on failing.  *)
EXTENDS Naturals, Sequences, SequencesExt

VARIABLES plain, written, asked, busy, failed

vars == <<plain, written, asked, busy, failed>>

Init ==
    /\ plain = <<>> /\ written = <<>> /\ asked = 0
    /\ busy = FALSE /\ failed = FALSE

Call ==
    /\ ~busy /\ ~failed
    /\ busy' = TRUE
    /\ asked' \in {n \in Nat : n >= asked}
    /\ UNCHANGED <<plain, written, failed>>

\* The stream is decoded as far as it is needed, or farther. A repair changes what
\* it stands for, but never what was written of it.
Produce ==
    /\ busy
    /\ IsPrefix(written, written') /\ IsPrefix(written', plain')
    /\ Len(written') <= asked
    /\ UNCHANGED <<asked, busy, failed>>

Return ==
    /\ busy /\ ~busy'
    /\ failed' \/ Len(written) = asked
    /\ failed => failed'
    /\ UNCHANGED <<plain, written, asked>>

Next == Call \/ Produce \/ Return

Spec == Init /\ [][Next]_vars
=============================================================================
