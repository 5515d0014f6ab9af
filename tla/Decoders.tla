------------------------------ MODULE Decoders ------------------------------
(***************************************************************************)
(* The three decoders beside what all of them promise, Stream. A behaviour *)
(* is one stream, one decoder and a series of calls.                       *)
(***************************************************************************)
EXTENDS Lzxd, Mszipd, Qtmd, SequencesExt

vars == <<decoderVars, lz, zip, qtm>>

none == "none"      \* the state of a decoder that does not run

Init ==
    \/ LzxInit /\ zip = none /\ qtm = none
    \/ ZipInit /\ lz = none /\ qtm = none
    \/ QtmInit /\ lz = none /\ zip = none

\* decompress begins and ends alike in all of them; the offset of LZX is Len(written).
Begin ==
    /\ (\E n \in Requests : Call(n)) \/ Flush \/ FlushFails \/ Returns
    /\ UNCHANGED <<lz, zip, qtm>>

Next ==
    \/ Begin
    \/ LzxNext /\ UNCHANGED <<zip, qtm>>
    \/ ZipNext /\ UNCHANGED <<lz, qtm>>
    \/ QtmNext /\ UNCHANGED <<lz, zip>>

\* decompress does not wait for anything: a call goes on until it returns.
Fairness == WF_vars(Next /\ ~Idle)

Spec == Init /\ [][Next]_vars /\ Fairness
-----------------------------------------------------------------------------
\* The window positions of lzxd, mszipd and qtmd stay in their windows, and what is
\* stored is a part of it.
TypeOK ==
    /\ method \in Methods
    /\ total \in Totals[method]
    /\ want \in Nat /\ asked \in 0 .. total + 1
    /\ posn \in 0 .. Cardinality(DOMAIN window)
    /\ optr \in 0 .. Cardinality(DOMAIN window) /\ oend \in optr .. Cardinality(DOMAIN window)
    /\ err \in {"ok", "read", "write", "decrunch"}
    /\ damaged \in BOOLEAN

\* Whatever the sizes of the calls, what a decoder writes is the stream in order: no
\* byte is lost at a call's end, written twice, or overwritten in the window before
\* it is written or while a match can still refer to it; a call that returns OK has
\* written all that was asked for; and an error is for good.  It holds for damaged
\* streams too, and for repaired ones with their zeros.
Promise == INSTANCE Stream WITH
    busy <- ~Idle, failed <- Idle /\ err # "ok"

DecodesInOrder == Promise!Spec

\* A stream as an encoder writes it, asked for no more than it holds, decodes without
\* an error, but for the match that qtmd_decompress cannot do.
IntactIsDecoded ==
    err # "ok" => damaged \/ asked > total \/ (method = "qtm" /\ qtm.split)

\* LZX never writes memory that nothing was decoded into, even for a damaged stream, but
\* for one: the header of an uncompressed block may say that an offset that repeats is 0,
\* which nothing checks, and a match of that distance copies the window onto itself.
NoJunk == (method = "lzx" /\ ~lz.zero) => \A i \in DOMAIN written : written[i] # Junk

\* A call of decompress returns: the frames of LZX and MSZIP, and the loops of Quantum
\* over symbols, frames and window wraps, get on with every turn, also when a call
\* asks for more than there is.
CallsReturn == ~Idle ~> Idle

\* qtmd_decompress never meets an intact match it cannot decode: one that goes over
\* the window's end when more is stored before it than the call has asked for.  Of this
\* qtmd.c says "this should not happen, but if it does then this code can't handle the
\* situation".
MatchFitsTheCall == method = "qtm" => ~qtm.split
=============================================================================
