----------------------------- MODULE MCDecoders -----------------------------
(* Two frames and a bit of LZX, nearly two of MSZIP, two windows and a half 
   of Quantum, in calls that end within, at and after a frame. *)
EXTENDS Decoders, TLC

MCTotals == [lzx |-> {7}, mszip |-> {7}, qtm |-> {10}]

MCLzxOptions ==
    [interval : {0, 1}, ref : {0}, told : {"start", "last block"}] \cup
    {[interval |-> 0, ref |-> 3, told |-> "start"]}

\* The offsets as an encoder writes them, and from a damaged header.
MCLzxRepeats == {<<2, 1, 3>>, <<0, 7, 1>>}
=============================================================================
