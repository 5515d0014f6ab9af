------------------------------ MODULE MCJAudio ------------------------------
(* Small instances of JAudio for TLC. *)
EXTENDS JAudio, TLC

\* No definition tells one file name from another.
FileSymmetry == Permutations(Files)

\* A script that leaves its BGM and its MEs to end or to be replaced, and whose
\* files all load.
MonitorCalls == {"bgm_play", "bgs_play", "me_play", "se_play", "bgs_stop"}
=============================================================================
