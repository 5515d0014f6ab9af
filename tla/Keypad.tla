------------------------------- MODULE Keypad -------------------------------
(* What a game may rely on of its input: an update takes note of the buttons *)
(* that are held, and a button is fresh in the one update that is the first  *)
(* to find it held.                                                          *)
CONSTANT Buttons

VARIABLES
    held,      \* the buttons the last update found held
    fresh      \* those of them the update before did not

Init == held = {} /\ fresh = {}

Observe ==
    /\ held' \in SUBSET Buttons
    /\ fresh' = held' \ held

Spec == Init /\ [][Observe]_<<held, fresh>>
=============================================================================
