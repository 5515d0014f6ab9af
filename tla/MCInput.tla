------------------------------ MODULE MCInput -------------------------------
(* Two keys and a button of the pad; "UP" is bound to one of each, as all    *)
(* directions are, "C" shares a key, as "A" and "SHIFT" do, "F8" is unbound. *)
EXTENDS Input

MCKeyboard == {"up", "left"}
MCPad == {"padUp"}
MCSymbols == Directions \cup {"C", "F8"}
MCBindings == [sym \in {"UP", "LEFT", "C"} |->
    CASE sym = "UP" -> {"up", "padUp"}
      [] sym = "LEFT" -> {"left"}
      [] sym = "C" -> {"up"}]
=============================================================================
