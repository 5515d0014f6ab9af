------------------------------- MODULE CabSet -------------------------------
(* What mspack.h says of cabinets: each one that is open is in one set, a    *)
(* sequence of cabinets; append and prepend join two sets end to end, close  *)
(* ends the set of the cabinet it is given and those that were found with it.*)
EXTENDS Sequences

CONSTANT Cabs

VARIABLES open, sets

Init == open = {} /\ sets = {}

Members(s) == {s[i] : i \in DOMAIN s}

Open ==
    \E c \in Cabs \ open : open' = open \cup {c} /\ sets' = sets \cup {<<c>>}

\* search opens any number of cabinets, each in a set of its own.
Search ==
    \E found \in SUBSET (Cabs \ open) :
        open' = open \cup found /\ sets' = sets \cup {<<c>> : c \in found}

Join ==
    \E s, t \in sets :
        /\ s # t
        /\ sets' = (sets \ {s, t}) \cup {s \o t}
        /\ UNCHANGED open

Close ==
    \E ended \in SUBSET sets :
        /\ sets' = sets \ ended
        /\ open' = open \ UNION {Members(s) : s \in ended}

Next == Open \/ Search \/ Join \/ Close

Spec == Init /\ [][Next]_<<open, sets>>
=============================================================================
