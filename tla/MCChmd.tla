------------------------------- MODULE MCChmd -------------------------------
(* Two helpfiles for TLC: one with an index, quick references, a damaged    *)
(* frame, a file that ends where this frame begins, one that goes over the  *)
(* end of the stream and one behind it; and one whose chunks are only       *)
(* chained, with a damaged chunk and a reset table that cannot be read.     *)
EXTENDS Chmd, TLC

CONSTANTS Indexed, Chained

MCFile(name, section, offset, length) ==
    [name |-> name, section |-> section, offset |-> offset, length |-> length]

MCSystem == [n \in 1 .. 4 |-> MCFile(n, 0, n, 1)]

MCChunk(kind, entries, held, quick, next) ==
    [kind |-> kind, entries |-> entries, held |-> held, quick |-> quick, next |-> next]

MCIndexed ==
    [chunks |-> <<
        MCChunk("PMGL", MCSystem \o <<MCFile(5, 1, 0, 1), MCFile(6, 1, 2, 2)>>, 6, TRUE, 2),
        MCChunk("PMGL", <<MCFile(7, 1, 5, 2), MCFile(8, 1, 7, 3), MCFile(9, 1, 0, 2),
                          MCFile(10, 1, 9, 1)>>, 4, FALSE, 9),
        MCChunk("PMGI", <<[name |-> 1, to |-> 1], [name |-> 7, to |-> 2]>>, 2, TRUE, 9)>>,
     density |-> 2, root |-> 3, first |-> 1, last |-> 2,
     frames |-> <<TRUE, FALSE, TRUE, TRUE>>, interval |-> 2, table |-> "ok"]

MCChained ==
    [chunks |-> <<
        MCChunk("PMGL", MCSystem, 4, TRUE, 2),
        MCChunk("PMGL", <<MCFile(6, 1, 3, 4), MCFile(7, 0, 9, 0), MCFile(8, 1, 0, 1)>>, 2, TRUE, 9)>>,
     density |-> 3, root |-> 0, first |-> 1, last |-> 2,
     frames |-> <<TRUE, TRUE, TRUE, TRUE>>, interval |-> 2, table |-> "unreadable"]

MCImage == (Indexed :> MCIndexed) @@ (Chained :> MCChained)

ASSUME MCWellFormed == WellFormed
=============================================================================
