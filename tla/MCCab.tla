------------------------------- MODULE MCCab -------------------------------
(* Three cabinets of a set and two that search finds.  A packed folder goes   *)
(* from c1 through c2 to c3; c1 has one of an unknown compression type, c3 a  *)
(* stored one with a damaged block.  Blocks are two bytes.                    *)
EXTENDS CabExtract, TLC

CONSTANTS c1, c2, c3, c4, c5

Folder(comp, stream, blocks) == [comp |-> comp, stream |-> stream, blocks |-> blocks]
Block(from, to) == [from |-> from, to |-> to, out |-> to - from + 1, status |-> "ok"]
Part(from, to, all) == [from |-> from, to |-> to, out |-> all, status |-> "ok"]
Bad(from, to) == [Block(from, to) EXCEPT !.status = "checksum"]
File(index, offset, length) == [index |-> index, offset |-> offset, length |-> length]

SplitFiles(mark) == <<File(mark, 0, 3), File(mark, 3, 2)>>

\* What is left of a set whose other cabinets are not there.
Rest(stream) == [folders |-> <<Folder("packed", stream, <<Block(1, 1)>>)>>,
                 files |-> <<File(FromPrev, 0, 1)>>]

\* folders and files are those of c3 alone.
Image3(folders, files) ==
    (c1 :> [folders |-> <<Folder("unknown", "a", <<Block(1, 2)>>),
                          Folder("packed", "b", <<Block(1, 2), Part(3, 3, 0)>>)>>,
            files |-> <<File(1, 0, 2)>> \o SplitFiles(ToNext)] @@
     c2 :> [folders |-> <<Folder("packed", "b", <<Part(4, 4, 2), Part(5, 5, 0)>>)>>,
            files |-> SplitFiles(PrevAndNext)] @@
     c3 :> [folders |-> <<Folder("packed", "b", <<Part(6, 6, 2)>>)>> \o folders,
            files |-> SplitFiles(FromPrev) \o files] @@
     c4 :> Rest("e") @@ c5 :> Rest("f"))

MCImage ==
    Image3(<<Folder("none", "c", <<Block(1, 2), Block(3, 4), Bad(5, 6)>>)>>,
           <<File(2, 1, 2), File(2, 3, 2)>>)

\* Two files of a stored folder, on both sides of a damaged block.
MCStoredImage ==
    Image3(<<Folder("none", "c", <<Block(1, 2), Bad(3, 4), Block(5, 6)>>)>>,
           <<File(2, 1, 2), File(2, 3, 2)>>)

\* Cabinets that follow each other, and two of them the wrong way round.
MCJoinArgs == {<<c1, c2>>, <<c2, c3>>, <<c2, c1>>}

MCFound == <<c4, c5>>
=============================================================================
