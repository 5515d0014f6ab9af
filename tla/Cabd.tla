-------------------------------- MODULE Cabd --------------------------------
(***************************************************************************)
(* Cabinets and cabinet sets: the first half of libmspack's cabd.c.  open  *)
(* and search read the headers of a cabinet into linked lists of folders   *)
(* and files; append and prepend link two cabinets, merge the folder that  *)
(* is split between them, and leave one list for both; close frees it all. *)
(*                                                                         *)
(* A cabinet object is named by the cabinet on disk, a folder or file      *)
(* object by the cabinet and its place in the headers; live is what is     *)
(* allocated.  Header fields nothing below depends on are left out.        *)
(***************************************************************************)
EXTENDS Integers, Sequences, FiniteSets

CONSTANTS
    Cabs,       \* the cabinets on disk
    Image,      \* what their headers say, see ImageAssumption
    Found,      \* the cabinets search finds in one file, in order
    NULL

FromPrev == 65533       \* cffileCONTINUED_FROM_PREV
ToNext == 65534         \* cffileCONTINUED_TO_NEXT
PrevAndNext == 65535    \* cffileCONTINUED_PREV_AND_NEXT

FolderIds == UNION {{<<"folder", c, i>> : i \in DOMAIN Image[c].folders} : c \in Cabs}
FileIds == UNION {{<<"file", c, i>> : i \in DOMAIN Image[c].files} : c \in Cabs}
OrNull(S) == S \cup {NULL}

\* s is a sequence that is not empty.
IsRow(s) == Len(s) \in Nat \ {0} /\ DOMAIN s = 1 .. Len(s)

\* A header has folders and files, and each file names the index of its folder
\* or is continued from or to another cabinet.
ASSUME ImageAssumption ==
    /\ IsFiniteSet(Cabs)
    /\ NULL \notin Cabs \cup FolderIds \cup FileIds
    /\ \A c \in Cabs :
        /\ IsRow(Image[c].folders) /\ IsRow(Image[c].files)
        /\ Len(Image[c].folders) < FromPrev
        /\ \A i \in DOMAIN Image[c].files :
              Image[c].files[i].index \in
                  {FromPrev, ToNext, PrevAndNext} \cup DOMAIN Image[c].folders

\* A file that is continued both ways fills its cabinet, which has the one folder then.
\* cabd_read_headers takes the file for one of the first folder and for the merge_next
\* of the last, and frees it with the first.
ASSUME SplitAssumption ==
    \A c \in Cabs :
        (\E i \in DOMAIN Image[c].files : Image[c].files[i].index = PrevAndNext)
            => Len(Image[c].folders) = 1

\* search finds a cabinet once.
ASSUME FoundAssumption ==
    /\ Found \in Seq(Cabs)
    /\ \A i, j \in DOMAIN Found : Found[i] = Found[j] => i = j

VARIABLES
    opened,     \* the cabinet objects that are allocated
    live,       \* the folder and file objects that are
    cab,        \* mscabd_cabinet
    folder,     \* mscabd_folder_p, data being the folders on disk it consists of
    nextFile,   \* mscabd_file.next
    error       \* mscab_decompressor_p.error: "ok", or "failed" for every other code

setVars == <<opened, live, cab, folder, nextFile, error>>

-----------------------------------------------------------------------------
(* Linked lists.                                                             *)

\* Where n steps from the head of a list lead.
Nth(next, head) ==
    LET nth[n \in 0 .. Cardinality(DOMAIN next)] ==
            IF n = 0 THEN head
            ELSE LET o == nth[n - 1] IN IF o = NULL THEN NULL ELSE next[o]
    IN  nth

\* The objects of a list.  No list that ends is longer than there are objects; one that
\* does not is cut after one step more.
ListOf(next, head) ==
    LET nth == Nth(next, head)
    IN  [i \in {i \in 1 .. Cardinality(DOMAIN next) + 1 : nth[i - 1] # NULL} |-> nth[i - 1]]

Elements(s) == {s[i] : i \in DOMAIN s}
Final(s) == s[Len(s)]

\* next with the objects of s linked in that order, and others of all unlinked.
Linked(next, s, all) ==
    [o \in DOMAIN next |->
        IF o \in Elements(s)
        THEN LET i == CHOOSE i \in DOMAIN s : s[i] = o
             IN  IF i = Len(s) THEN NULL ELSE s[i + 1]
        ELSE IF o \in Elements(all) THEN NULL ELSE next[o]]

NextFolder == [o \in FolderIds |-> folder[o].next]
FoundNext == [c \in Cabs |-> cab[c].next]
PrevCab == [c \in Cabs |-> cab[c].prevcab]
NextCab == [c \in Cabs |-> cab[c].nextcab]

FilesOf(c) == ListOf(nextFile, cab[c].files)
FoldersOf(c) == ListOf(NextFolder, cab[c].folders)

\* The cabinets before and after c in its set.
Before(c) == ListOf(PrevCab, cab[c].prevcab)
After(c) == ListOf(NextCab, cab[c].nextcab)

-----------------------------------------------------------------------------
(* open and search.                                                          *)

HeaderOf(fi) == Image[fi[2]].files[fi[3]]

\* The folder pointer that cabd_read_headers gives a file, for good.
FolderOf(fi) ==
    LET x == HeaderOf(fi).index
    IN  CASE x = ToNext -> <<"folder", fi[2], Len(Image[fi[2]].folders)>>
          [] x \in {FromPrev, PrevAndNext} -> <<"folder", fi[2], 1>>
          [] OTHER -> <<"folder", fi[2], x>>

\* The first file of c with one of the continuation marks, or NULL.
FirstMarked(c, marks) ==
    LET marked == {i \in DOMAIN Image[c].files : Image[c].files[i].index \in marks}
    IN  IF marked = {} THEN NULL
        ELSE <<"file", c, CHOOSE i \in marked : \A j \in marked : i <= j>>

\* The folder records of c: the first one may be continued from the cabinet
\* before, the last one to the cabinet after.
ReadFolder(c, i) ==
    LET n == Len(Image[c].folders)
    IN  [next |-> IF i = n THEN NULL ELSE <<"folder", c, i + 1>>,
         comp |-> Image[c].folders[i].comp,
         blocks |-> Len(Image[c].folders[i].blocks),
         data |-> << <<"folder", c, i>> >>,
         mergePrev |-> IF i = 1 THEN FirstMarked(c, {FromPrev, PrevAndNext}) ELSE NULL,
         mergeNext |-> IF i = n THEN FirstMarked(c, {ToNext, PrevAndNext}) ELSE NULL]

IdsOf(c) == {o \in FolderIds \cup FileIds : o[2] = c}

\* cabd_read_headers of the cabinets of the sequence s, which are chained by next.
ReadHeaders(s) ==
    /\ opened' = opened \cup Elements(s)
    /\ live' = live \cup UNION {IdsOf(c) : c \in Elements(s)}
    /\ cab' = [c \in Cabs |->
          IF c \in Elements(s)
          THEN [next |-> LET i == CHOOSE i \in DOMAIN s : s[i] = c
                         IN  IF i = Len(s) THEN NULL ELSE s[i + 1],
                prevcab |-> NULL, nextcab |-> NULL,
                files |-> <<"file", c, 1>>, folders |-> <<"folder", c, 1>>]
          ELSE cab[c]]
    /\ folder' = [o \in FolderIds |->
          IF o[2] \in Elements(s) THEN ReadFolder(o[2], o[3]) ELSE folder[o]]
    /\ nextFile' = [o \in FileIds |->
          IF o[2] \notin Elements(s) THEN nextFile[o]
          ELSE IF o[3] = Len(Image[o[2]].files) THEN NULL ELSE <<"file", o[2], o[3] + 1>>]

Open(c) ==
    /\ c \notin opened
    /\ ReadHeaders(<<c>>)
    /\ error' = "ok"

\* The file cannot be opened, a header cannot be read or memory runs out: cabd_open
\* closes what it has read of the cabinet.
OpenFails(c) ==
    /\ c \notin opened
    /\ error' = "failed"
    /\ UNCHANGED <<opened, live, cab, folder, nextFile>>

\* Found are the cabinets cabd_find recognises.  When reading fails on the way, those
\* read so far are returned all the same.
Search ==
    /\ Found # <<>> /\ Elements(Found) \cap opened = {}
    /\ \E n \in 0 .. Len(Found) :
          /\ ReadHeaders(SubSeq(Found, 1, n))
          /\ error' = IF n = Len(Found) THEN "ok" ELSE "failed"

-----------------------------------------------------------------------------
(* append and prepend: cabd_merge.                                           *)

\* One of the cabinets is attached there already, or they are in one set.
CannotAttach(l, r) ==
    \/ l = r
    \/ cab[l].nextcab # NULL \/ cab[r].prevcab # NULL
    \/ r \in Elements(Before(l)) \/ l \in Elements(After(r))

SameExtent(l, r) ==
    HeaderOf(l).offset = HeaderOf(r).offset /\ HeaderOf(l).length = HeaderOf(r).length

\* From the first file to be merged to the end of its list.
FilesFrom(fi) == ListOf(nextFile, fi)

\* cabd_can_merge_folders: the files to be merged are the same ones, or at
\* least one of them is in both cabinets.
CanMerge(lfol, rfol) ==
    /\ folder[lfol].comp = folder[rfol].comp
    /\ folder[lfol].mergeNext # NULL /\ folder[rfol].mergePrev # NULL
    /\ LET ls == FilesFrom(folder[lfol].mergeNext)
           rs == FilesFrom(folder[rfol].mergePrev)
       IN  \/ Len(rs) >= Len(ls) /\ \A i \in DOMAIN ls : SameExtent(ls[i], rs[i])
           \/ \E l \in Elements(ls), r \in Elements(rs) : SameExtent(l, r)

\* A mutant of Attach: the cabinets after r keep their lists.
Attach_Pair(l, r, head) ==
    LET attached == [cab EXCEPT ![l].nextcab = r, ![r].prevcab = l, ![l].files = head]
    IN  cab' = [attached EXCEPT ![r].files = head, ![r].folders = cab[l].folders]

\* A mutant of Attach: r does not learn what it is attached to.
Attach_OneWay(l, r, head) ==
    LET before == Elements(Before(l))
        after == {r} \cup Elements(After(r))
        attached == [cab EXCEPT ![l].nextcab = r, ![l].files = head]
    IN  cab' = [c \in Cabs |->
            IF c \in before \cup after
            THEN [attached[c] EXCEPT !.files = head, !.folders = cab[l].folders]
            ELSE attached[c]]

\* Attach r to l and give all cabinets of the new set the lists of l.
Attach(l, r, head) ==
    LET before == Elements(Before(l))
        after == {r} \cup Elements(After(r))
        attached == [cab EXCEPT ![l].nextcab = r, ![r].prevcab = l, ![l].files = head]
    IN  cab' = [c \in Cabs |->
            IF c \in before \cup after
            THEN [attached[c] EXCEPT !.files = head, !.folders = cab[l].folders]
            ELSE attached[c]]

\* No folder is split between the two.
JoinLists(l, r) ==
    LET lfol == Final(FoldersOf(l))
        rfol == cab[r].folders
    IN  /\ folder[lfol].mergeNext = NULL /\ folder[rfol].mergePrev = NULL
        /\ folder' = [folder EXCEPT ![lfol].next = rfol]
        /\ nextFile' = [nextFile EXCEPT ![Final(FilesOf(l))] = cab[r].files]
        /\ Attach(l, r, cab[l].files)
        /\ UNCHANGED live

\* What is left of merge_next when rfol has become a part of lfol: that of rfol,
\* unless its file is about to go with rfol.
MergedNext(lfol, rfol) ==
    LET next == folder[rfol].mergeNext
    IN  IF next = NULL \/ FolderOf(next) # rfol THEN next ELSE folder[lfol].mergeNext

\* The files of a list that are not files of the folder f, in order.
Without(files, f) ==
    LET kept[n \in 0 .. Len(files)] ==
            IF n = 0 THEN <<>>
            ELSE IF FolderOf(files[n]) = f THEN kept[n - 1] ELSE Append(kept[n - 1], files[n])
    IN  kept[Len(files)]

\* The last folder of l and the first of r become one: the blocks add up but
\* for the one they share, the second folder goes and its files with it.
JoinMerging(l, r) ==
    LET lfol == Final(FoldersOf(l))
        rfol == cab[r].folders
        all == FilesOf(l) \o FilesOf(r)
        kept == Without(all, rfol)
    IN  /\ ~(folder[lfol].mergeNext = NULL /\ folder[rfol].mergePrev = NULL)
        /\ CanMerge(lfol, rfol)
        /\ folder' = [folder EXCEPT
              ![rfol] = ReadFolder(rfol[2], rfol[3]),
              ![lfol].next = folder[rfol].next,
              ![lfol].blocks = @ + folder[rfol].blocks - 1,
              ![lfol].data = @ \o folder[rfol].data,
              ![lfol].mergeNext = MergedNext(lfol, rfol)]
        /\ nextFile' = Linked(nextFile, kept, all)
        /\ live' = live \ ({rfol} \cup (Elements(all) \ Elements(kept)))
        /\ Attach(l, r, kept[1])

Join(l, r) ==
    /\ l \in opened /\ r \in opened
    /\ ~CannotAttach(l, r)
    /\ JoinLists(l, r) \/ JoinMerging(l, r)
    /\ error' = "ok"
    /\ UNCHANGED opened

\* Arguments that are refused; folders that do not fit, or no memory for the
\* data of the merged folder.
JoinFails(l, r) ==
    /\ l \in opened /\ r \in opened
    /\ \/ CannotAttach(l, r)
       \/ folder[Final(FoldersOf(l))].mergeNext # NULL
       \/ folder[cab[r].folders].mergePrev # NULL
    /\ error' = "failed"
    /\ UNCHANGED <<opened, live, cab, folder, nextFile>>

-----------------------------------------------------------------------------
(* close.                                                                    *)

NoCab == [next |-> NULL, prevcab |-> NULL, nextcab |-> NULL, files |-> NULL, folders |-> NULL]

\* What has been freed looks as it did at first: nothing may depend on it.
Forget ==
    /\ folder' = [o \in FolderIds |-> IF o \in live' THEN folder[o] ELSE ReadFolder(o[2], o[3])]
    /\ nextFile' = [o \in FileIds |-> IF o \in live' THEN nextFile[o] ELSE NULL]

SetOf(c) == {c} \cup Elements(Before(c)) \cup Elements(After(c))

\* What close(c) goes through: c and what was found after it.
ClosedHeads(c) == Elements(ListOf(FoundNext, c))

CloseCabs(c) ==
    /\ opened' = opened \ UNION {SetOf(h) : h \in ClosedHeads(c)}
    /\ live' = live \ UNION {Elements(FilesOf(h)) \cup Elements(FoldersOf(h))
                                : h \in ClosedHeads(c)}
    /\ error' = "ok"
    /\ cab' = [x \in Cabs |-> IF x \in opened' THEN cab[x] ELSE NoCab]
    /\ Forget

InitSets ==
    /\ opened = {}
    /\ live = {}
    /\ cab = [c \in Cabs |-> NoCab]
    /\ folder = [o \in FolderIds |-> ReadFolder(o[2], o[3])]
    /\ nextFile = [o \in FileIds |-> NULL]
    /\ error = "ok"
=============================================================================
