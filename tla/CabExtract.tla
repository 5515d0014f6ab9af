----------------------------- MODULE CabExtract -----------------------------
(***************************************************************************)
(* extract of a cabinet: the second half of cabd.c, over the sets of Cabd. *)
(* One decompression state d is kept between calls; a call decodes from    *)
(* where d stands in the folder to the file and then through it.  The      *)
(* decoder asks cabd_sys_read for input, which fetches whole blocks and    *)
(* joins a block that is split between two cabinets.                       *)
(*                                                                         *)
(* A byte is a pair <<stream, position>>; a compressed block has as many   *)
(* bytes as its data, and a decoder of a packed folder gives out a frame   *)
(* when it has read all of it.                                             *)
(***************************************************************************)
EXTENDS Cabd

CONSTANTS
    JoinArgs,   \* the pairs of cabinets that append and prepend are called with
    BlockMax,   \* CAB_BLOCKMAX
    BufSize,    \* MSCABD_PARAM_DECOMPBUF
    MaxBlock    \* the block counter stops there; no folder has more blocks

\* The blocks of a folder on disk: bytes from .. to of its stream; out is the
\* uncompressed size, 0 where the rest of the block is in the next cabinet.
ASSUME BlockAssumption ==
    /\ BlockMax \in Nat \ {0} /\ BufSize \in Nat \ {0}
    /\ \A c \in Cabs : \A i \in DOMAIN Image[c].folders :
          LET f == Image[c].folders[i]
          IN  /\ f.comp \in {"none", "packed", "unknown"}
              /\ IsRow(f.blocks)
              /\ \A b \in DOMAIN f.blocks :
                    /\ f.blocks[b].from \in Nat /\ f.blocks[b].to \in Nat
                    /\ f.blocks[b].out \in 0 .. BlockMax
                    /\ f.blocks[b].status \in {"ok", "checksum"}

\* What search finds is not joined: cabd_close would free some of it twice.
ASSUME JoinAssumption ==
    \A pair \in JoinArgs : {pair[1], pair[2]} \cap Elements(Found) = {}

VARIABLES
    d,          \* mscabd_decompress_state, or NULL
    readError,  \* mscab_decompressor_p.read_error
    call,       \* the call of extract that is running, or NULL
    out         \* the bytes it has written to the output file so far

extractVars == <<d, readError, call, out>>
vars == <<opened, live, cab, folder, nextFile, error, d, readError, call, out>>

OnDisk(seg) == Image[seg[2]].folders[seg[3]]
Bytes(stream, from, to) == [i \in 1 .. to - from + 1 |-> <<stream, from + i - 1>>]

Prefix(s, n) == SubSeq(s, 1, n)
Suffix(s, n) == SubSeq(s, n + 1, Len(s))
AtMost(m, n) == IF m < n THEN m ELSE n

-----------------------------------------------------------------------------
(* The start of extract.                                                     *)

\* A mutant of Refuses: nothing is asked of the cabinets a folder needs.
Refuses_SizeOnly(fi) ==
    LET f == folder[FolderOf(fi)]
    IN  (HeaderOf(fi).offset + HeaderOf(fi).length) \div BlockMax > f.blocks

\* "cabinet set is incomplete"
Refuses(fi) ==
    LET f == folder[FolderOf(fi)]
    IN  \/ f.mergePrev # NULL
        \/ (HeaderOf(fi).offset + HeaderOf(fi).length) \div BlockMax > f.blocks

\* Another folder, or one that has been decoded beyond the start of the file.
MustReset(fi) ==
    d # NULL => d.folder # FolderOf(fi) \/ d.offset > HeaderOf(fi).offset

\* Three fields are history: whole says that the folder was complete when d was set
\* to it and nothing outside has failed since, shifted that a read has failed, astray
\* that another folder could not be begun, so that infh is in a cabinet of that one.
NoDecoder == [in |-> <<>>, frame |-> <<>>, err |-> "ok"]

Fresh ==
    [folder |-> NULL, seg |-> NULL, offset |-> 0, block |-> 0, incab |-> NULL,
     infh |-> NULL, in |-> <<>>, writing |-> FALSE, method |-> NULL, dec |-> NULL,
     whole |-> FALSE, shifted |-> FALSE, astray |-> FALSE]

\* Every cabinet the blocks of f continue in has been joined.
Whole(f) == LET blocks == OnDisk(Final(folder[f].data)).blocks
            IN  blocks[Len(blocks)].out # 0

\* d at the start of the folder of fi; a file of the same cabinet stays open.
ResetState(fi) ==
    LET f == FolderOf(fi)
        seg == folder[f].data[1]
    IN  [Fresh EXCEPT !.folder = f, !.seg = 1, !.incab = seg[2],
                      !.infh = [at |-> seg, next |-> 1], !.whole = Whole(f),
                      !.method = folder[f].comp, !.dec = NoDecoder]

\* There is a decoder for the compression type of the folder.
Decodable(fi) == folder[FolderOf(fi)].comp # "unknown"

\* Decode bytes that are not wanted first, if there are any.
Started(fi, state) ==
    LET skip == HeaderOf(fi).offset - state.offset
        file == [file |-> fi, phase |-> "skip", want |-> skip, todo |-> 0, got |-> <<>>,
                 inBlock |-> FALSE]
    IN  IF skip # 0 THEN file ELSE [file EXCEPT !.phase = "unpack", !.want = HeaderOf(fi).length]

\* Cabinets are missing, or there is no memory for the decompression state.
ExtractRefused(fi) ==
    /\ call = NULL /\ fi \in live
    /\ Refuses(fi) \/ d = NULL
    /\ error' = "failed"
    /\ UNCHANGED <<opened, live, cab, folder, nextFile, d, readError, call, out>>

\* The file has bytes: a file without any needs no decoding.
ExtractBegin(fi) ==
    /\ call = NULL /\ fi \in live
    /\ ~Refuses(fi)
    /\ MustReset(fi) => Decodable(fi)
    /\ LET state == IF MustReset(fi) THEN ResetState(fi) ELSE d
           started == Started(fi, state)
       IN  IF HeaderOf(fi).length = 0
           THEN d' = state /\ call' = NULL
           ELSE /\ d' = [state EXCEPT !.writing = (started.phase = "unpack")]
                /\ call' = started
    /\ readError' = IF MustReset(fi) THEN "ok" ELSE readError
    /\ error' = "ok"
    /\ UNCHANGED <<opened, live, cab, folder, nextFile, out>>

Old == IF d = NULL THEN Fresh ELSE d

\* Where the folder of fi starts.
FirstPart(fi) == folder[FolderOf(fi)].data[1]

\* The input file is in the cabinet the folder starts in.
Kept(fi) == Old.infh # NULL /\ Old.incab = FirstPart(fi)[2]

\* The folder cannot be begun, and d is left as it is then: still about the folder
\* before, whatever has been done to the input file and the decoder.
CannotBegin(fi, state) ==
    /\ call = NULL /\ fi \in live
    /\ ~Refuses(fi) /\ MustReset(fi)
    /\ d' = state
    /\ error' = "failed"
    /\ UNCHANGED <<opened, live, cab, folder, nextFile, readError, call, out>>

\* The cabinet cannot be opened: there is no input file.
ExtractCannotOpen(fi) ==
    /\ CannotBegin(fi, [Old EXCEPT !.incab = FirstPart(fi)[2], !.infh = NULL, !.whole = FALSE])
    /\ ~Kept(fi)

\* The input file cannot be set to the first block: a new one is at its start.
ExtractCannotSeek(fi) ==
    CannotBegin(fi,
        IF Kept(fi) THEN Old
        ELSE [Old EXCEPT !.incab = FirstPart(fi)[2], !.infh = [at |-> FirstPart(fi), next |-> 0],
                         !.whole = FALSE, !.astray = TRUE])

\* cabd_init_decomp fails: the decoder there was is gone, and decompress is the method
\* that was tried, or none; the method stays where no decoder was, and none is tried.
ExtractCannotDecode(fi) ==
    CannotBegin(fi,
        [Old EXCEPT !.incab = FirstPart(fi)[2], !.infh = [at |-> FirstPart(fi), next |-> 1],
                    !.whole = FALSE, !.astray = @ \/ ~Kept(fi), !.dec = NULL,
                    !.method = IF Decodable(fi) THEN folder[FolderOf(fi)].comp
                               ELSE IF Old.dec = NULL THEN @ ELSE NULL])

\* The output file cannot be opened; d may have been reset.
ExtractCannotCreate(fi) ==
    /\ call = NULL /\ fi \in live
    /\ ~Refuses(fi)
    /\ MustReset(fi) => Decodable(fi)
    /\ d' = IF MustReset(fi) THEN ResetState(fi) ELSE d
    /\ readError' = IF MustReset(fi) THEN "ok" ELSE readError
    /\ error' = "failed"
    /\ UNCHANGED <<opened, live, cab, folder, nextFile, call, out>>

-----------------------------------------------------------------------------
(* The decoders.                                                             *)

Packed == d.method = "packed"

\* The last byte of every block is the last one of a frame.
FrameEnds ==
    UNION {{<<OnDisk(seg).stream, OnDisk(seg).blocks[b].to>> :
                b \in {b \in DOMAIN OnDisk(seg).blocks : OnDisk(seg).blocks[b].out # 0}}
              : seg \in FolderIds}

HasFrame(s) == \E i \in DOMAIN s : s[i] \in FrameEnds
FrameLength(s) == CHOOSE i \in DOMAIN s : s[i] \in FrameEnds /\ \A j \in 1 .. i - 1 : s[j] \notin FrameEnds

Crashed == call # NULL /\ call.phase = "crashed"
Called == call # NULL /\ call.todo = 0 /\ call.got = <<>> /\ ~Crashed
Running == Called /\ d.dec # NULL
Reading == call # NULL /\ call.todo > 0

Quiet == UNCHANGED <<opened, live, cab, folder, nextFile>>

\* The decoder returns e, and goes on returning it unless the folder is not
\* compressed; "read" stands for what cabd_sys_read has noted.
Fail(state, e) ==
    /\ d' = [state EXCEPT !.writing = FALSE,
                          !.shifted = @ \/ e = "read",
                          !.dec.err = IF Packed THEN e ELSE @]
    /\ error' = IF e = "read" THEN readError' ELSE "failed"
    /\ call' = NULL
    /\ out' = <<>>

\* The process ends: a null pointer is used.
Crash ==
    /\ call' = [call EXCEPT !.phase = "crashed", !.todo = 0, !.got = <<>>]
    /\ UNCHANGED <<error, readError, d, out>>

\* decompress without a decoder: lzxd, mszipd and qtmd refuse; noned does not, and
\* there may be nothing to call.
NoDecoderThere ==
    /\ Called /\ d.dec = NULL
    /\ IF Packed
       THEN /\ d' = [d EXCEPT !.writing = FALSE] /\ error' = "failed"
            /\ call' = NULL /\ out' = <<>> /\ UNCHANGED readError
       ELSE Crash
    /\ Quiet

FailedBefore ==
    /\ Running /\ d.dec.err # "ok"
    /\ UNCHANGED readError
    /\ Fail(d, d.dec.err)
    /\ Quiet

\* The file begins, or has ended.
Decoded ==
    /\ Running /\ call.want = 0 /\ d.dec.err = "ok"
    /\ IF call.phase = "skip"
       THEN /\ call' = [call EXCEPT !.phase = "unpack", !.want = HeaderOf(call.file).length]
            /\ d' = [d EXCEPT !.writing = TRUE]
            /\ UNCHANGED out
       ELSE call' = NULL /\ d' = [d EXCEPT !.writing = FALSE] /\ out' = <<>>
    /\ UNCHANGED <<error, readError>> /\ Quiet

\* What the decoder would give to cabd_sys_write now.
Run == IF Packed THEN Prefix(d.dec.frame, AtMost(call.want, Len(d.dec.frame))) ELSE call.got

HasRun ==
    /\ call # NULL /\ d.dec # NULL /\ call.want > 0 /\ d.dec.err = "ok"
    /\ IF Packed THEN Running /\ d.dec.frame # <<>>
                 ELSE call.todo = 0 /\ call.got # <<>>

\* cabd_sys_write counts the bytes first.
Written == [d EXCEPT !.offset = @ + Len(Run),
                     !.dec.frame = IF Packed THEN Suffix(@, Len(Run)) ELSE @]

Write ==
    /\ HasRun
    /\ d' = Written
    /\ out' = IF d.writing THEN out \o Run ELSE out
    /\ call' = [call EXCEPT !.want = @ - Len(Run), !.got = <<>>]
    /\ UNCHANGED <<error, readError>> /\ Quiet

WriteFails ==
    /\ HasRun /\ d.writing
    /\ UNCHANGED readError
    /\ Fail([Written EXCEPT !.whole = FALSE], "write")
    /\ Quiet

DecodeFrame ==
    /\ Running /\ call.want > 0 /\ Packed /\ d.dec.err = "ok"
    /\ d.dec.frame = <<>> /\ HasFrame(d.dec.in)
    /\ LET n == FrameLength(d.dec.in)
       IN  d' = [d EXCEPT !.dec.frame = Prefix(d.dec.in, n), !.dec.in = Suffix(d.dec.in, n)]
    /\ UNCHANGED <<error, readError, call, out>> /\ Quiet

\* noned asks for what it will write, the others for a buffer.
AskForInput ==
    /\ Running /\ call.want > 0 /\ d.dec.err = "ok"
    /\ d.dec.frame = <<>> /\ ~HasFrame(d.dec.in)
    /\ call' = [call EXCEPT !.todo = IF Packed THEN BufSize ELSE AtMost(BufSize, call.want)]
    /\ UNCHANGED <<error, readError, d, out>> /\ Quiet

-----------------------------------------------------------------------------
(* cabd_sys_read and cabd_sys_read_block.                                    *)

\* A packed decoder takes what it has been given into its buffer.
Take(state, got) == IF Packed THEN [state EXCEPT !.dec.in = @ \o got] ELSE state
Keep(got) == IF Packed THEN <<>> ELSE got

CopyInput ==
    /\ Reading /\ ~call.inBlock /\ d.in # <<>>
    /\ LET n == AtMost(call.todo, Len(d.in))
           got == call.got \o Prefix(d.in, n)
           rest == [d EXCEPT !.in = Suffix(@, n)]
       IN  IF n = call.todo
           THEN /\ d' = Take(rest, got)
                /\ call' = [call EXCEPT !.todo = 0, !.got = Keep(got)]
           ELSE /\ d' = rest
                /\ call' = [call EXCEPT !.todo = @ - n, !.got = got]
    /\ UNCHANGED <<error, readError, out>> /\ Quiet

\* There are no more blocks: the decoder gets what there is, and noned and a
\* decoder that gets nothing give up.
EndOfFolder ==
    /\ Reading /\ ~call.inBlock /\ d.in = <<>>
    /\ d.block >= folder[d.folder].blocks
    /\ readError' = "failed"
    /\ LET state == [d EXCEPT !.block = AtMost(@ + 1, MaxBlock)]
       IN  IF Packed /\ call.got # <<>>
           THEN /\ d' = Take(state, call.got)
                /\ call' = [call EXCEPT !.todo = 0, !.got = <<>>]
                /\ UNCHANGED <<error, out>>
           ELSE Fail(state, "read")
    /\ Quiet

NextBlock ==
    /\ Reading /\ ~call.inBlock /\ d.in = <<>>
    /\ d.block < folder[d.folder].blocks
    /\ d' = [d EXCEPT !.block = @ + 1]
    /\ call' = [call EXCEPT !.inBlock = TRUE]
    /\ UNCHANGED <<error, readError, out>> /\ Quiet

\* The data block where the input file stands.
BlockThere == OnDisk(d.infh.at).blocks[d.infh.next]
PastHeader == [d EXCEPT !.infh.next = @ + 1]
BlockBytes == Bytes(OnDisk(d.infh.at).stream, BlockThere.from, BlockThere.to)

ReadFails(state) ==
    /\ readError' = "failed"
    /\ Fail(state, "read")

\* No input file: one could not be opened, or there was no next part.
ReadNothing ==
    /\ Reading /\ call.inBlock /\ d.infh = NULL
    /\ ReadFails(d)
    /\ Quiet

\* The start of the cabinet, taken for a block, has a wrong checksum; how long a block's
\* header is there is told by the cabinet of the segment.
ReadNoBlock ==
    /\ Reading /\ call.inBlock /\ d.infh # NULL /\ d.infh.next = 0
    /\ IF d.seg = NULL THEN Crash ELSE ReadFails(d)
    /\ Quiet

AtBlock == Reading /\ call.inBlock /\ d.infh # NULL /\ d.infh.next # 0

ReadBadBlock ==
    /\ AtBlock /\ BlockThere.status = "checksum"
    /\ ReadFails(PastHeader)
    /\ Quiet

\* The last part of a block, or all of it.
ReadBlock ==
    /\ AtBlock /\ BlockThere.status = "ok" /\ BlockThere.out # 0
    /\ d' = [PastHeader EXCEPT !.in = @ \o BlockBytes]
    /\ readError' = "ok"
    /\ call' = [call EXCEPT !.inBlock = FALSE]
    /\ UNCHANGED <<error, out>> /\ Quiet

\* A mutant of NextSegment: the file stays the one it was.
NextSegment_SameFile(state) ==
    LET segs == folder[d.folder].data
    IN  [state EXCEPT !.seg = @ + 1, !.incab = segs[d.seg + 1][2],
                      !.infh = [at |-> segs[d.seg], next |-> 1]]

\* The segment after the current one, in its cabinet.
NextSegment(state) ==
    LET segs == folder[d.folder].data
    IN  [state EXCEPT !.seg = @ + 1, !.incab = segs[d.seg + 1][2],
                      !.infh = [at |-> segs[d.seg + 1], next |-> 1]]

\* The block goes on in the next cabinet, if there is one, it opens and has such a place.
ReadSplitBlock ==
    /\ AtBlock /\ BlockThere.status = "ok" /\ BlockThere.out = 0
    /\ LET state == [d EXCEPT !.in = @ \o BlockBytes, !.infh = NULL]
       IN  IF d.seg = Len(folder[d.folder].data)
           THEN ReadFails([state EXCEPT !.seg = NULL])
           ELSE \/ /\ d' = NextSegment(state)
                   /\ UNCHANGED <<error, readError, call, out>>
                \/ ReadFails([NextSegment(state) EXCEPT !.infh = NULL, !.whole = FALSE])
                \/ ReadFails([NextSegment(state) EXCEPT !.infh.next = 0, !.whole = FALSE])
    /\ Quiet

-----------------------------------------------------------------------------
(* The decompressor as a whole: one call at a time.                          *)

NoExtract == UNCHANGED extractVars

\* A mutant of CloseDecoder: the decompression state stays.
CloseDecoder_Keep(c) == d' = d

\* It goes with the folder it is for, if that is freed.
CloseDecoder(c) ==
    d' = IF d # NULL /\ \E h \in ClosedHeads(c) : d.folder \in Elements(FoldersOf(h))
         THEN NULL ELSE d

Close(c) ==
    /\ c \in opened
    /\ CloseCabs(c)
    /\ CloseDecoder(c)
    /\ UNCHANGED <<readError, call, out>>

Init ==
    /\ InitSets
    /\ d = NULL /\ readError = "ok" /\ call = NULL /\ out = <<>>

\* extract up to its decoding.
Extract(fi) ==
    \/ ExtractRefused(fi) \/ ExtractBegin(fi) \/ ExtractCannotOpen(fi)
    \/ ExtractCannotSeek(fi) \/ ExtractCannotDecode(fi) \/ ExtractCannotCreate(fi)

Step ==
    \/ NoDecoderThere \/ FailedBefore \/ Decoded \/ Write \/ WriteFails \/ DecodeFrame \/ AskForInput
    \/ CopyInput \/ EndOfFolder \/ NextBlock
    \/ ReadNothing \/ ReadNoBlock \/ ReadBadBlock \/ ReadBlock \/ ReadSplitBlock

\* What open and search return: close is given nothing else.
Returned == Cabs \ {Found[i] : i \in 2 .. Len(Found)}

Next ==
    \/ \E c \in Returned \ Elements(Found) : call = NULL /\ (Open(c) \/ OpenFails(c)) /\ NoExtract
    \/ call = NULL /\ Search /\ NoExtract
    \/ \E pair \in JoinArgs :
          call = NULL /\ (Join(pair[1], pair[2]) \/ JoinFails(pair[1], pair[2])) /\ NoExtract
    \/ \E c \in Returned : call = NULL /\ Close(c)
    \/ \E fi \in FileIds : Extract(fi)
    \/ Step
    \/ Crashed /\ UNCHANGED vars    \* there is no process left

Spec == Init /\ [][Next]_vars

-----------------------------------------------------------------------------
(* Properties.                                                               *)

FileList(c) == Elements(FilesOf(c))
FolderList(c) == Elements(FoldersOf(c))

\* Nothing points to memory that has been freed, and nothing is allocated that
\* no list leads to: merging frees one of two folders and its files while the
\* other cabinets, the files that stay and the decompressor have pointers to them.  But
\* the input file of the decompressor may be in a cabinet that has been closed when a
\* folder of that cabinet could not be begun (astray): close looks at d.folder only.
HeapIsSound ==
    /\ live = UNION {FileList(c) \cup FolderList(c) : c \in opened}
    /\ \A c \in opened : {cab[c].next, cab[c].prevcab, cab[c].nextcab} \subseteq OrNull(opened)
    /\ \A o \in live :
          IF o \in FileIds THEN FolderOf(o) \in live
          ELSE /\ {folder[o].mergePrev, folder[o].mergeNext} \subseteq OrNull(live)
               /\ \A i \in DOMAIN folder[o].data : folder[o].data[i][2] \in opened
    /\ d # NULL =>
          /\ d.folder \in OrNull(live)
          /\ d.infh # NULL /\ ~d.astray => d.incab \in opened

\* The sets of cabinets, told from their chains of pointers.
SetFrom(c) == <<c>> \o After(c)
Sets == {SetFrom(c) : c \in {c \in opened : cab[c].prevcab = NULL}}

Abstract == INSTANCE CabSet WITH open <- opened, sets <- Sets

\* The chains of prevcab and nextcab are the sets mspack.h promises: a cabinet is
\* in one set, append and prepend join two whole sets, close ends whole sets.
SetsAreSets == Abstract!Spec

Extent(fi) == <<OnDisk(<<"folder", fi[2], FolderOf(fi)[3]>>).stream,
                HeaderOf(fi).offset, HeaderOf(fi).length>>

\* The files that the cabinet c lists on disk.
Listed(c) == {Extent(<<"file", c, i>>) : i \in DOMAIN Image[c].files}

\* "All cabinets in a set use the same file list": it has each file that one of
\* them lists, once, however many of them list it.
FilesAreListedOnce ==
    \A s \in Sets :
        /\ \A c \in Elements(s) : /\ cab[c].files = cab[s[1]].files
                                  /\ cab[c].folders = cab[s[1]].folders
        /\ {Extent(fi) : fi \in FileList(s[1])} = UNION {Listed(c) : c \in Elements(s)}
        /\ Cardinality(UNION {Listed(c) : c \in Elements(s)}) = Len(FilesOf(s[1]))

Returns == call # NULL /\ call' = NULL

FileBytes(fi) == Bytes(Extent(fi)[1], HeaderOf(fi).offset + 1,
                       HeaderOf(fi).offset + HeaderOf(fi).length)

\* When extract says it is done the output is the file, wherever decoding had
\* stood, whatever was joined in between and whatever failed before; but for
\* stored folders after a failed read, see StoredIsSound.
ExtractIsSound ==
    [][Returns /\ error' = "ok" /\ (Packed \/ ~d.shifted) => out = FileBytes(call.file)]_vars

\* The same for the files of stored folders, whatever failed before: noned_decompress
\* and extract ("extracts a compressed file in a cabinet").
StoredIsSound ==
    [][Returns /\ error' = "ok" /\ ~Packed => out = FileBytes(call.file)]_vars

Intact(f) == \A i \in DOMAIN folder[f].data :
                \A b \in DOMAIN OnDisk(folder[f].data[i]).blocks :
                    OnDisk(folder[f].data[i]).blocks[b].status = "ok"

\* A file whose folder is complete and undamaged is extracted, whatever files
\* were extracted before, in whatever order, or failed; but for failures outside
\* since the folder was begun (whole): an output that cannot be written, a cabinet that
\* cannot be opened or positioned, and the beginning of another folder that fails, which
\* leaves the folder with another input file or without a decoder.
IntactIsExtracted ==
    [][Returns /\ d'.whole /\ Intact(d.folder) => error' = "ok"]_vars
=============================================================================
