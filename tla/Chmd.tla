-------------------------------- MODULE Chmd --------------------------------
(***************************************************************************)
(* The CHM decompressor, chmd.c: open reads the whole directory or none of *)
(* it, fast_find searches the directory on disk, and extract keeps one LZX *)
(* decoder between calls, which starts at a reset point of the stream and  *)
(* shares its input file with everything else that is read of the helpfile.*)
(*                                                                         *)
(* Names are numbers in the order of compare(), chunks and entries count   *)
(* from 1 and frames from 0.  A byte of a file is <<helpfile, section,     *)
(* offset>>.  How a frame is decoded is in Lzxd: here it is intact or not. *)
(***************************************************************************)
EXTENDS Integers, Sequences, FiniteSets, FiniteSetsExt

CONSTANTS
    NULL,
    Chms,       \* the helpfiles, one header each while they are open
    Names,      \* the names that the caller looks for
    Image,      \* what a helpfile has on disk: see ImageAssumption
    Frame       \* LZX_FRAME_SIZE

\* The names of the system files, which sort before the others.
Content == 1
Control == 2
ResetTable == 3
SpanInfo == 4
SystemFiles == {Content, Control, ResetTable, SpanInfo}

\* A chunk of the directory has entries, of which the first held end before the chunk
\* does: those of a "PMGL" are files [name, section, offset, length], those of a "PMGI"
\* say in which chunk to go on [name, to]. quick is there if the quick reference area
\* holds one entry in density. next is what NextChunk says, beyond last for the end.
\* frames says which frames of the stream are intact, interval how many there are
\* between two resets, and table what reading the reset table comes to.
ASSUME ImageAssumption ==
    /\ Frame \in Nat \ {0} /\ Names \subseteq Nat
    /\ \A c \in Chms :
          LET i == Image[c]
          IN  /\ DOMAIN i.chunks = 1 .. Len(i.chunks) /\ Len(i.chunks) \in Nat
              /\ \A n \in DOMAIN i.chunks :
                    LET chunk == i.chunks[n]
                    IN  /\ chunk.kind \in {"PMGL", "PMGI"} /\ chunk.quick \in BOOLEAN
                        /\ Len(chunk.entries) \in Nat
                        /\ chunk.held \in 0 .. Len(chunk.entries)
                        /\ DOMAIN chunk.entries = 1 .. Len(chunk.entries)
                        /\ chunk.kind = "PMGL" =>
                              /\ chunk.next \in Nat
                              /\ chunk.next <= i.last =>
                                    chunk.next >= n /\ i.chunks[chunk.next].kind = "PMGL"
                        /\ chunk.kind = "PMGL" =>
                              \A e \in DOMAIN chunk.entries :
                                  /\ chunk.entries[e].section \in {0, 1}
                                  /\ chunk.entries[e].offset \in Nat
                                  /\ chunk.entries[e].length \in Nat
                        /\ chunk.kind = "PMGI" =>
                              \A e \in DOMAIN chunk.entries :
                                  chunk.entries[e].to \in DOMAIN i.chunks \ {n}
              /\ i.density \in Nat \ {0} /\ i.interval \in Nat \ {0}
              /\ i.root \in 0 .. Len(i.chunks)     \* 0: there is no index
              /\ i.first \in DOMAIN i.chunks /\ i.chunks[i.first].kind = "PMGL"
              /\ i.last \in i.first .. Len(i.chunks)
              /\ Len(i.frames) \in Nat /\ Len(i.frames) % i.interval = 0
              /\ i.table \in {"ok", "short", "unreadable"}

\* What the LZX decoders and the decompression states are, see LzxState and State below.
Decoders == [chm : Chms, next : Nat, pos : Nat, failed : BOOLEAN]
States == [chm : Chms, infh : BOOLEAN, offset : Nat, state : Decoders \cup {NULL},
           inoffset : Nat]

ASSUME NullAssumption == NULL \notin Decoders \cup States

VARIABLES
    header,     \* for each helpfile its mschmd_header, or Closed
    found,      \* the name fast_find found last in it, or 0: the caller's mschmd_file
    d,          \* mschmd_decompress_state, or NULL
    error,      \* mschm_decompressor_p.error
    last        \* history: the last call and what came of it, if it was extract

vars == <<header, found, d, error, last>>

\* What may go wrong in a call, once: the helpfile or the output cannot be opened, the
\* input cannot be sought or read, the output written, a chunk, the ControlData or the
\* ResetTable read.
Faults == {"none", "open", "out", "seek", "read", "write", "chunk", "control", "table"}

Nothing == [op |-> "other", chm |-> NULL, name |-> 0, res |-> "ok", fault |-> "none",
            file |-> NULL, again |-> FALSE]

Closed == [open |-> FALSE, entire |-> FALSE, known |-> {}, cache |-> {}]

Init ==
    /\ header = [c \in Chms |-> Closed]
    /\ found = [c \in Chms |-> 0]
    /\ d = NULL
    /\ error = "ok"
    /\ last = Nothing

IsOpen(c) == header[c].open

-----------------------------------------------------------------------------
(* open, fast_open and close.                                                *)

\* The directory chunks that open reads, and the entries it has of them.
Listed(c) == {n \in Image[c].first .. Image[c].last : Image[c].chunks[n].kind = "PMGL"}
Files(chunk) == {chunk.entries[e] : e \in 1 .. chunk.held}
Listing(c) == UNION {Files(Image[c].chunks[n]) : n \in Listed(c)}
NamesOf(files) == {f.name : f \in files}

\* Some entries could not be read: MSPACK_ERR_DATAFORMAT
Corrupt(c) ==
    \E n \in Listed(c) : Image[c].chunks[n].held < Len(Image[c].chunks[n].entries)

Entry(c, name) == CHOOSE f \in Listing(c) : f.name = name

\* sec1's pointers to the system files are set as these are read; the chunk cache
\* comes with fast_find.
NewHeader(entire, known) ==
    [open |-> TRUE, entire |-> entire, known |-> known \cap SystemFiles, cache |-> {}]

\* A helpfile that is corrupt is opened with what could be read of it, and no error.
Open(c, entire, fault) ==
    /\ ~IsOpen(c) /\ fault \in {"none", "open", "seek", "read"}
    /\ LET listed == IF entire THEN NamesOf(Listing(c)) ELSE {}
           fails == (fault # "none") \/ (entire /\ Corrupt(c) /\ listed = {})
       IN  /\ error' = IF fault # "none" THEN fault ELSE IF fails THEN "dataformat" ELSE "ok"
           /\ header' = [header EXCEPT ![c] = IF fails THEN @ ELSE NewHeader(entire, listed)]
    /\ last' = Nothing
    /\ UNCHANGED <<found, d>>

\* A mutant of CloseState: the decompression state outlives its helpfile.
CloseState_Keep(c) == d

CloseState(c) == IF d # NULL /\ d.chm = c THEN NULL ELSE d

Close(c) ==
    /\ IsOpen(c)
    /\ d' = CloseState(c)
    /\ header' = [header EXCEPT ![c] = Closed]
    /\ found' = [found EXCEPT ![c] = 0]
    /\ error' = "ok"
    /\ last' = Nothing

-----------------------------------------------------------------------------
(* fast_find.  search_chunk returns an entry, NotThere or BadChunk.          *)

NotThere == 0
BadChunk == -1
Searching == -2

\* The binary search over the entries that quick references point to, the first ones of
\* their groups: L and R are the bounds, and at is what has come of it.
Bounds(L, R, at) == [L |-> L, R |-> R, at |-> at]

Halved(chunk, density, name, b) ==
    LET M == (b.L + b.R) \div 2
        head == M * density + 1
    IN  IF b.at # Searching THEN b
        ELSE IF b.L > b.R THEN Bounds(b.L, b.R, head)
        ELSE IF head > chunk.held THEN Bounds(b.L, b.R, BadChunk)
        ELSE IF name = chunk.entries[head].name THEN Bounds(b.L, b.R, head)
        ELSE IF name > chunk.entries[head].name THEN Bounds(M + 1, b.R, Searching)
        ELSE IF M = 0 THEN Bounds(b.L, b.R, NotThere)
        ELSE Bounds(b.L, M - 1, Searching)

\* The first entry of the group a name is in.  Each turn narrows the bounds, so that the
\* search has ended one turn after they can have met.
GroupStart(chunk, density, name) ==
    LET groups == (Len(chunk.entries) + density - 1) \div density
        search[n \in 0 .. groups + 1] ==
            IF n = 0 THEN Bounds(0, groups - 1, Searching)
            ELSE Halved(chunk, density, name, search[n - 1])
    IN  search[groups + 1].at

\* A mutant of GroupEnd: the entry before the next quick reference is not looked at.
GroupEnd_Short(chunk, density, from) == Min({from + density - 2, Len(chunk.entries)})

GroupEnd(chunk, density, from) == Min({from + density - 1, Len(chunk.entries)})

\* The entries of a group one by one, up to one that is not before the name. In an
\* index the one before that says where to go on.
InGroup(chunk, from, to, name) ==
    LET notBefore == {e \in from .. to : chunk.entries[e].name >= name}
        stop == Min(notBefore \cup {to + 1})
    IN  IF Min({stop, to}) > chunk.held THEN BadChunk
        ELSE IF stop <= to /\ chunk.entries[stop].name = name THEN stop
        ELSE IF chunk.kind = "PMGI" /\ stop > from THEN stop - 1
        ELSE NotThere

SearchFrom(chunk, density, start, name) ==
    IF chunk.entries = <<>> THEN BadChunk
    ELSE IF start \in {NotThere, BadChunk} THEN start
    ELSE InGroup(chunk, start, IF chunk.quick THEN GroupEnd(chunk, density, start)
                               ELSE Len(chunk.entries), name)

SearchChunk(c, n, name) ==
    LET chunk == Image[c].chunks[n]
        density == Image[c].density
    IN  SearchFrom(chunk, density,
                   IF chunk.quick THEN GroupStart(chunk, density, name) ELSE 1, name)

\* What search_chunk gives for each chunk.
Hits == [c \in Chms |-> [name \in Names \cup SystemFiles |->
            [n \in DOMAIN Image[c].chunks |-> SearchChunk(c, n, name)]]]

Nowhere == 0

\* The chunk that is searched after chunk n: down the index, or along the directory until
\* the name is found, the end or a chunk that says it is its own successor.
Onward(c, hits, n) ==
    LET i == Image[c]
        chunk == i.chunks[n]
    IN  IF i.root # 0
        THEN IF chunk.kind = "PMGI" /\ hits[n] > 0 THEN chunk.entries[hits[n]].to ELSE Nowhere
        ELSE IF hits[n] > 0 \/ chunk.next = n \/ chunk.next > i.last THEN Nowhere
             ELSE chunk.next

\* The chunks that are searched for a name, in order.  A path that ends has no chunk twice;
\* one that goes on for ever is cut when it is as long as the directory.
Path(c, hits) ==
    LET i == Image[c]
        step[k \in 0 .. Len(i.chunks)] ==
            IF k = 0 THEN IF i.root # 0 THEN i.root ELSE i.first
            ELSE IF step[k - 1] = Nowhere THEN Nowhere ELSE Onward(c, hits, step[k - 1])
    IN  [k \in {k \in 1 .. Len(i.chunks) : step[k - 1] # Nowhere} |-> step[k - 1]]

Paths == [c \in Chms |-> [name \in Names \cup SystemFiles |-> Path(c, Hits[c][name])]]

\* What becomes of a search along a path when a chunk that is not in the cache may be
\* unreadable. Without an index the error is replaced if the chunk before was bad, or none
\* was read.
FindAlong(c, h, path, hits, fault) ==
    LET missing == {k \in DOMAIN path : path[k] \notin h.cache}
        fails == fault = "chunk" /\ missing # {}
        \* the outcome so far, when a chunk cannot be read
        before == IF Min(missing) = 1 THEN BadChunk
                  ELSE hits[path[Min(missing) - 1]]
        e == hits[path[Len(path)]]
    IN  IF fails
        THEN [res |-> IF Image[c].root = 0 /\ before = BadChunk THEN "dataformat" ELSE "read",
              hit |-> FALSE, cache |-> h.cache]
        ELSE [res |-> IF e = BadChunk THEN "dataformat" ELSE "ok",
              hit |-> e > 0, cache |-> h.cache \cup {path[k] : k \in DOMAIN path}]

Find(c, h, name, fault) == FindAlong(c, h, Paths[c][name], Hits[c][name], fault)

\* The caller's mschmd_file is cleared first: no section in it says the name is not there. If the helpfile
\* cannot be opened the error is returned and not kept.
FastFind(c, name, fault) ==
    /\ IsOpen(c) /\ fault \in {"none", "open", "chunk"}
    /\ LET f == Find(c, header[c], name, fault)
       IN  /\ error' = IF fault = "open" THEN error ELSE f.res
           /\ header' = IF fault = "open" THEN header
                        ELSE [header EXCEPT ![c].cache = f.cache]
           /\ found' = [found EXCEPT ![c] = IF f.hit /\ fault # "open" THEN name ELSE 0]
    /\ last' = Nothing
    /\ UNCHANGED d

-----------------------------------------------------------------------------
(* The compressed section.                                                   *)

\* A system file that f, what fast_find gave, is about is remembered in the header.
Noted(s, name, f) ==
    [h |-> [s.h EXCEPT !.known = IF f.hit THEN @ \cup {name} ELSE @, !.cache = f.cache],
     err |-> f.res, ok |-> f.hit]

\* find_sys_file: s is [h, err, ok], the header, self->error and whether all went well.
FindSysFile(c, s, name, fault) ==
    IF ~s.ok \/ name \in s.h.known THEN s ELSE Noted(s, name, Find(c, s.h, name, fault))

\* The frame of the last reset point before a byte.
ResetPoint(c, byte) == (byte \div (Image[c].interval * Frame)) * Image[c].interval

\* A table that is "ok" has an entry for each frame of the stream.
TableOf(c, s, byte, fault) ==
    IF ~s.ok THEN s
    ELSE IF Image[c].table = "unreadable" \/ fault = "table"
    THEN [s EXCEPT !.err = "read", !.ok = FALSE]
    ELSE [s EXCEPT !.ok = /\ Image[c].table = "ok"
                          /\ ResetPoint(c, byte) < Len(Image[c].frames)]

\* read_reset_table: whether it gives the length and the offset of the entry for a byte.
\* If it does not, err is what was left in self->error.
ReadResetTable(c, s, byte, fault) ==
    TableOf(c, FindSysFile(c, s, ResetTable, IF fault = "table" THEN "chunk" ELSE "none"),
            byte, fault)

\* A decoder of a helpfile's stream: it has read the frames up to next and handed out
\* the bytes up to pos.
LzxState(c, next, pos, failed) == [chm |-> c, next |-> next, pos |-> pos, failed |-> failed]

NewDecoder(c, frame) == LzxState(c, frame, frame * Frame, FALSE)

\* chmd_init_decomp: a decoder at the last reset point before a byte, or at the start of
\* the stream if the reset table is no help: then self->error is returned as the attempt
\* left it, though the decoder is there.
InitDecomp(c, h, byte, fault) ==
    LET start == [h |-> h, err |-> "ok", ok |-> TRUE]
        content == FindSysFile(c, start, Content, fault)
        control == FindSysFile(c, content, Control, "none")
        table == ReadResetTable(c, control, byte, fault)
        span == FindSysFile(c, [table EXCEPT !.ok = TRUE], SpanInfo, "none")
        fail(s, err) == [h |-> s.h, err |-> err, state |-> NULL, at |-> 0]
        begin(s, frame) == [h |-> s.h, err |-> s.err, state |-> NewDecoder(c, frame), at |-> frame]
    IN  IF ~control.ok THEN fail(control, "dataformat")
        ELSE IF fault = "control" THEN fail(control, "read")
        ELSE IF table.ok THEN begin(table, ResetPoint(c, byte))
        ELSE IF ~span.ok THEN fail(span, "dataformat")
        ELSE begin(span, 0)

\* One call of lzxd_decompress for the bytes up to a position, with the input file at
\* frame at: also the frame that begins where a request ends is decoded, unless the
\* stream has ended. A request past the end of the stream gets what there is, and an
\* error (that of a read, if the file ends there as well). An error is for good.
Decode(state, at, to, fault) ==
    LET frames == Image[state.chm].frames
        end == Len(frames) * Frame
        upTo == Min({to \div Frame + 1, Len(frames)})
        needed == IF to <= state.next * Frame THEN {} ELSE state.next .. upTo - 1
        bad == {f \in needed : at # state.next \/ ~frames[f + 1]}
        past == to > end
        fails == bad # {} \/ past
        reached == IF bad # {} THEN Min({to, Min(bad) * Frame}) ELSE IF past THEN end ELSE to
    IN  IF to < state.pos THEN [state |-> state, err |-> "args"]
        ELSE IF state.failed THEN [state |-> state, err |-> "decrunch"]
        ELSE IF fault = "read" /\ needed # {}
        THEN [state |-> LzxState(state.chm, state.next, Min({to, state.next * Frame}), TRUE),
              err |-> "read"]
        ELSE [state |-> LzxState(state.chm,
                            IF needed = {} THEN state.next ELSE IF bad = {} THEN upTo
                            ELSE Min(bad),
                            reached, fails),
              err |-> IF fails THEN "decrunch" ELSE "ok"]

Bytes(c, section, from, to) == [k \in 1 .. to - from |-> <<c, section, from + k - 1>>]

-----------------------------------------------------------------------------
(* extract.                                                                  *)

State(c, open, offset, state, inoffset) ==
    [chm |-> c, infh |-> open, offset |-> offset, state |-> state, inoffset |-> inoffset]

\* offset and inoffset mean nothing without a decoder.
NoDecoder(c, open) == State(c, open, 0, NULL, 0)

HasInput(c) == d # NULL /\ d.infh /\ d.chm = c

\* A mutant of InputOf: the decoder of another helpfile is kept.
InputOf_Keep(c) ==
    IF d = NULL THEN NoDecoder(c, TRUE) ELSE State(c, TRUE, d.offset, d.state, d.inoffset)

\* d once the helpfile is its input.
InputOf(c) ==
    IF HasInput(c) THEN d ELSE NoDecoder(c, TRUE)

\* What a call leaves: the file it wrote, or NULL if it was not created, and whether
\* the call before was for the same file and failed with nothing going wrong.
Extracted(c, name, fault, res, file) ==
    /\ error' = res
    /\ last' = [op |-> "extract", chm |-> c, name |-> name, res |-> res, fault |-> fault,
                file |-> file,
                again |-> /\ last.op = "extract" /\ last.chm = c /\ last.name = name
                          /\ last.res # "ok" /\ last.fault = "none"]

ExtractNoInput(c, name, fault) ==
    /\ fault = "open" /\ ~HasInput(c)
    /\ d' = NoDecoder(c, FALSE)
    /\ Extracted(c, name, fault, "open", NULL)
    /\ UNCHANGED header

ExtractNoOutput(c, name, fault) ==
    /\ fault = "out"
    /\ d' = InputOf(c)
    /\ Extracted(c, name, fault, "open", NULL)
    /\ UNCHANGED header

ExtractEmpty(c, name, fault) ==
    /\ Entry(c, name).length = 0 /\ fault = "none"
    /\ d' = InputOf(c)
    /\ Extracted(c, name, fault, "ok", <<>>)
    /\ UNCHANGED header

\* Section 0: the bytes are copied. d.offset and d.inoffset know nothing of it.
ExtractStored(c, name, fault) ==
    LET f == Entry(c, name)
    IN  /\ f.length > 0 /\ f.section = 0 /\ fault \in {"none", "seek", "read", "write"}
        /\ d' = InputOf(c)
        /\ Extracted(c, name, fault, IF fault = "none" THEN "ok" ELSE fault,
                     IF fault = "none" THEN Bytes(c, 0, f.offset, f.offset + f.length) ELSE <<>>)
        /\ UNCHANGED header

\* The decoder cannot go back.
NeedsReset(f, s) == s.state = NULL \/ f.offset < s.offset

\* A mutant of AfterDecoding: a decoder that failed is kept.
AfterDecoding_Keep(c, state, err) == State(c, TRUE, state.pos, state, state.next)

\* The offset counts what was written or skipped, the input is where the decoder
\* left it; a decoder that failed is freed.
AfterDecoding(c, state, err) ==
    IF err = "ok" THEN State(c, TRUE, state.pos, state, state.next) ELSE NoDecoder(c, TRUE)

\* d when chmd_init_decomp has run, if it had to.
Begun(c, s, init, reset) ==
    IF init.state = NULL THEN NoDecoder(c, TRUE)
    ELSE State(c, TRUE, IF reset THEN init.state.pos ELSE s.offset, init.state, init.at)

\* The input is sought where it was left, the bytes before the file are decoded and
\* thrown away, and then the file.
Unpack(c, name, fault, err, begun) ==
    LET f == Entry(c, name)
        skip == Decode(begun.state, begun.inoffset, f.offset, fault)
        unpack == Decode(skip.state, IF skip.state.next = begun.state.next THEN begun.inoffset
                                     ELSE skip.state.next, f.offset + f.length, fault)
        written == Bytes(skip.state.chm, 1, skip.state.pos, unpack.state.pos)
    IN  IF err # "ok"
        THEN d' = begun /\ Extracted(c, name, fault, err, <<>>)
        ELSE IF fault = "seek"
        THEN d' = begun /\ Extracted(c, name, fault, "seek", <<>>)
        ELSE IF skip.err # "ok"
        THEN /\ d' = AfterDecoding(c, skip.state, skip.err)
             /\ Extracted(c, name, fault, skip.err, <<>>)
        ELSE IF fault = "write"
        THEN /\ d' = AfterDecoding(c, skip.state, "write")
             /\ Extracted(c, name, fault, "write", <<>>)
        ELSE /\ d' = AfterDecoding(c, unpack.state, unpack.err)
             /\ Extracted(c, name, fault, unpack.err, written)

\* From init on: the header and the decompression state with a decoder, and the file.
UnpackFrom(c, name, fault, init, reset) ==
    /\ header' = [header EXCEPT ![c] = init.h]
    /\ Unpack(c, name, fault, init.err, Begun(c, InputOf(c), init, reset))

\* Section 1: a decoder first, a new one if there is none or it has gone too far.
ExtractCompressed(c, name, fault) ==
    LET f == Entry(c, name)
        s == InputOf(c)
        reset == NeedsReset(f, s)
    IN  /\ f.length > 0 /\ f.section = 1 /\ fault \notin {"open", "out"}
        /\ fault \in {"chunk", "control", "table"} => reset
        /\ UnpackFrom(c, name, fault,
               IF reset THEN InitDecomp(c, header[c], f.offset, fault)
               ELSE [h |-> header[c], err |-> "ok", state |-> s.state, at |-> s.inoffset],
               reset)

\* The files the caller has an mschmd_file of: those of the files list, and the one found.
Available(c) ==
    ({found[c]} \ {0})
       \cup IF header[c].entire THEN NamesOf(Listing(c)) \ SystemFiles ELSE {}

Extract(c, name, fault) ==
    /\ \/ ExtractNoInput(c, name, fault)
       \/ ExtractNoOutput(c, name, fault)
       \/ ExtractEmpty(c, name, fault)
       \/ ExtractStored(c, name, fault)
       \/ ExtractCompressed(c, name, fault)
    /\ UNCHANGED found

Next ==
    \E c \in Chms, fault \in Faults :
        \/ \E entire \in BOOLEAN : Open(c, entire, fault)
        \/ fault = "none" /\ Close(c)
        \/ \E name \in Names : FastFind(c, name, fault)
        \/ IsOpen(c) /\ \E name \in Available(c) : Extract(c, name, fault)

Spec == Init /\ [][Next]_vars

-----------------------------------------------------------------------------
(* Properties.                                                               *)

Whole(c) == \A n \in DOMAIN Image[c].chunks :
                Image[c].chunks[n].held = Len(Image[c].chunks[n].entries)

\* What the format promises of a directory. The chunks open reads and those of the index
\* have entries, in the order of their names;
InOrder(c) ==
    \A n \in Listed(c) \cup {n \in DOMAIN Image[c].chunks : Image[c].chunks[n].kind = "PMGI"} :
        LET entries == Image[c].chunks[n].entries
        IN  /\ entries # <<>>
            /\ \A e \in DOMAIN entries : entries[e].name \in Nat
            /\ \A e, f \in DOMAIN entries : e < f => entries[e].name < entries[f].name

\* each chunk of files says which is the next one of them;
IsChained(c) ==
    \A n \in Listed(c) :
        /\ Image[c].chunks[n].next > n
        /\ \A m \in Listed(c) : m > n => Image[c].chunks[n].next <= m

\* and the index is a tree over these chunks, in which a name is under an entry that is not
\* after it, the next one being so.
IsIndexed(c) ==
    LET chunks == Image[c].chunks
        index == {n \in DOMAIN chunks : chunks[n].kind = "PMGI"}
    IN  /\ Image[c].root \in index \cup Listed(c)
        /\ \A n \in index : \A e \in DOMAIN chunks[n].entries :
              chunks[n].entries[e].to \in index \cup Listed(c)
        /\ \E level \in [DOMAIN chunks -> 1 .. Len(chunks)] :
              \A n \in index : \A e \in DOMAIN chunks[n].entries :
                  level[chunks[n].entries[e].to] < level[n]
        /\ \A name \in NamesOf(Listing(c)) : \E under \in SUBSET DOMAIN chunks :
              /\ Image[c].root \in under
              /\ \A n \in under \ index : name \in NamesOf(Files(chunks[n]))
              /\ \A n \in under \cap index : \E e \in DOMAIN chunks[n].entries :
                    /\ chunks[n].entries[e].to \in under
                    /\ chunks[n].entries[e].name <= name
                    /\ e < Len(chunks[n].entries) => name < chunks[n].entries[e + 1].name

Ordered(c) == InOrder(c) /\ IF Image[c].root = 0 THEN IsChained(c) ELSE IsIndexed(c)

\* All helpfiles are so, and have the system files.
WellFormed == \A c \in Chms : Ordered(c) /\ SystemFiles \subseteq NamesOf(Listing(c))

\* fast_find finds a name only if the directory that open reads has it, and in a helpfile
\* that is whole it finds every name that does, whichever chunks are in the cache:
\* chmd_fast_find, search_chunk, mspack.h's fast_find.
FindIsRight ==
    \A c \in Chms, name \in Names \cup SystemFiles :
        IsOpen(c) =>
            LET f == Find(c, header[c], name, "none")
                listed == name \in NamesOf(Listing(c))
            IN  /\ f.hit => listed
                /\ Whole(c) => f.res = "ok" /\ f.hit = listed

\* A file of the directory that is extracted without an error holds the bytes of that file of that
\* helpfile, in whatever order files are extracted, of the same helpfile or of others:
\* chmd_extract, and test/chmd_order.c.
ExtractIsSound ==
    (/\ last.op = "extract" /\ last.res = "ok"
     /\ last.name \in NamesOf(Listing(last.chm))) =>
        LET f == Entry(last.chm, last.name)
        IN  last.file = Bytes(last.chm, f.section, f.offset, f.offset + f.length)

\* Between calls the decoder is one of a helpfile that is still open, and offset and
\* inoffset say what it writes and reads next, whatever else was read of its input:
\* chmd_close, chmd_extract ("save offset in input source stream").
InStep ==
    (d # NULL /\ d.state # NULL) =>
        /\ IsOpen(d.chm) /\ d.infh
        /\ d.state.chm = d.chm /\ ~d.state.failed
        /\ d.offset = d.state.pos /\ d.inoffset = d.state.next

\* A file lies in the stream, and every frame that a new decoder reads for it is intact:
\* those from its reset point, or from the first one if there is no table, to the one in
\* which it ends, or to the next one if it ends with a frame.
Clean(c, name) ==
    LET f == Entry(c, name)
        from == IF Image[c].table = "ok" THEN ResetPoint(c, f.offset) ELSE 0
        end == f.offset + f.length
        to == Min({end \div Frame, Len(Image[c].frames) - 1})
    IN  f.section = 1 =>
            /\ end <= Len(Image[c].frames) * Frame
            /\ \A k \in from .. to : Image[c].frames[k + 1]

\* An extraction may fail although a new decoder would read nothing damaged for the file
\* (Clean), because the decoder at hand meets damage before the file's reset point, or
\* because the reset table cannot be read: tried once more, with nothing else going
\* wrong, it succeeds. A file that ends with a frame, the next frame being damaged, fails
\* at every try. chmd_extract: "the LZX decompressor is now useless".
SecondTrySucceeds ==
    (/\ last.again /\ last.fault = "none"
     /\ Whole(last.chm) /\ Clean(last.chm, last.name)) => last.res = "ok"

=============================================================================
