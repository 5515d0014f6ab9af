----------------------------- MODULE ChmdProofs -----------------------------
(***************************************************************************)
(* The decoder of chmd.c stays in step with its input and with the offset  *)
(* that chmd_sys_write counts, for every helpfile and every order of calls;*)
(* fast_find finds what the directory lists; and an intact file is         *)
(* extracted at the second try at the latest.                              *)
(***************************************************************************)
EXTENDS Chmd, FiniteSetTheorems, WellFoundedInduction, TLAPS

\* What a decompress state must be between calls.
Steady(s) ==
    s.state # NULL =>
       /\ s.infh /\ s.state.chm = s.chm /\ ~s.state.failed
       /\ s.offset = s.state.pos /\ s.inoffset = s.state.next

IsHeader(h) ==
    h = [open |-> h.open, entire |-> h.entire, known |-> h.known, cache |-> h.cache]

\* The inductive invariant: InStep, and that the headers are functions and records whose
\* fields an EXCEPT finds.
IInv ==
    /\ header = [c \in Chms |-> header[c]]
    /\ \A c \in Chms : IsHeader(header[c])
    /\ d # NULL => d.chm \in Chms
    /\ InStep

-----------------------------------------------------------------------------
\* A decoder that does its work without an error is still one of the same stream, and
\* not failed.
LEMMA DecodeKeeps ==
    ASSUME NEW t, NEW at, NEW to, NEW fault, ~t.failed,
           Decode(t, at, to, fault).err = "ok"
    PROVE  LET u == Decode(t, at, to, fault).state IN u.chm = t.chm /\ ~u.failed
BY DEF Decode, LzxState

\* chmd_init_decomp leaves no decoder, or one that is at the start of its input.
LEMMA InitDecompSteady ==
    ASSUME NEW c, NEW h, NEW byte, NEW fault
    PROVE  LET i == InitDecomp(c, h, byte, fault)
           IN  i.err = "ok" \/ i.state # NULL =>
                  i.state.chm = c /\ ~i.state.failed /\ i.state.next = i.at
BY DEF InitDecomp, NewDecoder, LzxState

\* The header it leaves is that of the helpfile, with more of it known.
LEMMA FindSysFileHeader ==
    ASSUME NEW c, NEW s, NEW name, NEW fault, IsHeader(s.h), s.h.open
    PROVE  LET t == FindSysFile(c, s, name, fault) IN IsHeader(t.h) /\ t.h.open
BY DEF FindSysFile, Noted, IsHeader

LEMMA InitDecompHeader ==
    ASSUME NEW c, NEW h, NEW byte, NEW fault, IsHeader(h), h.open
    PROVE  LET i == InitDecomp(c, h, byte, fault) IN IsHeader(i.h) /\ i.h.open
<1> DEFINE start == [h |-> h, err |-> "ok", ok |-> TRUE]
           content == FindSysFile(c, start, Content, fault)
           control == FindSysFile(c, content, Control, "none")
           find == FindSysFile(c, control, ResetTable,
                               IF fault = "table" THEN "chunk" ELSE "none")
           table == ReadResetTable(c, control, byte, fault)
           spanFrom == [table EXCEPT !.ok = TRUE]
           span == FindSysFile(c, spanFrom, SpanInfo, "none")
<1>1. IsHeader(start.h) /\ start.h.open
  OBVIOUS
<1>2. IsHeader(content.h) /\ content.h.open
  BY <1>1, FindSysFileHeader
<1>3. IsHeader(control.h) /\ control.h.open
  <2> HIDE DEF content
  <2> QED  BY <1>2, FindSysFileHeader
<1>4. IsHeader(find.h) /\ find.h.open
  <2> HIDE DEF control
  <2> QED  BY <1>3, FindSysFileHeader
<1>5. table.h = find.h
  <2> HIDE DEF control
  <2> QED  BY DEF ReadResetTable, TableOf
<1>6. IsHeader(table.h) /\ table.h.open
  BY <1>4, <1>5
<1>7. spanFrom.h = table.h
  OBVIOUS
<1>8. IsHeader(span.h) /\ span.h.open
  <2> HIDE DEF table, spanFrom
  <2> QED  BY <1>6, <1>7, FindSysFileHeader
<1>9. InitDecomp(c, h, byte, fault).h \in {control.h, table.h, span.h}
  BY DEF InitDecomp
<1> HIDE DEF control, table, span
<1> QED  BY <1>3, <1>6, <1>8, <1>9

-----------------------------------------------------------------------------
LEMMA InitIInv == Init => IInv
BY DEF Init, IInv, InStep, IsHeader, Closed

\* open and fast_find do not touch the decoder, and close no other helpfile.
LEMMA OpenKeeps ==
    ASSUME IInv, NEW c \in Chms, NEW entire, NEW fault, Open(c, entire, fault)
    PROVE  IInv'
<1> DEFINE listed == IF entire THEN NamesOf(Listing(c)) ELSE {}
           fails == (fault # "none") \/ (entire /\ Corrupt(c) /\ listed = {})
           h == IF fails THEN header[c] ELSE NewHeader(entire, listed)
<1>1. header' = [header EXCEPT ![c] = h] /\ IsHeader(h)
  <2>1. header' = [header EXCEPT ![c] = h]
    BY DEF Open
  <2>2. IsHeader(header[c])
    BY DEF IInv
  <2>3. IsHeader(NewHeader(entire, listed))
    BY DEF IsHeader, NewHeader
  <2> QED  BY <2>1, <2>2, <2>3
<1> HIDE DEF h
<1>2. ~IsOpen(c) /\ d' = d
  BY DEF Open
<1>3. \A x \in Chms : header'[x] = IF x = c THEN h ELSE header[x]
  BY <1>1 DEF IInv
<1> QED  BY <1>1, <1>2, <1>3 DEF IInv, InStep, IsOpen

\* The state of a helpfile that is closed goes with it.
LEMMA CloseKeeps ==
    ASSUME IInv, NEW c \in Chms, Close(c)
    PROVE  IInv'
<1>1. IsHeader(Closed)
  BY DEF IsHeader, Closed
<1>2. \A x \in Chms : header'[x] = IF x = c THEN Closed ELSE header[x]
  BY DEF IInv, Close
<1>3. header' = [x \in Chms |-> header'[x]]
  BY DEF IInv, Close
<1>4. d' = NULL \/ (d' = d /\ d.chm # c)
  BY DEF Close, CloseState
<1> QED  BY <1>1, <1>2, <1>3, <1>4 DEF IInv, InStep, IsOpen

LEMMA FindKeeps ==
    ASSUME IInv, NEW c \in Chms, NEW name, NEW fault, FastFind(c, name, fault)
    PROVE  IInv'
<1>1. d' = d
  BY DEF FastFind
<1>2. header' = header \/ \E cache : header' = [header EXCEPT ![c].cache = cache]
  BY DEF FastFind
<1>3. CASE header' = header
  BY <1>1, <1>3 DEF IInv, InStep, IsOpen
<1>4. ASSUME NEW cache, header' = [header EXCEPT ![c].cache = cache]
      PROVE  IInv'
  <2>1. IsHeader([header[c] EXCEPT !.cache = cache])
        /\ [header[c] EXCEPT !.cache = cache].open = header[c].open
    BY DEF IInv, IsHeader
  <2>2. \A x \in Chms : IsHeader(header'[x]) /\ header'[x].open = header[x].open
    BY <1>4, <2>1 DEF IInv
  <2>3. header' = [x \in Chms |-> header'[x]]
    BY <1>4 DEF IInv
  <2> QED  BY <1>1, <2>2, <2>3 DEF IInv, InStep, IsOpen
<1> QED  BY <1>2, <1>3, <1>4

-----------------------------------------------------------------------------
\* A state that is steady for an open helpfile is all that extract must leave.
LEMMA SteadyKeeps ==
    ASSUME IInv, NEW c \in Chms, IsOpen(c), NEW h, IsHeader(h), h.open,
           header' = header \/ header' = [header EXCEPT ![c] = h],
           d'.chm = c, Steady(d')
    PROVE  IInv'
<1>1. \A x \in Chms : IsHeader(header'[x]) /\ (header[x].open => header'[x].open)
  BY DEF IInv
<1>2. header' = [x \in Chms |-> header'[x]]
  BY DEF IInv
<1> QED  BY <1>1, <1>2 DEF IInv, InStep, IsOpen, Steady

LEMMA InputOfSteady ==
    ASSUME IInv, NEW c \in Chms
    PROVE  InputOf(c).chm = c /\ InputOf(c).infh /\ Steady(InputOf(c))
BY DEF IInv, InStep, InputOf, HasInput, NoDecoder, State, Steady

LEMMA AfterDecodingSteady ==
    ASSUME NEW c \in Chms, NEW t, NEW err, err = "ok" => t.chm = c /\ ~t.failed
    PROVE  AfterDecoding(c, t, err).chm = c /\ Steady(AfterDecoding(c, t, err))
BY DEF AfterDecoding, State, NoDecoder, Steady

LEMMA CompressedKeeps ==
    ASSUME IInv, NEW c \in Chms, IsOpen(c), NEW name, NEW fault,
           ExtractCompressed(c, name, fault)
    PROVE  IInv'
<1> DEFINE f == Entry(c, name)
           end == f.offset + f.length
           s == InputOf(c)
           new == InitDecomp(c, header[c], f.offset, fault)
           init == IF NeedsReset(f, s) THEN new
                   ELSE [h |-> header[c], err |-> "ok", state |-> s.state, at |-> s.inoffset]
           begun == IF init.state = NULL THEN NoDecoder(c, TRUE)
                    ELSE State(c, TRUE, IF NeedsReset(f, s) THEN init.state.pos ELSE s.offset,
                               init.state, init.at)
           skip == Decode(begun.state, begun.inoffset, f.offset, fault)
           at == IF skip.state.next = begun.state.next THEN begun.inoffset ELSE skip.state.next
           unpack == Decode(skip.state, at, end, fault)
<1>1. header' = [header EXCEPT ![c] = init.h]
  BY DEF ExtractCompressed, UnpackFrom, Unpack, Begun
<1>2. \/ d' = begun
      \/ skip.err # "ok" /\ d' = AfterDecoding(c, skip.state, skip.err)
      \/ d' = AfterDecoding(c, skip.state, "write")
      \/ init.err = "ok" /\ skip.err = "ok" /\ d' = AfterDecoding(c, unpack.state, unpack.err)
  BY DEF ExtractCompressed, UnpackFrom, Unpack, Begun
<1>3. IsHeader(init.h) /\ init.h.open
  <2>1. IsHeader(header[c]) /\ header[c].open
    BY DEF IInv, IsOpen
  <2>2. IsHeader(new.h) /\ new.h.open
    BY <2>1, InitDecompHeader
  <2> QED  BY <2>1, <2>2
<1>4. begun.chm = c /\ Steady(begun)
  <2>1. CASE NeedsReset(f, s)
    BY <2>1, InitDecompSteady DEF NoDecoder, State, Steady
  <2>2. CASE ~NeedsReset(f, s)
    BY <2>2, InputOfSteady DEF NoDecoder, State, Steady
  <2> QED  BY <2>1, <2>2
<1>5. init.err = "ok" => begun.state.chm = c /\ ~begun.state.failed
  <2>1. begun.state = init.state
    BY DEF NoDecoder, State
  <2>2. CASE NeedsReset(f, s)
    <3>1. new.err = "ok" => new.state.chm = c /\ ~new.state.failed
      BY InitDecompSteady
    <3>2. init = new
      BY <2>2
    <3> HIDE DEF begun, init, new
    <3> QED  BY <2>1, <3>1, <3>2
  <2>3. CASE ~NeedsReset(f, s)
    <3>1. init.state = s.state /\ s.state # NULL
      BY <2>3 DEF NeedsReset
    <3>2. s.state.chm = c /\ ~s.state.failed
      <4> HIDE DEF s
      <4> QED  BY <3>1, InputOfSteady DEF Steady, s
    <3> QED  BY <2>1, <3>1, <3>2
  <2> QED  BY <2>2, <2>3
<1>6. init.err = "ok" /\ skip.err = "ok" => skip.state.chm = c /\ ~skip.state.failed
  <2> HIDE DEF begun, init
  <2> QED  BY <1>5, DecodeKeeps
<1>7. init.err = "ok" /\ skip.err = "ok" /\ unpack.err = "ok"
         => unpack.state.chm = c /\ ~unpack.state.failed
  <2> HIDE DEF skip, at, init
  <2> QED  BY <1>6, DecodeKeeps
<1>8. d'.chm = c /\ Steady(d')
  <2> HIDE DEF begun, init, skip, unpack
  <2>1. CASE d' = begun
    BY <1>4, <2>1
  <2>2. CASE skip.err # "ok" /\ d' = AfterDecoding(c, skip.state, skip.err)
    BY <2>2, AfterDecodingSteady
  <2>3. CASE d' = AfterDecoding(c, skip.state, "write")
    BY <2>3, AfterDecodingSteady
  <2>4. CASE /\ init.err = "ok" /\ skip.err = "ok"
             /\ d' = AfterDecoding(c, unpack.state, unpack.err)
    BY <1>7, <2>4, AfterDecodingSteady
  <2> QED  BY <1>2, <2>1, <2>2, <2>3, <2>4
<1> HIDE DEF init
<1> QED  BY <1>1, <1>3, <1>8, SteadyKeeps

LEMMA ExtractKeeps ==
    ASSUME IInv, NEW c \in Chms, IsOpen(c), NEW name, NEW fault, Extract(c, name, fault)
    PROVE  IInv'
<1>1. IsHeader(header[c]) /\ header[c].open
  BY DEF IInv, IsOpen
<1>2. CASE ExtractCompressed(c, name, fault)
  BY <1>2, CompressedKeeps
<1>3. CASE ExtractNoInput(c, name, fault)
  <2>1. header' = header /\ d'.chm = c /\ Steady(d')
    BY <1>3 DEF ExtractNoInput, NoDecoder, State, Steady
  <2> QED  BY <1>1, <2>1, SteadyKeeps
<1>4. CASE \/ ExtractNoOutput(c, name, fault) \/ ExtractEmpty(c, name, fault)
           \/ ExtractStored(c, name, fault)
  <2>1. header' = header /\ d' = InputOf(c)
    BY <1>4 DEF ExtractNoOutput, ExtractEmpty, ExtractStored
  <2> QED  BY <1>1, <2>1, InputOfSteady, SteadyKeeps
<1> QED  BY <1>2, <1>3, <1>4 DEF Extract

LEMMA StutterKeeps == IInv /\ UNCHANGED vars => IInv'
BY DEF vars, IInv, InStep, IsOpen

LEMMA NextIInv == IInv /\ [Next]_vars => IInv'
<1> SUFFICES ASSUME IInv, [Next]_vars
             PROVE  IInv'
  OBVIOUS
<1>1. CASE UNCHANGED vars
  BY <1>1, StutterKeeps
<1>2. CASE Next
  <2>1. PICK c \in Chms, fault \in Faults :
           \/ \E entire \in BOOLEAN : Open(c, entire, fault)
           \/ Close(c)
           \/ \E name \in Names : FastFind(c, name, fault)
           \/ IsOpen(c) /\ \E name \in Available(c) : Extract(c, name, fault)
    BY <1>2 DEF Next
  <2> QED  BY <2>1, OpenKeeps, CloseKeeps, FindKeeps, ExtractKeeps
<1> QED  BY <1>1, <1>2

\* InStep: between calls the decoder is one of an open helpfile, and offset and inoffset
\* are what it writes and reads next. A decoder that outlived its helpfile, or that was
\* resumed at another place of its input, would extract other bytes without an error.
THEOREM DecoderInStep == Spec => []InStep
<1>1. IInv => InStep
  BY DEF IInv
<1> QED  BY InitIInv, NextIInv, <1>1, PTL DEF Spec

-----------------------------------------------------------------------------
\* A decoder that does its work without an error has handed out all that was asked for.
LEMMA DecodeReaches ==
    ASSUME NEW t, NEW at, NEW to, NEW fault, Decode(t, at, to, fault).err = "ok"
    PROVE  Decode(t, at, to, fault).state.pos = to
BY DEF Decode, LzxState

LEMMA EntryTyped ==
    ASSUME NEW c \in Chms, NEW name \in NamesOf(Listing(c))
    PROVE  /\ Entry(c, name).section \in {0, 1}
           /\ Entry(c, name).offset \in Nat /\ Entry(c, name).length \in Nat
<1>1. Entry(c, name) \in Listing(c)
  BY DEF Entry, NamesOf
<1>2. PICK n \in Listed(c) : Entry(c, name) \in Files(Image[c].chunks[n])
  BY <1>1 DEF Listing
<1>3. n \in DOMAIN Image[c].chunks /\ Image[c].chunks[n].kind = "PMGL"
  BY <1>2, ImageAssumption DEF Listed
<1>4. PICK e \in 1 .. Image[c].chunks[n].held : Entry(c, name) = Image[c].chunks[n].entries[e]
  BY <1>2 DEF Files
<1>5. e \in DOMAIN Image[c].chunks[n].entries
  BY <1>3, <1>4, ImageAssumption
<1> QED  BY <1>3, <1>4, <1>5, ImageAssumption

\* The bytes of a file: where those of a request for its length begin and end.
LEMMA BytesOfRequest ==
    ASSUME NEW c, NEW section, NEW offset \in Nat, NEW length \in Nat, NEW from, NEW to,
           from = offset, to = offset + length
    PROVE  Bytes(c, section, from, to) = Bytes(c, section, offset, offset + length)
OBVIOUS

LEMMA ExtractedSound ==
    ASSUME NEW c, NEW name, NEW fault, NEW res, NEW file,
           Extracted(c, name, fault, res, file),
           (res = "ok" /\ name \in NamesOf(Listing(c))) =>
              LET f == Entry(c, name)
              IN  file = Bytes(c, f.section, f.offset, f.offset + f.length)
    PROVE  ExtractIsSound'
<1>1. last'.chm = c /\ last'.name = name /\ last'.res = res /\ last'.file = file
  BY DEF Extracted
<1> QED  BY <1>1 DEF ExtractIsSound

LEMMA EmptySound ==
    ASSUME NEW c \in Chms, NEW name, NEW fault, ExtractEmpty(c, name, fault)
    PROVE  ExtractIsSound'
<1>1. ASSUME name \in NamesOf(Listing(c))
      PROVE  LET f == Entry(c, name)
             IN  <<>> = Bytes(c, f.section, f.offset, f.offset + f.length)
  BY <1>1, EntryTyped DEF ExtractEmpty, Bytes
<1> QED  BY <1>1, ExtractedSound DEF ExtractEmpty

LEMMA StoredSound ==
    ASSUME NEW c \in Chms, NEW name, NEW fault, ExtractStored(c, name, fault)
    PROVE  ExtractIsSound'
<1> DEFINE f == Entry(c, name)
           res == IF fault = "none" THEN "ok" ELSE fault
           file == IF fault = "none" THEN Bytes(c, 0, f.offset, f.offset + f.length) ELSE <<>>
<1>1. /\ Extracted(c, name, fault, res, file)
      /\ f.section = 0 /\ fault \in {"none", "seek", "read", "write"}
  BY DEF ExtractStored
<1>2. res = "ok" => file = Bytes(c, f.section, f.offset, f.offset + f.length)
  BY <1>1
<1> QED  BY <1>1, <1>2, ExtractedSound

LEMMA CompressedSound ==
    ASSUME IInv, NEW c \in Chms, NEW name, NEW fault, ExtractCompressed(c, name, fault)
    PROVE  ExtractIsSound'
<1> DEFINE f == Entry(c, name)
           end == f.offset + f.length
           s == InputOf(c)
           new == InitDecomp(c, header[c], f.offset, fault)
           init == IF NeedsReset(f, s) THEN new
                   ELSE [h |-> header[c], err |-> "ok", state |-> s.state, at |-> s.inoffset]
           begun == IF init.state = NULL THEN NoDecoder(c, TRUE)
                    ELSE State(c, TRUE, IF NeedsReset(f, s) THEN init.state.pos ELSE s.offset,
                               init.state, init.at)
           skip == Decode(begun.state, begun.inoffset, f.offset, fault)
           at == IF skip.state.next = begun.state.next THEN begun.inoffset ELSE skip.state.next
           unpack == Decode(skip.state, at, end, fault)
           written == Bytes(skip.state.chm, 1, skip.state.pos, unpack.state.pos)
<1>1. f.section = 1
      /\ \/ \E res : res # "ok" /\ Extracted(c, name, fault, res, <<>>)
         \/ /\ init.err = "ok" /\ skip.err = "ok"
            /\ Extracted(c, name, fault, unpack.err, written)
  BY DEF ExtractCompressed, UnpackFrom, Unpack, Begun
<1>2. init.err = "ok" => begun.state.chm = c /\ ~begun.state.failed
  <2>1. begun.state = init.state
    BY DEF NoDecoder, State
  <2>2. CASE NeedsReset(f, s)
    <3>1. new.err = "ok" => new.state.chm = c /\ ~new.state.failed
      BY InitDecompSteady
    <3>2. init = new
      BY <2>2
    <3> HIDE DEF begun, init, new
    <3> QED  BY <2>1, <3>1, <3>2
  <2>3. CASE ~NeedsReset(f, s)
    <3>1. init.state = s.state /\ s.state # NULL
      BY <2>3 DEF NeedsReset
    <3>2. s.state.chm = c /\ ~s.state.failed
      <4> HIDE DEF s
      <4> QED  BY <3>1, InputOfSteady DEF Steady, s
    <3> QED  BY <2>1, <3>1, <3>2
  <2> QED  BY <2>2, <2>3
<1>3. init.err = "ok" /\ skip.err = "ok" => skip.state.chm = c /\ skip.state.pos = f.offset
  <2> HIDE DEF begun, init
  <2> QED  BY <1>2, DecodeKeeps, DecodeReaches
<1>4. unpack.err = "ok" => unpack.state.pos = end
  <2> HIDE DEF skip, at
  <2> QED  BY DecodeReaches
<1>5. CASE \E res : res # "ok" /\ Extracted(c, name, fault, res, <<>>)
  BY <1>5, ExtractedSound
<1>6. CASE /\ init.err = "ok" /\ skip.err = "ok"
           /\ Extracted(c, name, fault, unpack.err, written)
  <2>1. ASSUME unpack.err = "ok", name \in NamesOf(Listing(c))
        PROVE  written = Bytes(c, f.section, f.offset, f.offset + f.length)
    <3>1. f.offset \in Nat /\ f.length \in Nat
      BY <2>1, EntryTyped
    <3>2. skip.state.chm = c /\ skip.state.pos = f.offset /\ unpack.state.pos = end
      BY <1>3, <1>4, <1>6, <2>1
    <3> HIDE DEF init, skip, unpack
    <3> QED  BY <1>1, <3>1, <3>2
  <2> HIDE DEF init, skip, unpack, written
  <2> QED  BY <1>6, <2>1, ExtractedSound
<1> QED  BY <1>1, <1>5, <1>6

\* A call that is not extract leaves nothing to be wrong.
LEMMA OthersSound == last' = Nothing => ExtractIsSound'
BY DEF Nothing, ExtractIsSound

\* ExtractIsSound: in whatever order files of the open helpfiles are extracted, and
\* whatever failed before, one that is extracted without an error holds its own bytes.
THEOREM ExtractSound == Spec => []ExtractIsSound
<1>1. Init => ExtractIsSound
  BY DEF Init, Nothing, ExtractIsSound
<1>2. IInv /\ ExtractIsSound /\ [Next]_vars => ExtractIsSound'
  <2> SUFFICES ASSUME IInv, ExtractIsSound, [Next]_vars
               PROVE  ExtractIsSound'
    OBVIOUS
  <2>1. CASE UNCHANGED vars
    <3>1. last' = last
      BY <2>1 DEF vars
    <3> QED  BY <3>1 DEF ExtractIsSound
  <2>2. CASE Next
    <3>1. PICK c \in Chms, fault \in Faults :
             \/ \E entire \in BOOLEAN : Open(c, entire, fault)
             \/ Close(c)
             \/ \E name \in Names : FastFind(c, name, fault)
             \/ \E name : Extract(c, name, fault)
      BY <2>2 DEF Next
    <3>2. CASE \E entire \in BOOLEAN : Open(c, entire, fault)
      BY <3>2, OthersSound DEF Open
    <3>3. CASE Close(c)
      BY <3>3, OthersSound DEF Close
    <3>4. CASE \E name \in Names : FastFind(c, name, fault)
      BY <3>4, OthersSound DEF FastFind
    <3>5. ASSUME NEW name, Extract(c, name, fault)
          PROVE  ExtractIsSound'
      <4>1. CASE ExtractNoInput(c, name, fault) \/ ExtractNoOutput(c, name, fault)
        <5>1. Extracted(c, name, fault, "open", NULL)
          BY <4>1 DEF ExtractNoInput, ExtractNoOutput
        <5> QED  BY <5>1, ExtractedSound
      <4> QED  BY <3>5, <4>1, EmptySound, StoredSound, CompressedSound DEF Extract
    <3> QED  BY <3>1, <3>2, <3>3, <3>4, <3>5
  <2> QED  BY <2>1, <2>2
<1>3. IInv /\ [Next]_vars => IInv'
  BY NextIInv
<1> QED  BY InitIInv, <1>1, <1>2, <1>3, PTL DEF Spec

-----------------------------------------------------------------------------
(* Induction over the natural numbers, told with sets of numbers instead of *)
(* predicates, and what it says of functions defined by recursion.           *)

\* A set of natural numbers that is not empty has a least element.
LEMMA LeastNumber ==
    ASSUME NEW T, T \subseteq Nat, T # {}
    PROVE  \E n \in T : \A m \in T : n <= m
<1> DEFINE R == OpToRel(<, Nat)
<1>1. PICK n \in T : \A m \in T : ~(<<m, n>> \in R)
  <2>1. IsWellFoundedOn(R, Nat)
    BY NatLessThanWellFounded
  <2> HIDE DEF R
  <2> QED BY <2>1, WFMin
<1>2. \A m, k \in Nat : m < k => <<m, k>> \in R
  BY DEF OpToRel
<1> HIDE DEF R
<1>3. ASSUME NEW m \in T PROVE n <= m
  <2>1. m \in Nat /\ n \in Nat
    OBVIOUS
  <2>2. ~(m < n)
    BY <1>1, <1>2, <2>1
  <2> QED BY <2>1, <2>2
<1> QED BY <1>3

\* Induction from n to n + 1.
LEMMA Induct ==
    ASSUME NEW S, 0 \in S, \A n \in Nat : n \in S => n + 1 \in S
    PROVE  \A n \in Nat : n \in S
<1> SUFFICES ASSUME NEW x \in Nat, x \notin S PROVE FALSE
  OBVIOUS
<1> DEFINE T == {n \in Nat : n \notin S}
<1>1. PICK n \in T : \A m \in T : n <= m
  BY LeastNumber
<1>2. n # 0 /\ n - 1 \in Nat
  OBVIOUS
<1> QED BY <1>1, <1>2

\* The functions whose value at 0 is start and that go on with the nth step to n.
Iterates(A, start, step, N) ==
    {f \in [0 .. N -> A] : f[0] = start /\ \A n \in 1 .. N : f[n] = step[n][f[n - 1]]}

\* What is defined step by step exists.
LEMMA IterateExists ==
    ASSUME NEW A, NEW start \in A, NEW step \in [Nat -> [A -> A]]
    PROVE  \A N \in Nat : Iterates(A, start, step, N) # {}
<1> DEFINE S == {N \in Nat : Iterates(A, start, step, N) # {}}
<1>1. 0 \in S
  <2>1. [n \in 0 .. 0 |-> start] \in Iterates(A, start, step, 0)
    BY DEF Iterates
  <2> QED BY <2>1
<1>2. ASSUME NEW N \in Nat, N \in S PROVE N + 1 \in S
  <2>1. PICK f \in [0 .. N -> A] : f[0] = start /\ \A n \in 1 .. N : f[n] = step[n][f[n - 1]]
    BY <1>2 DEF Iterates
  <2> DEFINE g == [n \in 0 .. N + 1 |-> IF n = N + 1 THEN step[n][f[N]] ELSE f[n]]
  <2>2. g \in [0 .. N + 1 -> A]
    OBVIOUS
  <2>3. g[0] = start
    BY <2>1
  <2>4. ASSUME NEW n \in 1 .. N + 1 PROVE g[n] = step[n][g[n - 1]]
    BY <2>1
  <2> HIDE DEF g
  <2>5. g \in Iterates(A, start, step, N + 1)
    BY <2>2, <2>3, <2>4 DEF Iterates
  <2> QED BY <2>5
<1> HIDE DEF S
<1>3. \A N \in Nat : N \in S
  BY <1>1, <1>2, Induct
<1> QED BY <1>3 DEF S

\* Quotient and remainder.
LEMMA DivMod ==
    ASSUME NEW n \in Nat, NEW k \in Nat \ {0}
    PROVE  /\ n \div k \in Nat /\ n % k \in 0 .. k - 1
           /\ n = k * (n \div k) + (n % k)
  OBVIOUS

-----------------------------------------------------------------------------
(* search_chunk.                                                             *)

IsChunk(chunk) ==
    /\ Len(chunk.entries) \in Nat \ {0}
    /\ DOMAIN chunk.entries = 1 .. Len(chunk.entries)
    /\ chunk.held \in 0 .. Len(chunk.entries)

\* A chunk that is all there, its entries in the order of their names.
IsSound(chunk) ==
    /\ chunk.held = Len(chunk.entries)
    /\ \A e \in 1 .. Len(chunk.entries) : chunk.entries[e].name \in Nat
    /\ \A e, f \in 1 .. Len(chunk.entries) :
          e < f => chunk.entries[e].name < chunk.entries[f].name

Groups(chunk, density) == (Len(chunk.entries) + density - 1) \div density
FirstIn(density, m) == m * density + 1

\* The groups make up the chunk, but for what the last one is short of.
LEMMA HeadsAre ==
    ASSUME NEW chunk, IsChunk(chunk), NEW density \in Nat \ {0}
    PROVE  LET g == Groups(chunk, density)
           IN  /\ g \in Nat \ {0} /\ FirstIn(density, 0) = 1
               /\ \A m \in 0 .. g - 1 : FirstIn(density, m) \in 1 .. Len(chunk.entries)
               /\ \A m \in Nat : FirstIn(density, m + 1) = FirstIn(density, m) + density
               /\ FirstIn(density, g - 1) + density > Len(chunk.entries)
<1> DEFINE n == Len(chunk.entries)
           g == Groups(chunk, density)
           x == n + density - 1
<1>1. n \in Nat \ {0} /\ x \in Nat
  BY DEF IsChunk
<1>2. g \in Nat /\ x % density \in 0 .. density - 1 /\ x = density * g + (x % density)
  BY <1>1, DivMod DEF Groups
<1> HIDE DEF g
<1>3. PICK p : p = density * g
  OBVIOUS
<1>4. p \in Nat /\ n <= p /\ p <= n + density - 1
  <2>1. PICK r : r = x % density
    OBVIOUS
  <2>2. r \in 0 .. density - 1 /\ x = p + r
    BY <1>2, <1>3, <2>1, Zenon
  <2>3. p \in Nat
    BY <1>2, <1>3
  <2> QED BY <1>1, <2>2, <2>3
<1>5. g # 0
  BY <1>1, <1>3, <1>4
<1>6. \A m \in Nat : (m + 1) * density = m * density + density
  OBVIOUS
<1>7. (g - 1) * density + density = p
  <2>1. g - 1 \in Nat /\ (g - 1) + 1 = g /\ density * g = g * density
    BY <1>2, <1>5
  <2> QED BY <1>3, <1>6, <2>1
<1>8. ASSUME NEW m \in 0 .. g - 1 PROVE m * density \in Nat /\ m * density <= (g - 1) * density
  BY <1>2, <1>5
<1>9. (g - 1) * density \in Nat
  BY <1>2, <1>5
<1>10. \A m \in 0 .. g - 1 : FirstIn(density, m) \in 1 .. n
  BY <1>1, <1>4, <1>7, <1>8, <1>9 DEF FirstIn
<1>11. FirstIn(density, g - 1) + density > n
  BY <1>1, <1>4, <1>7, <1>9 DEF FirstIn
<1>12. \A m \in Nat : FirstIn(density, m + 1) = FirstIn(density, m) + density
  <2>1. \A m \in Nat : m * density \in Nat
    OBVIOUS
  <2> QED BY <1>6, <2>1 DEF FirstIn
<1>13. FirstIn(density, 0) = 1
  BY DEF FirstIn
<1> QED BY <1>2, <1>5, <1>10, <1>11, <1>12, <1>13 DEF g

\* The bounds of the search, and what they mean in a chunk that is sound: the name is after
\* the heads before L and before those after R, or one of both.
AllBounds(chunk, g) ==
    {Bounds(L, R, at) : L \in 0 .. g, R \in 0 .. g - 1,
                        at \in {Searching, NotThere, BadChunk} \cup 1 .. Len(chunk.entries)}

\* In the group that begins with entry e a name is, if it is in the chunk.
IsStart(chunk, density, name, e) ==
    /\ chunk.entries[e].name <= name
    /\ e + density <= Len(chunk.entries) => name < chunk.entries[e + density].name

Encloses(chunk, density, g, name, b) ==
    /\ b.at # BadChunk
    /\ b.at = Searching =>
          /\ b.L # 0 => chunk.entries[FirstIn(density, b.L - 1)].name < name
          /\ b.R # g - 1 => name < chunk.entries[FirstIn(density, b.R + 1)].name
    /\ b.at = NotThere => name < chunk.entries[1].name
    /\ b.at > 0 => IsStart(chunk, density, name, b.at)

GoodBounds(chunk, density, g, name) ==
    {b \in AllBounds(chunk, g) :
        /\ b.at = Searching => b.L <= b.R + 1
        /\ IsSound(chunk) => Encloses(chunk, density, g, name, b)}

LEMMA BoundsAre ==
    ASSUME NEW L, NEW R, NEW at
    PROVE  LET b == Bounds(L, R, at) IN b.L = L /\ b.R = R /\ b.at = at
BY DEF Bounds

\* A turn of the search keeps the bounds good, and narrows them until it ends it.
LEMMA HalvedIs ==
    ASSUME NEW chunk, IsChunk(chunk), NEW density \in Nat \ {0}, NEW name \in Nat,
           NEW b \in GoodBounds(chunk, density, Groups(chunk, density), name)
    PROVE  LET g == Groups(chunk, density)
               t == Halved(chunk, density, name, b)
           IN  /\ t \in GoodBounds(chunk, density, g, name)
               /\ b.at # Searching => t.at # Searching
               /\ b.at = Searching /\ b.R < b.L => t.at # Searching
               /\ t.at = Searching => t.R - t.L < b.R - b.L
<1> DEFINE g == Groups(chunk, density)
           n == Len(chunk.entries)
           t == Halved(chunk, density, name, b)
           M == (b.L + b.R) \div 2
           head == FirstIn(density, M)
           S == {Searching, NotThere, BadChunk} \cup 1 .. n
           E(e) == chunk.entries[e].name
<1>1. /\ g \in Nat \ {0} /\ FirstIn(density, 0) = 1
      /\ \A m \in 0 .. g - 1 : FirstIn(density, m) \in 1 .. n
      /\ \A m \in Nat : FirstIn(density, m + 1) = FirstIn(density, m) + density
      /\ FirstIn(density, g - 1) + density > n
  BY HeadsAre
<1> HIDE DEF g
<1>2. /\ b \in AllBounds(chunk, g) /\ (b.at = Searching => b.L <= b.R + 1)
      /\ IsSound(chunk) => Encloses(chunk, density, g, name, b)
  BY DEF GoodBounds, g
<1>3. /\ b.L \in 0 .. g /\ b.R \in 0 .. g - 1 /\ b.at \in S
  BY <1>2, BoundsAre DEF AllBounds
<1>4. CASE b.at # Searching
  <2>1. t = b
    BY <1>4 DEF Halved
  <2> QED BY <1>4, <2>1 DEF g
<1>5. CASE b.at = Searching
  <2>1. PICK L, R : L = b.L /\ R = b.R
    OBVIOUS
  <2>2. /\ L \in 0 .. g /\ R \in 0 .. g - 1 /\ L <= R + 1
    BY <1>2, <1>3, <1>5, <2>1
  <2>13. /\ g \in Nat /\ L \in Nat /\ R \in Nat /\ L <= R + 1 /\ R <= g - 1
         /\ M = (L + R) \div 2
    <3>1. /\ g \in Nat /\ L \in Nat /\ R \in Nat /\ L <= R + 1 /\ R <= g - 1
      BY <1>1, <2>2
    <3>2. M = (L + R) \div 2
      BY <2>1
    <3> QED BY <3>1, <3>2
  <2>14. t = IF L > R THEN Bounds(L, R, head)
             ELSE IF head > chunk.held THEN Bounds(L, R, BadChunk)
             ELSE IF name = E(head) THEN Bounds(L, R, head)
             ELSE IF name > E(head) THEN Bounds(M + 1, R, Searching)
             ELSE IF M = 0 THEN Bounds(L, R, NotThere)
             ELSE Bounds(L, M - 1, Searching)
    BY <1>5, <2>1 DEF Halved, FirstIn
  <2>3. M \in Nat /\ (R < L => M = R) /\ (L <= R => L <= M /\ M <= R) /\ M \in 0 .. g - 1
    <3>1. PICK m : m = M
      OBVIOUS
    <3>2. m = (L + R) \div 2
      BY <2>13, <3>1
    <3>3. m \in Nat /\ (R < L => m = R) /\ (L <= R => L <= m /\ m <= R) /\ m <= g - 1
      BY <2>13, <3>2
    <3> QED BY <2>13, <3>1, <3>3
  <2>4. head \in 1 .. n /\ head = M * density + 1
    BY <1>1, <2>3 DEF FirstIn
  <2>5. IsSound(chunk) => /\ L # 0 => E(FirstIn(density, L - 1)) < name
                          /\ R # g - 1 => name < E(FirstIn(density, R + 1))
    BY <1>2, <1>5, <2>1 DEF Encloses
  <2>6. n \in Nat /\ (IsSound(chunk) => chunk.held = n /\ \A e \in 1 .. n : E(e) \in Nat)
    BY DEF IsChunk, IsSound
  <2> HIDE DEF M, head
  <2>7. CASE R < L
    <3>1. t = Bounds(L, R, head)
      BY <2>13, <2>14, <2>7
    <3>2. t.L = L /\ t.R = R /\ t.at = head
      BY <3>1, BoundsAre
    <3>3. t \in AllBounds(chunk, g)
      BY <2>2, <2>4, <3>1 DEF AllBounds
    <3>4. head # Searching /\ head # NotThere /\ head # BadChunk
      BY <2>4 DEF Searching, NotThere, BadChunk
    <3>5. ASSUME IsSound(chunk) PROVE IsStart(chunk, density, name, head)
      <4>1. M = R /\ L - 1 = R /\ L # 0
        BY <2>2, <2>3, <2>7
      <4>2. E(head) < name
        BY <2>5, <3>5, <4>1 DEF head
      <4>3. E(head) <= name
        BY <2>4, <2>6, <3>5, <4>2
      <4>4. CASE R = g - 1
        <5>1. head + density > n
          BY <1>1, <4>1, <4>4 DEF head
        <5>2. head \in Nat /\ density \in Nat
          BY <2>4
        <5> QED BY <2>6, <4>3, <5>1, <5>2 DEF IsStart
      <4>5. CASE R # g - 1
        <5>1. name < E(FirstIn(density, R + 1)) /\ FirstIn(density, R + 1) = head + density
          BY <1>1, <2>2, <2>5, <3>5, <4>1, <4>5 DEF head
        <5> QED BY <4>3, <5>1 DEF IsStart
      <4> QED BY <4>4, <4>5
    <3>6. IsSound(chunk) => Encloses(chunk, density, g, name, t)
      BY <3>2, <3>4, <3>5 DEF Encloses
    <3> QED BY <2>1, <2>7, <3>2, <3>3, <3>4, <3>6 DEF GoodBounds, g
  <2>8. CASE L <= R /\ head > chunk.held
    <3>1. t = Bounds(L, R, BadChunk)
      BY <2>13, <2>14, <2>8
    <3>2. t.L = L /\ t.R = R /\ t.at = BadChunk
      BY <3>1, BoundsAre
    <3>3. t \in AllBounds(chunk, g)
      BY <2>2, <3>1 DEF AllBounds
    <3>4. BadChunk # Searching
      BY DEF Searching, BadChunk
    <3>5. ~IsSound(chunk)
      BY <2>4, <2>6, <2>8
    <3> QED BY <2>1, <2>2, <2>8, <3>2, <3>3, <3>4, <3>5 DEF GoodBounds, g
  <2>9. CASE L <= R /\ ~(head > chunk.held) /\ name = E(head)
    <3>1. t = Bounds(L, R, head)
      BY <2>13, <2>14, <2>9
    <3>2. t.L = L /\ t.R = R /\ t.at = head
      BY <3>1, BoundsAre
    <3>3. t \in AllBounds(chunk, g)
      BY <2>2, <2>4, <3>1 DEF AllBounds
    <3>4. head # Searching /\ head # NotThere /\ head # BadChunk
      BY <2>4 DEF Searching, NotThere, BadChunk
    <3>5. ASSUME IsSound(chunk) PROVE IsStart(chunk, density, name, head)
      <4>1. head < head + density /\ (head + density <= n => head + density \in 1 .. n)
        BY <2>4, <2>6
      <4>2. E(head) <= name
        BY <2>9
      <4>3. head + density <= n => name < E(head + density)
        BY <2>4, <2>9, <3>5, <4>1 DEF IsSound
      <4> QED BY <4>2, <4>3 DEF IsStart
    <3>6. IsSound(chunk) => Encloses(chunk, density, g, name, t)
      BY <3>2, <3>4, <3>5 DEF Encloses
    <3> QED BY <2>1, <2>2, <2>9, <3>2, <3>3, <3>4, <3>6 DEF GoodBounds, g
  <2>10. CASE L <= R /\ ~(head > chunk.held) /\ name # E(head) /\ name > E(head)
    <3>1. t = Bounds(M + 1, R, Searching)
      BY <2>13, <2>14, <2>10
    <3>2. t.L = M + 1 /\ t.R = R /\ t.at = Searching
      BY <3>1, BoundsAre
    <3>3. t \in AllBounds(chunk, g) /\ M + 1 <= R + 1 /\ R - (M + 1) < R - L /\ (M + 1) - 1 = M
      <4>0. L <= M /\ M <= R /\ M \in Nat
        BY <2>3, <2>10
      <4>1. M + 1 \in 0 .. g /\ M + 1 <= R + 1 /\ R - (M + 1) < R - L /\ (M + 1) - 1 = M
        BY <2>13, <4>0
      <4> QED BY <2>2, <3>1, <4>1 DEF AllBounds
    <3>4. Searching # BadChunk /\ Searching # NotThere /\ ~(Searching > 0)
      BY DEF Searching, NotThere, BadChunk
    <3>5. IsSound(chunk) => E(head) < name
      BY <2>4, <2>6, <2>10
    <3>6. IsSound(chunk) => Encloses(chunk, density, g, name, t)
      BY <2>5, <3>2, <3>3, <3>4, <3>5 DEF Encloses, head
    <3> QED BY <1>5, <2>1, <2>2, <2>10, <3>2, <3>3, <3>6 DEF GoodBounds, g
  <2>11. CASE L <= R /\ ~(head > chunk.held) /\ name # E(head) /\ ~(name > E(head)) /\ M = 0
    <3>1. t = Bounds(L, R, NotThere)
      BY <2>13, <2>14, <2>11
    <3>2. t.L = L /\ t.R = R /\ t.at = NotThere
      BY <3>1, BoundsAre
    <3>3. t \in AllBounds(chunk, g)
      BY <2>2, <3>1 DEF AllBounds
    <3>4. NotThere # Searching /\ NotThere # BadChunk /\ ~(NotThere > 0)
      BY DEF Searching, BadChunk, NotThere
    <3>5. IsSound(chunk) => name < E(1)
      <4>1. head = 1
        BY <1>1, <2>11 DEF head
      <4> QED BY <2>4, <2>6, <2>11, <4>1
    <3>6. IsSound(chunk) => Encloses(chunk, density, g, name, t)
      BY <3>2, <3>4, <3>5 DEF Encloses
    <3> QED BY <2>1, <2>2, <2>11, <3>2, <3>3, <3>4, <3>6 DEF GoodBounds, g
  <2>12. CASE L <= R /\ ~(head > chunk.held) /\ name # E(head) /\ ~(name > E(head)) /\ M # 0
    <3>1. t = Bounds(L, M - 1, Searching)
      BY <2>13, <2>14, <2>12
    <3>2. t.L = L /\ t.R = M - 1 /\ t.at = Searching
      BY <3>1, BoundsAre
    <3>3. t \in AllBounds(chunk, g) /\ L <= (M - 1) + 1 /\ (M - 1) - L < R - L /\ (M - 1) + 1 = M
      <4>0. L <= M /\ M <= R /\ M \in Nat /\ M # 0
        BY <2>3, <2>12
      <4>1. M - 1 \in 0 .. g - 1 /\ L <= (M - 1) + 1 /\ (M - 1) - L < R - L /\ (M - 1) + 1 = M
        BY <2>13, <4>0
      <4> QED BY <2>2, <3>1, <4>1 DEF AllBounds
    <3>4. Searching # BadChunk /\ Searching # NotThere /\ ~(Searching > 0)
      BY DEF Searching, NotThere, BadChunk
    <3>5. IsSound(chunk) => name < E(head)
      BY <2>4, <2>6, <2>12
    <3>6. IsSound(chunk) => Encloses(chunk, density, g, name, t)
      BY <2>5, <3>2, <3>3, <3>4, <3>5 DEF Encloses, head
    <3> QED BY <1>5, <2>1, <2>2, <2>12, <3>2, <3>3, <3>6 DEF GoodBounds, g
  <2> QED BY <2>2, <2>7, <2>8, <2>9, <2>10, <2>11, <2>12
<1> QED BY <1>4, <1>5

\* The search ends at an entry, without one or at the end of the chunk. In a chunk that is
\* sound that entry begins the group, and there is none only if the name is before all.
LEMMA GroupStartIs ==
    ASSUME NEW chunk, IsChunk(chunk), NEW density \in Nat \ {0}, NEW name \in Nat
    PROVE  LET e == GroupStart(chunk, density, name)
           IN  /\ e \in {NotThere, BadChunk} \cup 1 .. Len(chunk.entries)
               /\ IsSound(chunk) =>
                     /\ e # BadChunk
                     /\ e = NotThere => name < chunk.entries[1].name
                     /\ e > 0 => IsStart(chunk, density, name, e)
<1> DEFINE g == Groups(chunk, density)
           N == g + 1
           widest == Bounds(0, g - 1, Searching)
           Good == GoodBounds(chunk, density, g, name)
           halve == [b \in Good |-> Halved(chunk, density, name, b)]
           step == [n \in Nat |-> halve]
           IsSearch(f) == f = [n \in 0 .. N |->
                                 IF n = 0 THEN widest ELSE Halved(chunk, density, name, f[n - 1])]
           search == CHOOSE f : IsSearch(f)
<1>1. g \in Nat \ {0} /\ N \in Nat
  BY HeadsAre
<1>2. widest \in Good
  <2>1. widest.L = 0 /\ widest.R = g - 1 /\ widest.at = Searching
    BY BoundsAre
  <2> HIDE DEF g
  <2>2. 0 \in 0 .. g /\ g - 1 \in 0 .. g - 1 /\ 0 <= (g - 1) + 1
    BY <1>1
  <2>3. widest \in AllBounds(chunk, g)
    BY <2>2 DEF AllBounds
  <2>4. Searching # BadChunk /\ Searching # NotThere /\ ~(Searching > 0)
    BY DEF Searching, NotThere, BadChunk
  <2> HIDE DEF widest
  <2>5. Encloses(chunk, density, g, name, widest)
    BY <2>1, <2>4 DEF Encloses
  <2> QED BY <2>1, <2>2, <2>3, <2>5 DEF GoodBounds
<1>3. \A b \in Good : Halved(chunk, density, name, b) \in Good
  BY HalvedIs
<1>4. step \in [Nat -> [Good -> Good]]
  BY <1>3
<1> HIDE DEF Good, halve
<1>5. PICK f \in Iterates(Good, widest, step, N) : TRUE
  <2> HIDE DEF step, widest, N
  <2>1. Iterates(Good, widest, step, N) # {}
    BY <1>1, <1>2, <1>4, IterateExists
  <2> QED BY <2>1
<1>6. /\ f \in [0 .. N -> Good] /\ f[0] = widest
      /\ \A n \in 1 .. N : f[n] = Halved(chunk, density, name, f[n - 1])
  <2>1. /\ f \in [0 .. N -> Good] /\ f[0] = widest
        /\ \A n \in 1 .. N : f[n] = step[n][f[n - 1]]
    BY <1>5 DEF Iterates
  <2>2. ASSUME NEW n \in 1 .. N PROVE f[n] = Halved(chunk, density, name, f[n - 1])
    <3>1. n - 1 \in 0 .. N /\ n \in Nat
      BY <1>1
    <3>2. f[n] = halve[f[n - 1]] /\ f[n - 1] \in Good
      BY <2>1, <3>1
    <3> QED BY <3>2 DEF halve
  <2> QED BY <2>1, <2>2
<1> HIDE DEF g, widest
<1>7. IsSearch(f)
  BY <1>1, <1>6
<1>8. IsSearch(search)
  BY <1>7
<1> HIDE DEF search
<1>9. /\ search[0] = widest
      /\ \A n \in 1 .. N : search[n] = Halved(chunk, density, name, search[n - 1])
  BY <1>1, <1>8
<1>10. \A n \in Nat : n <= N => /\ search[n] \in Good
                                /\ search[n].at = Searching => search[n].R - search[n].L < g - n
  <2> DEFINE S == {n \in Nat : n <= N =>
                      /\ search[n] \in Good
                      /\ search[n].at = Searching => search[n].R - search[n].L < g - n}
  <2>1. 0 \in S
    <3>1. widest.L = 0 /\ widest.R = g - 1
      BY BoundsAre DEF widest
    <3> QED BY <1>1, <1>2, <1>9, <3>1
  <2>2. ASSUME NEW n \in Nat, n \in S PROVE n + 1 \in S
    <3> SUFFICES ASSUME n + 1 <= N
                 PROVE  /\ search[n + 1] \in Good
                        /\ search[n + 1].at = Searching =>
                              search[n + 1].R - search[n + 1].L < g - (n + 1)
      OBVIOUS
    <3> DEFINE b == search[n]
               t == search[n + 1]
    <3>1. n <= N /\ n + 1 \in 1 .. N /\ (n + 1) - 1 = n
      BY <1>1
    <3>2. b \in Good /\ (b.at = Searching => b.R - b.L < g - n)
      BY <2>2, <3>1
    <3>3. t = Halved(chunk, density, name, b)
      BY <1>9, <3>1
    <3> HIDE DEF b, t
    <3>4. /\ t \in Good /\ (b.at # Searching => t.at # Searching)
          /\ t.at = Searching => t.R - t.L < b.R - b.L
      BY <3>2, <3>3, HalvedIs DEF Good, g
    <3>5. /\ b.L \in Nat /\ b.R \in Nat /\ t.L \in Nat /\ t.R \in Nat
      <4>1. b \in AllBounds(chunk, g) /\ t \in AllBounds(chunk, g)
        BY <3>2, <3>4 DEF Good, GoodBounds
      <4> QED BY <1>1, <4>1, BoundsAre DEF AllBounds
    <3>6. t.at = Searching => t.R - t.L < g - (n + 1)
      BY <1>1, <3>2, <3>4, <3>5
    <3> QED BY <3>4, <3>6 DEF t
  <2> HIDE DEF S
  <2>3. \A n \in Nat : n \in S
    BY <2>1, <2>2, Induct
  <2> QED BY <2>3 DEF S
<1> DEFINE b == search[g]
           t == search[N]
<1>11. b \in Good /\ (b.at = Searching => b.R - b.L < g - g) /\ t = Halved(chunk, density, name, b)
  <2>1. g \in Nat /\ g <= N /\ N \in 1 .. N /\ N - 1 = g
    BY <1>1
  <2> QED BY <1>9, <1>10, <2>1
<1>12. GroupStart(chunk, density, name) = t.at
  BY DEF GroupStart, Groups, g, search, widest
<1> HIDE DEF b, t
<1>13. t \in Good /\ t.at # Searching
  <2>1. b.L \in Nat /\ b.R \in Nat
    <3>1. b \in AllBounds(chunk, g)
      BY <1>11 DEF Good, GoodBounds
    <3> QED BY <1>1, <3>1, BoundsAre DEF AllBounds
  <2>2. b.at = Searching => b.R < b.L
    BY <1>1, <1>11, <2>1
  <2> QED BY <1>11, <2>2, HalvedIs DEF Good, g
<1>14. t \in AllBounds(chunk, g) /\ (IsSound(chunk) => Encloses(chunk, density, g, name, t))
  BY <1>13 DEF Good, GoodBounds
<1>15. t.at \in {Searching, NotThere, BadChunk} \cup 1 .. Len(chunk.entries)
  BY <1>14, BoundsAre DEF AllBounds
<1> QED BY <1>12, <1>13, <1>14, <1>15 DEF Encloses

LEMMA MinIs ==
    ASSUME NEW S, S \subseteq Nat, S # {}
    PROVE  Min(S) \in S /\ \A y \in S : Min(S) <= y
BY LeastNumber DEF Min

\* Where a name belongs among the entries: at the last one that is not after it.
IsPlace(chunk, name, k) ==
    /\ k \in 1 .. Len(chunk.entries)
    /\ chunk.entries[k].name <= name
    /\ k < Len(chunk.entries) => name < chunk.entries[k + 1].name

\* Among the entries of a group the search stops at the first that is not before the name.
LEMMA InGroupIs ==
    ASSUME NEW chunk, IsChunk(chunk), NEW name \in Nat,
           NEW from \in 1 .. Len(chunk.entries), NEW to \in from .. Len(chunk.entries)
    PROVE  LET e == InGroup(chunk, from, to, name)
           IN  /\ e \in {NotThere, BadChunk} \cup 1 .. Len(chunk.entries)
               /\ chunk.kind = "PMGL" /\ e > 0 =>
                     e <= chunk.held /\ chunk.entries[e].name = name
               /\ IsSound(chunk) => e # BadChunk
               /\ \A k \in from .. to :
                     /\ IsSound(chunk) /\ IsPlace(chunk, name, k)
                     /\ chunk.kind = "PMGI" \/ chunk.entries[k].name = name
                     => e = k
<1> DEFINE n == Len(chunk.entries)
           notBefore == {x \in from .. to : chunk.entries[x].name >= name}
           stop == Min(notBefore \cup {to + 1})
           e == InGroup(chunk, from, to, name)
<1>1. /\ n \in Nat /\ from \in Nat /\ to \in Nat /\ 1 <= from /\ from <= to /\ to <= n
      /\ chunk.held \in Nat
  BY DEF IsChunk
<1>2. /\ stop \in notBefore \cup {to + 1}
      /\ \A y \in notBefore \cup {to + 1} : stop <= y
  <2>1. notBefore \cup {to + 1} \subseteq Nat
    BY <1>1
  <2> HIDE DEF notBefore
  <2> QED BY <2>1, MinIs
<1>3. /\ stop \in Nat /\ from <= stop /\ stop <= to + 1
      /\ stop <= to => stop \in notBefore
  <2>1. notBefore \subseteq from .. to
    OBVIOUS
  <2> HIDE DEF notBefore, stop
  <2> QED BY <1>1, <1>2, <2>1
<1>4. PICK low : low = Min({stop, to})
  OBVIOUS
<1>5. low <= stop /\ low <= to /\ (stop <= to => low = stop)
  <2>1. {stop, to} \subseteq Nat /\ {stop, to} # {}
    BY <1>1, <1>3
  <2> HIDE DEF stop
  <2>2. low \in {stop, to} /\ low <= stop /\ low <= to
    BY <1>4, <2>1, MinIs
  <2> QED BY <1>1, <1>3, <2>2
<1>6. e = IF low > chunk.held THEN BadChunk
          ELSE IF stop <= to /\ chunk.entries[stop].name = name THEN stop
          ELSE IF chunk.kind = "PMGI" /\ stop > from THEN stop - 1
          ELSE NotThere
  BY <1>4 DEF InGroup
<1> HIDE DEF stop, e
<1>7. e \in {NotThere, BadChunk} \cup 1 .. n
  <2>1. stop > from => stop - 1 \in 1 .. n
    BY <1>1, <1>3
  <2>2. stop <= to => stop \in 1 .. n
    BY <1>1, <1>3
  <2> QED BY <1>6, <2>1, <2>2
<1>8. ASSUME chunk.kind = "PMGL", e > 0
      PROVE  e <= chunk.held /\ chunk.entries[e].name = name
  <2>1. ~(BadChunk > 0) /\ ~(NotThere > 0)
    BY DEF BadChunk, NotThere
  <2>2. ~(low > chunk.held) /\ stop <= to /\ chunk.entries[stop].name = name /\ e = stop
    BY <1>6, <1>8, <2>1
  <2>3. stop <= chunk.held
    BY <1>1, <1>3, <1>5, <2>2
  <2> QED BY <2>2, <2>3
<1>9. ASSUME IsSound(chunk) PROVE ~(low > chunk.held)
  <2>1. chunk.held = n
    BY <1>9 DEF IsSound
  <2>2. low \in Nat
    <3>1. {stop, to} \subseteq Nat /\ {stop, to} # {}
      BY <1>1, <1>3
    <3> QED BY <1>4, <3>1, MinIs
  <2> QED BY <1>1, <1>5, <2>1, <2>2
<1>10. IsSound(chunk) => e # BadChunk
  <2>1. BadChunk \notin Nat /\ NotThere # BadChunk
    BY DEF BadChunk, NotThere
  <2>2. stop > from => stop - 1 \in Nat
    BY <1>1, <1>3
  <2> QED BY <1>3, <1>6, <1>9, <2>1, <2>2
<1>11. ASSUME NEW k \in from .. to, IsSound(chunk), IsPlace(chunk, name, k),
              chunk.kind = "PMGI" \/ chunk.entries[k].name = name
       PROVE  e = k
  <2>1. \A x \in from .. to : x \in 1 .. n /\ x \in Nat
    BY <1>1
  <2>2. /\ \A x \in from .. to : chunk.entries[x].name \in Nat
        /\ \A x, y \in from .. to : x < y => chunk.entries[x].name < chunk.entries[y].name
    BY <1>11, <2>1 DEF IsSound
  <2>3. /\ k \in Nat /\ from <= k /\ k <= to /\ chunk.entries[k].name <= name
        /\ k < to => k + 1 \in from .. to /\ name < chunk.entries[k + 1].name
    BY <1>1, <1>11 DEF IsPlace
  <2>4. CASE chunk.entries[k].name = name
    <3>1. k \in notBefore
      BY <2>2, <2>4
    <3>2. stop <= k
      BY <1>2, <3>1
    <3>3. stop = k
      <4>1. SUFFICES ASSUME stop < k PROVE FALSE
        BY <1>3, <2>3, <3>2
      <4>2. stop \in from .. to /\ chunk.entries[stop].name >= name
        BY <1>1, <1>3, <2>3, <4>1
      <4>3. chunk.entries[stop].name < chunk.entries[k].name /\ chunk.entries[stop].name \in Nat
        BY <2>2, <4>1, <4>2
      <4> QED BY <2>4, <4>2, <4>3
    <3> QED BY <1>6, <1>9, <1>11, <2>3, <2>4, <3>3
  <2>5. CASE chunk.entries[k].name # name
    <3>1. chunk.entries[k].name < name
      BY <2>2, <2>3, <2>5
    <3>2. k < stop
      <4>1. SUFFICES ASSUME stop <= k PROVE FALSE
        BY <1>3, <2>3
      <4>2. stop \in from .. to /\ chunk.entries[stop].name >= name
        BY <1>1, <1>3, <2>3, <4>1
      <4>3. chunk.entries[stop].name \in Nat /\ chunk.entries[stop].name <= chunk.entries[k].name
        <5>1. stop = k \/ stop < k
          BY <1>3, <2>3, <4>1
        <5> QED BY <2>2, <4>2, <5>1
      <4> QED BY <2>2, <3>1, <4>2, <4>3
    <3>3. stop = k + 1
      <4>1. CASE k = to
        BY <1>1, <1>3, <3>2, <4>1
      <4>2. CASE k < to
        <5>1. k + 1 \in notBefore
          BY <2>2, <2>3, <4>2
        <5> QED BY <1>2, <1>3, <2>3, <3>2, <5>1
      <4> QED BY <2>3, <4>1, <4>2, <1>1
    <3>4. ~(stop <= to /\ chunk.entries[stop].name = name)
      BY <1>1, <2>2, <2>3, <3>3
    <3>5. stop > from /\ stop - 1 = k
      BY <1>1, <2>3, <3>3
    <3> QED BY <1>6, <1>9, <1>11, <2>5, <3>4, <3>5
  <2> QED BY <2>4, <2>5
<1> QED BY <1>7, <1>8, <1>10, <1>11 DEF e

\* What search_chunk gives for a chunk.
Hit(chunk, density, name) ==
    SearchFrom(chunk, density, IF chunk.quick THEN GroupStart(chunk, density, name) ELSE 1, name)

\* search_chunk: what it finds in a chunk of files is there; a chunk that is sound is never
\* bad, and the name is found at its place, or in an index the entry to go on with.
LEMMA HitIs ==
    ASSUME NEW chunk, IsChunk(chunk), NEW density \in Nat \ {0}, NEW name \in Nat
    PROVE  LET e == Hit(chunk, density, name)
           IN  /\ e \in {NotThere, BadChunk} \cup 1 .. Len(chunk.entries)
               /\ chunk.kind = "PMGL" /\ e > 0 =>
                     e <= chunk.held /\ chunk.entries[e].name = name
               /\ IsSound(chunk) => e # BadChunk
               /\ \A k :
                     /\ IsSound(chunk) /\ IsPlace(chunk, name, k)
                     /\ chunk.kind = "PMGI" \/ chunk.entries[k].name = name
                     => e = k
<1> DEFINE n == Len(chunk.entries)
           from == IF chunk.quick THEN GroupStart(chunk, density, name) ELSE 1
           to == IF chunk.quick THEN GroupEnd(chunk, density, from) ELSE n
           e == Hit(chunk, density, name)
<1>1. n \in Nat \ {0} /\ chunk.entries # <<>>
  BY DEF IsChunk
<1>2. /\ from \in {NotThere, BadChunk} \cup 1 .. n
      /\ IsSound(chunk) => /\ from # BadChunk
                           /\ from = NotThere => name < chunk.entries[1].name
                           /\ chunk.quick /\ from > 0 => IsStart(chunk, density, name, from)
  <2>1. CASE chunk.quick
    BY <2>1, GroupStartIs
  <2>2. CASE ~chunk.quick
    <3>1. 1 # NotThere /\ 1 # BadChunk
      BY DEF NotThere, BadChunk
    <3> QED BY <1>1, <2>2, <3>1
  <2> QED BY <2>1, <2>2
<1>3. e = IF from \in {NotThere, BadChunk} THEN from ELSE InGroup(chunk, from, to, name)
  BY <1>1 DEF Hit, SearchFrom
<1> HIDE DEF from
<1>4. ASSUME from \in 1 .. n
      PROVE  /\ to \in from .. n
             /\ to # n => chunk.quick /\ to = from + density - 1 /\ from + density <= n
  <2>1. CASE chunk.quick
    <3>1. PICK x : x = from + density - 1
      OBVIOUS
    <3>2. {x, n} \subseteq Nat /\ {x, n} # {} /\ from <= x /\ x + 1 = from + density
      BY <1>1, <1>4, <3>1
    <3>3. to = Min({x, n})
      BY <2>1, <3>1 DEF GroupEnd
    <3>4. to \in {x, n} /\ to <= x /\ to <= n
      BY <3>2, <3>3, MinIs
    <3> HIDE DEF to
    <3> QED BY <1>1, <1>4, <2>1, <3>1, <3>2, <3>4
  <2>2. CASE ~chunk.quick
    BY <1>1, <1>4, <2>2
  <2> QED BY <2>1, <2>2
<1> HIDE DEF to, e
<1>5. NotThere \notin 1 .. n /\ BadChunk \notin 1 .. n /\ ~(NotThere > 0) /\ ~(BadChunk > 0)
      /\ NotThere # BadChunk
  BY DEF NotThere, BadChunk
<1>6. CASE from \in {NotThere, BadChunk}
  <2>1. e = from
    BY <1>3, <1>6
  <2>2. ASSUME NEW k, IsSound(chunk), IsPlace(chunk, name, k) PROVE FALSE
    <3>1. from = NotThere /\ name < chunk.entries[1].name
      BY <1>2, <1>6, <2>2
    <3>2. /\ k \in 1 .. n /\ 1 \in 1 .. n /\ chunk.entries[k].name <= name
          /\ chunk.entries[k].name \in Nat /\ chunk.entries[1].name \in Nat
      BY <1>1, <2>2 DEF IsPlace, IsSound
    <3>3. k = 1 \/ 1 < k
      BY <3>2
    <3>4. chunk.entries[1].name <= chunk.entries[k].name
      BY <2>2, <3>2, <3>3 DEF IsSound
    <3> QED BY <3>1, <3>2, <3>4
  <2> QED BY <1>2, <1>5, <1>6, <2>1, <2>2 DEF e
<1>7. CASE from \in 1 .. n
  <2>1. e = InGroup(chunk, from, to, name) /\ to \in from .. n
    BY <1>3, <1>4, <1>5, <1>7
  <2>2. /\ e \in {NotThere, BadChunk} \cup 1 .. n
        /\ chunk.kind = "PMGL" /\ e > 0 => e <= chunk.held /\ chunk.entries[e].name = name
        /\ IsSound(chunk) => e # BadChunk
        /\ \A k \in from .. to :
              /\ IsSound(chunk) /\ IsPlace(chunk, name, k)
              /\ chunk.kind = "PMGI" \/ chunk.entries[k].name = name
              => e = k
    BY <1>7, <2>1, InGroupIs
  <2>3. ASSUME NEW k, IsSound(chunk), IsPlace(chunk, name, k) PROVE k \in from .. to
    <3>1. /\ k \in 1 .. n /\ chunk.entries[k].name <= name
          /\ k < n => name < chunk.entries[k + 1].name
          /\ \A x \in 1 .. n : chunk.entries[x].name \in Nat
          /\ \A x, y \in 1 .. n : x < y => chunk.entries[x].name < chunk.entries[y].name
      BY <2>3 DEF IsPlace, IsSound
    <3>2. from <= k
      <4>1. CASE ~chunk.quick
        <5>1. from = 1
          BY <4>1 DEF from
        <5> QED BY <3>1, <5>1
      <4>2. CASE chunk.quick
        <5>1. chunk.entries[from].name <= name
          BY <1>2, <1>7, <2>3, <4>2 DEF IsStart
        <5>2. SUFFICES ASSUME k < from PROVE FALSE
          BY <1>1, <1>7, <3>1
        <5>3. k < n /\ k + 1 \in 1 .. n /\ (k + 1 = from \/ k + 1 < from)
          BY <1>1, <1>7, <3>1, <5>2
        <5>4. chunk.entries[k + 1].name <= chunk.entries[from].name
          BY <1>7, <3>1, <5>3
        <5> QED BY <1>7, <3>1, <5>1, <5>3, <5>4
      <4> QED BY <4>1, <4>2
    <3>3. k <= to
      <4>1. CASE to = n
        BY <3>1, <4>1
      <4>2. CASE to # n
        <5>1. chunk.quick /\ to = from + density - 1 /\ from + density <= n
          BY <1>4, <1>7, <4>2
        <5>2. name < chunk.entries[from + density].name
          BY <1>2, <1>7, <2>3, <5>1 DEF IsStart
        <5>3. from + density \in 1 .. n
          BY <1>1, <1>7, <5>1
        <5>4. SUFFICES ASSUME from + density <= k PROVE FALSE
          BY <1>7, <3>1, <5>1
        <5>5. from + density = k \/ from + density < k
          BY <3>1, <5>3, <5>4
        <5>6. chunk.entries[from + density].name <= chunk.entries[k].name
          BY <3>1, <5>3, <5>5
        <5> QED BY <3>1, <5>2, <5>3, <5>6
      <4> QED BY <4>1, <4>2
    <3> QED BY <1>1, <1>7, <2>1, <3>1, <3>2, <3>3
  <2> QED BY <2>2, <2>3 DEF e
<1> QED BY <1>2, <1>6, <1>7

-----------------------------------------------------------------------------
(* fast_find.                                                                *)

\* Where the search for a name begins.
Start(c) == IF Image[c].root # 0 THEN Image[c].root ELSE Image[c].first

\* A search that does not leave a set of chunks, and in which each chunk has a lower rank
\* than the one before, ends in that set, with nowhere to go on.
LEMMA PathEnds ==
    ASSUME NEW c \in Chms, NEW hits, NEW P, P \subseteq DOMAIN Image[c].chunks, Start(c) \in P,
           \A n \in P : Onward(c, hits, n) \in P \cup {Nowhere},
           NEW rank \in [P -> 1 .. Len(Image[c].chunks)],
           \A n \in P : Onward(c, hits, n) # Nowhere => rank[Onward(c, hits, n)] < rank[n]
    PROVE  LET p == Path(c, hits)
           IN  \E z \in P : p[Len(p)] = z /\ Onward(c, hits, z) = Nowhere
<1> DEFINE N == Len(Image[c].chunks)
           A == P \cup {Nowhere}
           follow == [n \in A |-> IF n = Nowhere THEN Nowhere ELSE Onward(c, hits, n)]
           turn == [n \in Nat |-> follow]
           IsStep(f) == f = [k \in 0 .. N |->
                               IF k = 0 THEN Start(c)
                               ELSE IF f[k - 1] = Nowhere THEN Nowhere
                               ELSE Onward(c, hits, f[k - 1])]
           steps == CHOOSE f : IsStep(f)
<1>1. N \in Nat /\ Nowhere \notin P
  BY ImageAssumption DEF Nowhere
<1>2. turn \in [Nat -> [A -> A]] /\ Start(c) \in A
  OBVIOUS
<1>3. PICK f \in Iterates(A, Start(c), turn, N) : TRUE
  <2> HIDE DEF turn, A, N
  <2>1. Iterates(A, Start(c), turn, N) # {}
    BY <1>1, <1>2, IterateExists
  <2> QED BY <2>1
<1>4. /\ f \in [0 .. N -> A] /\ f[0] = Start(c)
      /\ \A n \in 1 .. N : f[n] = IF f[n - 1] = Nowhere THEN Nowhere
                                  ELSE Onward(c, hits, f[n - 1])
  <2>1. /\ f \in [0 .. N -> A] /\ f[0] = Start(c)
        /\ \A n \in 1 .. N : f[n] = turn[n][f[n - 1]]
    BY <1>3 DEF Iterates
  <2>2. ASSUME NEW n \in 1 .. N
        PROVE  f[n] = IF f[n - 1] = Nowhere THEN Nowhere ELSE Onward(c, hits, f[n - 1])
    <3>1. n - 1 \in 0 .. N /\ n \in Nat
      BY <1>1
    <3>2. f[n] = follow[f[n - 1]] /\ f[n - 1] \in A
      BY <2>1, <3>1
    <3> QED BY <3>2
  <2> QED BY <2>1, <2>2
<1> HIDE DEF N, A
<1>5. IsStep(f)
  BY <1>1, <1>4
<1>6. IsStep(steps)
  BY <1>5
<1> HIDE DEF steps
<1>7. /\ steps[0] = Start(c)
      /\ \A n \in 1 .. N : steps[n] = IF steps[n - 1] = Nowhere THEN Nowhere
                                      ELSE Onward(c, hits, steps[n - 1])
  BY <1>1, <1>6
<1>8. Path(c, hits) = [k \in {k \in 1 .. N : steps[k - 1] # Nowhere} |-> steps[k - 1]]
  BY DEF Path, N, steps, Start
<1>9. \A n \in Nat : n <= N => /\ steps[n] \in A
                               /\ steps[n] # Nowhere => rank[steps[n]] <= N - n
  <2> DEFINE S == {n \in Nat : n <= N => /\ steps[n] \in A
                                         /\ steps[n] # Nowhere => rank[steps[n]] <= N - n}
  <2>1. 0 \in S
    <3>1. rank[Start(c)] <= N - 0
      BY <1>1 DEF N
    <3> QED BY <1>2, <1>7, <3>1
  <2>2. ASSUME NEW n \in Nat, n \in S PROVE n + 1 \in S
    <3> SUFFICES ASSUME n + 1 <= N
                 PROVE  /\ steps[n + 1] \in A
                        /\ steps[n + 1] # Nowhere => rank[steps[n + 1]] <= N - (n + 1)
      OBVIOUS
    <3>1. n <= N /\ n + 1 \in 1 .. N /\ (n + 1) - 1 = n
      BY <1>1
    <3>2. steps[n] \in A /\ (steps[n] # Nowhere => rank[steps[n]] <= N - n)
      BY <2>2, <3>1
    <3>3. steps[n + 1] = IF steps[n] = Nowhere THEN Nowhere ELSE Onward(c, hits, steps[n])
      BY <1>7, <3>1
    <3>4. CASE steps[n] = Nowhere
      BY <3>3, <3>4 DEF A
    <3>5. CASE steps[n] # Nowhere
      <4>1. PICK x \in P : x = steps[n]
        BY <3>2, <3>5 DEF A
      <4>2. PICK y : y = Onward(c, hits, x)
        OBVIOUS
      <4>3. /\ y \in P \cup {Nowhere} /\ steps[n + 1] = y
            /\ y # Nowhere => rank[y] < rank[x]
        BY <3>3, <3>5, <4>1, <4>2
      <4>4. rank[x] \in Nat /\ rank[x] <= N - n /\ (y \in P => rank[y] \in Nat)
        BY <3>2, <3>5, <4>1 DEF N
      <4>5. y # Nowhere => rank[y] <= N - (n + 1)
        BY <1>1, <4>3, <4>4
      <4> QED BY <4>3, <4>5 DEF A
    <3> QED BY <3>4, <3>5
  <2> HIDE DEF S
  <2>3. \A n \in Nat : n \in S
    BY <2>1, <2>2, Induct
  <2> QED BY <2>3 DEF S
<1>10. steps[N] = Nowhere
  <2>1. SUFFICES ASSUME steps[N] # Nowhere PROVE FALSE
    OBVIOUS
  <2>2. steps[N] \in P /\ rank[steps[N]] <= N - N
    BY <1>1, <1>9, <2>1 DEF A
  <2>3. rank[steps[N]] \in 1 .. N
    BY <2>2 DEF N
  <2> QED BY <1>1, <2>2, <2>3
<1> DEFINE Ends == {k \in 0 .. N : steps[k] = Nowhere}
<1>11. PICK T \in Ends : \A k \in Ends : T <= k
  <2>1. Ends \subseteq Nat /\ N \in Ends
    BY <1>1, <1>10
  <2> HIDE DEF Ends
  <2> QED BY <2>1, LeastNumber
<1>12. T \in 0 .. N /\ steps[T] = Nowhere /\ T # 0
  BY <1>1, <1>7, <1>11
<1>13. \A k \in Nat : k < T => steps[k] \in P
  BY <1>1, <1>9, <1>11, <1>12 DEF A
<1>14. \A n \in Nat : T <= n /\ n <= N => steps[n] = Nowhere
  <2> DEFINE S == {n \in Nat : T <= n /\ n <= N => steps[n] = Nowhere}
  <2>1. 0 \in S
    BY <1>12
  <2>2. ASSUME NEW n \in Nat, n \in S PROVE n + 1 \in S
    <3> SUFFICES ASSUME T <= n + 1, n + 1 <= N PROVE steps[n + 1] = Nowhere
      OBVIOUS
    <3>1. T = n + 1 \/ (T <= n /\ n <= N)
      BY <1>1, <1>12
    <3>2. n + 1 \in 1 .. N /\ (n + 1) - 1 = n
      BY <1>1
    <3> QED BY <1>7, <1>12, <2>2, <3>1, <3>2
  <2> HIDE DEF S
  <2>3. \A n \in Nat : n \in S
    BY <2>1, <2>2, Induct
  <2> QED BY <2>3 DEF S
<1>15. {k \in 1 .. N : steps[k - 1] # Nowhere} = 1 .. T
  <2>1. ASSUME NEW k \in 1 .. N PROVE steps[k - 1] # Nowhere <=> k <= T
    <3>1. k - 1 \in Nat /\ k - 1 <= N
      BY <1>1
    <3>2. CASE k <= T
      <4>1. k - 1 < T
        BY <1>12, <3>2
      <4> QED BY <1>1, <1>13, <3>1, <3>2, <4>1
    <3>3. CASE ~(k <= T)
      <4>1. T <= k - 1
        BY <1>12, <3>3
      <4> QED BY <1>14, <3>1, <3>3, <4>1
    <3> QED BY <3>2, <3>3
  <2> QED BY <1>1, <1>12, <2>1
<1>16. Path(c, hits) = [k \in 1 .. T |-> steps[k - 1]]
  BY <1>8, <1>15
<1>17. T \in Nat /\ T \in 1 .. T /\ T - 1 \in Nat /\ T - 1 < T /\ T \in 1 .. N
  BY <1>1, <1>12
<1>18. PICK p : p = Path(c, hits)
  OBVIOUS
<1>19. Len(p) = T /\ p[T] = steps[T - 1]
  BY <1>16, <1>17, <1>18
<1>20. steps[T - 1] \in P /\ Onward(c, hits, steps[T - 1]) = Nowhere
  BY <1>1, <1>7, <1>12, <1>13, <1>17
<1> QED BY <1>18, <1>19, <1>20

Index(c) == {n \in DOMAIN Image[c].chunks : Image[c].chunks[n].kind = "PMGI"}

\* The chunks of files and of the index, in a helpfile whose directory is in order.
LEMMA ChunkTyped ==
    ASSUME NEW c \in Chms, InOrder(c), NEW n \in Index(c) \cup Listed(c)
    PROVE  LET chunk == Image[c].chunks[n]
           IN  /\ n \in DOMAIN Image[c].chunks /\ n # Nowhere /\ IsChunk(chunk)
               /\ n \in Index(c) <=> n \notin Listed(c)
               /\ n \in Listed(c) => chunk.kind = "PMGL"
               /\ n \in Index(c) => chunk.kind = "PMGI"
               /\ Whole(c) => IsSound(chunk)
<1> DEFINE chunk == Image[c].chunks[n]
<1>1. /\ DOMAIN Image[c].chunks = 1 .. Len(Image[c].chunks) /\ Len(Image[c].chunks) \in Nat
      /\ Image[c].first \in DOMAIN Image[c].chunks
      /\ Image[c].last \in Image[c].first .. Len(Image[c].chunks)
  BY ImageAssumption
<1>2. n \in DOMAIN Image[c].chunks /\ n # Nowhere
  BY <1>1 DEF Listed, Index, Nowhere
<1>3. /\ Len(chunk.entries) \in Nat /\ chunk.held \in 0 .. Len(chunk.entries)
      /\ DOMAIN chunk.entries = 1 .. Len(chunk.entries)
  BY <1>2, ImageAssumption
<1>4. /\ n \in Index(c) => chunk.kind = "PMGI"
      /\ n \in Listed(c) => chunk.kind = "PMGL"
  BY DEF Index, Listed
<1>5. /\ chunk.entries # <<>>
      /\ \A e \in DOMAIN chunk.entries : chunk.entries[e].name \in Nat
      /\ \A e, f \in DOMAIN chunk.entries : e < f => chunk.entries[e].name < chunk.entries[f].name
  BY DEF InOrder, Index
<1> HIDE DEF chunk
<1>6. Len(chunk.entries) # 0
  BY <1>3, <1>5
<1>7. IsChunk(chunk)
  BY <1>3, <1>6 DEF IsChunk
<1>8. Whole(c) => IsSound(chunk)
  BY <1>2, <1>3, <1>5 DEF Whole, IsSound, chunk
<1> QED BY <1>2, <1>4, <1>7, <1>8 DEF chunk

\* What search_chunk finds in a chunk of the directory, by HitIs.
LEMMA HitsAre ==
    ASSUME NEW c \in Chms, NEW name \in Names \cup SystemFiles, InOrder(c),
           NEW n \in Index(c) \cup Listed(c)
    PROVE  LET chunk == Image[c].chunks[n]
               e == Hits[c][name][n]
           IN  /\ e \in {NotThere, BadChunk} \cup 1 .. Len(chunk.entries)
               /\ n \in Listed(c) /\ e > 0 =>
                     e <= chunk.held /\ chunk.entries[e].name = name
               /\ Whole(c) => e # BadChunk
               /\ \A k :
                     /\ Whole(c) /\ IsPlace(chunk, name, k)
                     /\ n \in Index(c) \/ chunk.entries[k].name = name
                     => e = k
<1> DEFINE chunk == Image[c].chunks[n]
           density == Image[c].density
<1>1. /\ n \in DOMAIN Image[c].chunks /\ IsChunk(chunk) /\ (Whole(c) => IsSound(chunk))
      /\ n \in Listed(c) => chunk.kind = "PMGL"
      /\ n \in Index(c) => chunk.kind = "PMGI"
  BY ChunkTyped
<1>2. density \in Nat \ {0} /\ Names \subseteq Nat
  BY ImageAssumption
<1>3. name \in Nat
  BY <1>2 DEF SystemFiles, Content, Control, ResetTable, SpanInfo
<1>4. Hits[c][name][n] = Hit(chunk, density, name)
  <2>1. Hits[c][name] = [m \in DOMAIN Image[c].chunks |-> SearchChunk(c, m, name)]
    BY DEF Hits
  <2>2. Hits[c][name][n] = SearchChunk(c, n, name)
    BY <1>1, <2>1
  <2>3. SearchChunk(c, n, name) = Hit(chunk, density, name)
    BY DEF SearchChunk, Hit
  <2> QED BY <2>2, <2>3
<1> HIDE DEF chunk, density
<1>5. LET e == Hit(chunk, density, name)
      IN  /\ e \in {NotThere, BadChunk} \cup 1 .. Len(chunk.entries)
          /\ chunk.kind = "PMGL" /\ e > 0 =>
                e <= chunk.held /\ chunk.entries[e].name = name
          /\ IsSound(chunk) => e # BadChunk
          /\ \A k :
                /\ IsSound(chunk) /\ IsPlace(chunk, name, k)
                /\ chunk.kind = "PMGI" \/ chunk.entries[k].name = name
                => e = k
  BY <1>1, <1>2, <1>3, HitIs
<1> QED BY <1>1, <1>4, <1>5 DEF chunk

\* A name that is listed has a place in a chunk of files that has it.
LEMMA ListedPlace ==
    ASSUME NEW c \in Chms, InOrder(c), Whole(c), NEW n \in Listed(c),
           NEW name \in NamesOf(Files(Image[c].chunks[n]))
    PROVE  \E k : IsPlace(Image[c].chunks[n], name, k)
                  /\ Image[c].chunks[n].entries[k].name = name
<1> DEFINE chunk == Image[c].chunks[n]
<1>1. IsChunk(chunk) /\ IsSound(chunk)
  BY ChunkTyped
<1>2. PICK k \in 1 .. chunk.held : chunk.entries[k].name = name
  BY DEF NamesOf, Files
<1> HIDE DEF chunk
<1>3. k \in 1 .. Len(chunk.entries)
  BY <1>1, <1>2 DEF IsSound
<1>4. chunk.entries[k].name <= name
  BY <1>1, <1>2, <1>3 DEF IsSound
<1>5. k < Len(chunk.entries) => name < chunk.entries[k + 1].name
  <2>1. SUFFICES ASSUME k < Len(chunk.entries) PROVE name < chunk.entries[k + 1].name
    OBVIOUS
  <2>2. k + 1 \in 1 .. Len(chunk.entries) /\ k < k + 1
    BY <1>1, <1>3, <2>1 DEF IsChunk
  <2> QED BY <1>1, <1>2, <1>3, <2>2 DEF IsSound
<1> QED BY <1>2, <1>3, <1>4, <1>5 DEF IsPlace, chunk

\* What the search of a path that ends in chunk z has found.
FindsRightly(c, name, z) ==
    LET e == Hits[c][name][z]
        listed == name \in NamesOf(Listing(c))
    IN  /\ e > 0 => listed
        /\ Whole(c) => e # BadChunk /\ (listed => e > 0)

LEMMA HitIsListed ==
    ASSUME NEW c \in Chms, NEW name \in Names \cup SystemFiles, InOrder(c),
           NEW z \in Listed(c), Hits[c][name][z] > 0
    PROVE  name \in NamesOf(Listing(c))
<1>1. PICK e : e = Hits[c][name][z]
  OBVIOUS
<1>2. IsChunk(Image[c].chunks[z])
  BY ChunkTyped
<1>3. /\ e \in {NotThere, BadChunk} \cup 1 .. Len(Image[c].chunks[z].entries) /\ e > 0
      /\ e <= Image[c].chunks[z].held /\ Image[c].chunks[z].entries[e].name = name
  BY <1>1, HitsAre
<1>4. e \in 1 .. Image[c].chunks[z].held
  <2>1. PICK held : held = Image[c].chunks[z].held
    OBVIOUS
  <2>2. e \in 1 .. Len(Image[c].chunks[z].entries)
    <3>1. \A x \in {NotThere, BadChunk} : ~(x > 0)
      BY DEF NotThere, BadChunk
    <3> QED BY <1>3, <3>1, Zenon
  <2>3. PICK length : length = Len(Image[c].chunks[z].entries)
    OBVIOUS
  <2>4. length \in Nat /\ held \in 0 .. length /\ e \in 1 .. length /\ e <= held
    BY <1>2, <1>3, <2>1, <2>2, <2>3 DEF IsChunk
  <2>5. e \in 1 .. held
    BY <2>4
  <2> QED BY <2>1, <2>5
<1>5. PICK file : file = Image[c].chunks[z].entries[e]
  OBVIOUS
<1>6. file \in Files(Image[c].chunks[z])
  BY <1>4, <1>5 DEF Files
<1>7. file \in Listing(c)
  BY <1>6 DEF Listing
<1> QED BY <1>3, <1>5, <1>7 DEF NamesOf

\* The search along the chunks of files.
LEMMA ChainFinds ==
    ASSUME NEW c \in Chms, NEW name \in Names \cup SystemFiles, InOrder(c),
           Image[c].root = 0, IsChained(c)
    PROVE  LET p == Path(c, Hits[c][name]) IN FindsRightly(c, name, p[Len(p)])
<1> DEFINE i == Image[c]
           N == Len(i.chunks)
           hits == Hits[c][name]
           rank == [n \in Listed(c) |-> N + 1 - n]
<1>1. /\ DOMAIN i.chunks = 1 .. N /\ N \in Nat
      /\ i.first \in 1 .. N /\ i.last \in i.first .. N /\ i.first \in Listed(c)
      /\ Listed(c) \subseteq i.first .. i.last
  BY ImageAssumption DEF Listed
<1>2. ASSUME NEW n \in Listed(c), Onward(c, hits, n) # Nowhere
      PROVE  /\ ~(hits[n] > 0)
             /\ Onward(c, hits, n) \in Listed(c) /\ Onward(c, hits, n) > n
             /\ \A m \in Listed(c) : m > n => Onward(c, hits, n) <= m
  <2>1. /\ ~(hits[n] > 0) /\ i.chunks[n].next <= i.last
        /\ Onward(c, hits, n) = i.chunks[n].next
    <3>1. ~(i.root # 0)
      OBVIOUS
    <3>2. n \in DOMAIN i.chunks /\ i.chunks[n].kind = "PMGL"
      BY <1>1 DEF Listed
    <3>3. i.chunks[n].next \in Nat
      BY <3>2, ImageAssumption
    <3>4. ~(i.chunks[n].next > i.last) /\ ~(hits[n] > 0) /\ Onward(c, hits, n) = i.chunks[n].next
      BY <1>2, <3>1 DEF Onward
    <3>5. PICK nx, l : nx = i.chunks[n].next /\ l = i.last
      OBVIOUS
    <3>6. nx \in Nat /\ l \in Nat /\ ~(nx > l)
      <4>1. PICK f, length : f = i.first /\ length = N
        OBVIOUS
      <4>2. length \in Nat /\ f \in 1 .. length /\ l \in f .. length
        BY <1>1, <3>5, <4>1
      <4>3. l \in Nat
        BY <4>2
      <4> QED BY <3>3, <3>4, <3>5, <4>3
    <3>7. nx <= l
      BY <3>6
    <3> QED BY <3>4, <3>5, <3>7
  <2>2. n \in DOMAIN i.chunks /\ i.chunks[n].kind = "PMGL" /\ n \in i.first .. i.last
    BY <1>1 DEF Listed
  <2>3. i.chunks[n].next \in Nat /\ i.chunks[i.chunks[n].next].kind = "PMGL"
    BY <2>1, <2>2, ImageAssumption
  <2>4. i.chunks[n].next > n /\ \A m \in Listed(c) : m > n => i.chunks[n].next <= m
    BY DEF IsChained
  <2>5. i.chunks[n].next \in i.first .. i.last
    <3>1. PICK nx, f, l : nx = i.chunks[n].next /\ f = i.first /\ l = i.last
      OBVIOUS
    <3>2. nx \in Nat /\ f \in Nat /\ l \in Nat /\ nx <= l /\ nx > n /\ n \in f .. l
      <4>1. PICK length : length = N
        OBVIOUS
      <4>2. length \in Nat /\ f \in 1 .. length /\ l \in f .. length
        BY <1>1, <3>1, <4>1
      <4>3. f \in Nat /\ l \in Nat
        BY <4>2
      <4>4. nx \in Nat /\ nx <= l /\ nx > n
        BY <2>1, <2>3, <2>4, <3>1
      <4>5. n \in f .. l
        BY <2>2, <3>1
      <4> QED BY <4>3, <4>4, <4>5
    <3>3. nx \in f .. l
      BY <3>2
    <3> QED BY <3>1, <3>3
  <2> QED BY <2>1, <2>3, <2>4, <2>5 DEF Listed
<1>3. Start(c) = i.first
  BY DEF Start
<1> HIDE DEF i, N, hits
<1>4. ASSUME NEW P, P \subseteq Listed(c), i.first \in P,
             \A n \in P : Onward(c, hits, n) \in P \cup {Nowhere}
      PROVE  LET p == Path(c, hits)
             IN  \E z \in P : p[Len(p)] = z /\ Onward(c, hits, z) = Nowhere
  <2> DEFINE r == [n \in P |-> N + 1 - n]
  <2>1. P \subseteq DOMAIN i.chunks
    BY <1>1, <1>4
  <2>2. r \in [P -> 1 .. N]
    <3>1. \A n \in P : n \in Nat /\ 1 <= n /\ n <= N
      BY <1>1, <1>4
    <3>2. \A n \in P : N + 1 - n \in 1 .. N
      BY <1>1, <3>1
    <3> QED BY <3>2
  <2>3. ASSUME NEW n \in P, Onward(c, hits, n) # Nowhere
        PROVE  r[Onward(c, hits, n)] < r[n]
    <3>1. PICK y : y = Onward(c, hits, n)
      OBVIOUS
    <3>2. y \in P /\ y > n /\ y \in Nat /\ n \in Nat
      BY <1>1, <1>2, <1>4, <2>3, <3>1
    <3>3. N + 1 - y < N + 1 - n
      BY <1>1, <3>2
    <3> QED BY <3>1, <3>2, <3>3
  <2> HIDE DEF r
  <2> QED BY <1>3, <1>4, <2>1, <2>2, <2>3, PathEnds DEF i, N
<1>5. PICK w : w = Path(c, hits)[Len(Path(c, hits))]
  OBVIOUS
<1>6. w \in Listed(c)
  <2>1. \A n \in Listed(c) : Onward(c, hits, n) \in Listed(c) \cup {Nowhere}
    BY <1>2
  <2> QED BY <1>1, <1>4, <1>5, <2>1
<1>7. hits[w] > 0 => name \in NamesOf(Listing(c))
  BY <1>6, HitIsListed DEF hits
<1>8. Whole(c) => hits[w] # BadChunk
  BY <1>6, HitsAre DEF hits
<1>9. ASSUME Whole(c), name \in NamesOf(Listing(c)) PROVE hits[w] > 0
  <2>1. PICK m \in Listed(c) : name \in NamesOf(Files(i.chunks[m]))
    BY <1>9 DEF NamesOf, Listing, i
  <2>2. hits[m] > 0
    <3>1. PICK k : IsPlace(i.chunks[m], name, k) /\ i.chunks[m].entries[k].name = name
      BY <1>9, <2>1, ListedPlace DEF i
    <3>2. m \in Index(c) \cup Listed(c)
      OBVIOUS
    <3>3. \A x : /\ Whole(c) /\ IsPlace(i.chunks[m], name, x)
                 /\ m \in Index(c) \/ i.chunks[m].entries[x].name = name
                 => hits[m] = x
      BY <3>2, HitsAre DEF hits, i
    <3>4. hits[m] = k
      BY <1>9, <3>1, <3>3
    <3>5. k \in 1 .. Len(i.chunks[m].entries)
      BY <3>1 DEF IsPlace
    <3>6. i.chunks[m].entries # <<>> /\ Len(i.chunks[m].entries) \in Nat
      BY <3>2, ChunkTyped DEF i, IsChunk
    <3> QED BY <3>4, <3>5, <3>6
  <2> DEFINE P == {n \in Listed(c) : n <= m}
  <2>3. m \in Nat /\ i.first <= m /\ i.last \in Nat
    BY <1>1
  <2>4. ASSUME NEW n \in P, ~(hits[n] > 0)
        PROVE  Onward(c, hits, n) = Nowhere => FALSE
    <3>1. n \in Nat /\ n < m
      BY <1>1, <2>2, <2>3, <2>4
    <3>2. i.chunks[n].next > n /\ i.chunks[n].next <= m
      BY <3>1 DEF IsChained, i
    <3>3. n \in DOMAIN i.chunks /\ i.chunks[n].kind = "PMGL" /\ m <= i.last
      BY <1>1 DEF Listed, i
    <3>4. i.chunks[n].next \in Nat
      BY <3>3, ImageAssumption DEF i
    <3>5. i.chunks[n].next # n /\ ~(i.chunks[n].next > i.last) /\ i.chunks[n].next # Nowhere
      BY <2>3, <3>1, <3>2, <3>3, <3>4 DEF Nowhere
    <3>6. Onward(c, hits, n) = i.chunks[n].next
      BY <2>4, <3>5 DEF Onward, i
    <3> QED BY <3>5, <3>6
  <2>5. ASSUME NEW n \in P PROVE Onward(c, hits, n) \in P \cup {Nowhere}
    <3>1. CASE Onward(c, hits, n) = Nowhere
      BY <3>1
    <3>2. CASE Onward(c, hits, n) # Nowhere
      <4>1. ~(hits[n] > 0) /\ n \in Nat /\ n <= m
        BY <1>1, <1>2, <3>2
      <4>2. n < m
        BY <2>2, <2>3, <4>1
      <4> QED BY <1>2, <3>2, <4>2
    <3> QED BY <3>1, <3>2
  <2>6. i.first \in P
    BY <1>1, <2>3
  <2> HIDE DEF P
  <2>7. PICK z \in P : w = z /\ Onward(c, hits, z) = Nowhere
    <3>1. P \subseteq Listed(c)
      BY DEF P
    <3> QED BY <1>4, <1>5, <2>5, <2>6, <3>1
  <2> QED BY <2>4, <2>7
<1> QED BY <1>5, <1>7, <1>8, <1>9 DEF FindsRightly, hits

\* A place in a chunk of the directory is what search_chunk finds there.
LEMMA PlaceIsHit ==
    ASSUME NEW c \in Chms, NEW name \in Names \cup SystemFiles, InOrder(c), Whole(c),
           NEW n \in Index(c) \cup Listed(c), NEW k,
           IsPlace(Image[c].chunks[n], name, k),
           n \in Index(c) \/ Image[c].chunks[n].entries[k].name = name
    PROVE  Hits[c][name][n] = k /\ k \in 1 .. Len(Image[c].chunks[n].entries) /\ k > 0
<1>1. \A x : /\ Whole(c) /\ IsPlace(Image[c].chunks[n], name, x)
             /\ n \in Index(c) \/ Image[c].chunks[n].entries[x].name = name
             => Hits[c][name][n] = x
  BY HitsAre
<1>2. Hits[c][name][n] = k
  BY <1>1
<1>3. k \in 1 .. Len(Image[c].chunks[n].entries)
  BY DEF IsPlace
<1>4. PICK length : length = Len(Image[c].chunks[n].entries)
  OBVIOUS
<1>5. length \in Nat
  BY <1>4, ChunkTyped DEF IsChunk
<1>6. k \in 1 .. length
  BY <1>3, <1>4
<1>7. k > 0
  BY <1>5, <1>6
<1> QED BY <1>2, <1>3, <1>7

\* The search down the index.
LEMMA IndexFinds ==
    ASSUME NEW c \in Chms, NEW name \in Names \cup SystemFiles, InOrder(c),
           Image[c].root # 0, IsIndexed(c)
    PROVE  LET p == Path(c, Hits[c][name]) IN FindsRightly(c, name, p[Len(p)])
<1> DEFINE chunks == Image[c].chunks
           All == Index(c) \cup Listed(c)
           hits == Hits[c][name]
           To(n, e) == chunks[n].entries[e].to
           Then(n) == Onward(c, hits, n)
<1>1. /\ Image[c].root \in All
      /\ \A n \in Index(c) : \A e \in DOMAIN chunks[n].entries : To(n, e) \in All
      /\ \E level \in [DOMAIN chunks -> 1 .. Len(chunks)] :
            \A n \in Index(c) : \A e \in DOMAIN chunks[n].entries : level[To(n, e)] < level[n]
      /\ name \in NamesOf(Listing(c)) => \E under \in SUBSET DOMAIN chunks :
            /\ Image[c].root \in under
            /\ \A n \in under \ Index(c) : name \in NamesOf(Files(chunks[n]))
            /\ \A n \in under \cap Index(c) : \E e \in DOMAIN chunks[n].entries :
                  /\ To(n, e) \in under
                  /\ chunks[n].entries[e].name <= name
                  /\ e < Len(chunks[n].entries) => name < chunks[n].entries[e + 1].name
  BY DEF IsIndexed, Index
<1>2. PICK level \in [DOMAIN chunks -> 1 .. Len(chunks)] :
         \A n \in Index(c) : \A e \in DOMAIN chunks[n].entries : level[To(n, e)] < level[n]
  BY <1>1
<1>3. \A n \in All : /\ n \in DOMAIN chunks /\ n # Nowhere
                     /\ n \in Index(c) <=> n \notin Listed(c)
                     /\ n \in Listed(c) => chunks[n].kind = "PMGL"
                     /\ n \in Index(c) => chunks[n].kind = "PMGI"
                     /\ DOMAIN chunks[n].entries = 1 .. Len(chunks[n].entries)
  BY ChunkTyped DEF IsChunk
<1>4. \A n \in All : Then(n) = IF chunks[n].kind = "PMGI" /\ hits[n] > 0 THEN To(n, hits[n])
                                ELSE Nowhere
  BY DEF Onward
<1>5. ASSUME NEW n \in All, hits[n] > 0 PROVE hits[n] \in DOMAIN chunks[n].entries
  <2>1. hits[n] \in {NotThere, BadChunk} \cup 1 .. Len(chunks[n].entries)
    BY HitsAre
  <2>2. \A x \in {NotThere, BadChunk} : ~(x > 0)
    BY DEF NotThere, BadChunk
  <2> QED BY <1>3, <1>5, <2>1, <2>2, Zenon
<1> HIDE DEF chunks, hits, Then
<1>6. ASSUME NEW n \in All, Then(n) # Nowhere
      PROVE  n \in Index(c) /\ hits[n] \in DOMAIN chunks[n].entries /\ Then(n) = To(n, hits[n])
  <2>1. chunks[n].kind = "PMGI" /\ hits[n] > 0 /\ Then(n) = To(n, hits[n])
    BY <1>4, <1>6
  <2> QED BY <1>3, <1>5, <2>1
<1>7. ASSUME NEW n \in Index(c), hits[n] > 0 PROVE Then(n) # Nowhere
  <2>1. hits[n] \in DOMAIN chunks[n].entries /\ Then(n) = To(n, hits[n])
    BY <1>3, <1>4, <1>5, <1>7
  <2> QED BY <1>1, <1>3, <2>1
<1>8. ASSUME NEW P, P \subseteq All, Image[c].root \in P,
             \A n \in P : Then(n) \in P \cup {Nowhere}
      PROVE  LET p == Path(c, hits)
             IN  \E z \in P : p[Len(p)] = z /\ Then(z) = Nowhere
  <2> DEFINE rank == [n \in P |-> level[n]]
  <2>1. P \subseteq DOMAIN chunks /\ Start(c) \in P
    BY <1>3, <1>8 DEF Start
  <2>2. rank \in [P -> 1 .. Len(chunks)]
    BY <1>2, <2>1
  <2>3. ASSUME NEW n \in P, Then(n) # Nowhere
        PROVE  rank[Then(n)] < rank[n]
    <3>1. n \in Index(c) /\ hits[n] \in DOMAIN chunks[n].entries /\ Then(n) = To(n, hits[n])
      BY <1>6, <1>8, <2>3
    <3>2. level[To(n, hits[n])] < level[n]
      BY <1>2, <3>1
    <3>3. Then(n) \in P
      BY <1>8, <2>3
    <3> QED BY <3>1, <3>2, <3>3
  <2> HIDE DEF rank
  <2> QED BY <1>8, <2>1, <2>2, <2>3, PathEnds DEF chunks, Then
<1>9. PICK w : w = Path(c, hits)[Len(Path(c, hits))]
  OBVIOUS
<1>10. w \in All /\ Then(w) = Nowhere
  <2>1. ASSUME NEW n \in All PROVE Then(n) \in All \cup {Nowhere}
    BY <1>1, <1>6
  <2> HIDE DEF All
  <2> QED BY <1>1, <1>8, <1>9, <2>1
<1>11. hits[w] > 0 => name \in NamesOf(Listing(c))
  <2>1. SUFFICES ASSUME hits[w] > 0 PROVE name \in NamesOf(Listing(c))
    OBVIOUS
  <2>2. w \in Listed(c)
    BY <1>7, <1>10, <2>1
  <2> QED BY <2>1, <2>2, HitIsListed DEF hits
<1>12. Whole(c) => hits[w] # BadChunk
  BY <1>10, HitsAre DEF hits
<1>13. ASSUME Whole(c), name \in NamesOf(Listing(c)) PROVE hits[w] > 0
  <2>1. PICK under \in SUBSET DOMAIN chunks :
           /\ Image[c].root \in under
           /\ \A n \in under \ Index(c) : name \in NamesOf(Files(chunks[n]))
           /\ \A n \in under \cap Index(c) : \E e \in DOMAIN chunks[n].entries :
                 /\ To(n, e) \in under
                 /\ chunks[n].entries[e].name <= name
                 /\ e < Len(chunks[n].entries) => name < chunks[n].entries[e + 1].name
    BY <1>1, <1>13
  <2> DEFINE P == under \cap All
  <2>2. ASSUME NEW n \in P, n \in Index(c)
        PROVE  hits[n] > 0 /\ Then(n) \in P
    <3>1. PICK e \in DOMAIN chunks[n].entries :
             /\ To(n, e) \in under
             /\ chunks[n].entries[e].name <= name
             /\ e < Len(chunks[n].entries) => name < chunks[n].entries[e + 1].name
      BY <2>1, <2>2
    <3>2. IsPlace(chunks[n], name, e)
      BY <1>3, <3>1 DEF IsPlace
    <3>3. hits[n] = e /\ e > 0
      BY <1>13, <2>2, <3>2, PlaceIsHit DEF hits, chunks
    <3>4. Then(n) = To(n, e)
      BY <1>3, <1>4, <2>2, <3>3
    <3> QED BY <1>1, <2>2, <3>1, <3>3, <3>4
  <2>3. ASSUME NEW n \in P PROVE Then(n) \in P \cup {Nowhere}
    BY <1>6, <2>2, <2>3
  <2>4. PICK z \in P : w = z /\ Then(z) = Nowhere
    <3>1. P \subseteq All /\ Image[c].root \in P
      BY <1>1, <2>1
    <3> HIDE DEF P
    <3> QED BY <1>8, <1>9, <2>3, <3>1
  <2>5. w \in Listed(c) /\ w \in under \ Index(c)
    BY <1>3, <1>7, <2>2, <2>4
  <2>6. name \in NamesOf(Files(chunks[w]))
    BY <2>1, <2>5
  <2>7. PICK k : IsPlace(chunks[w], name, k) /\ chunks[w].entries[k].name = name
    BY <1>13, <2>5, <2>6, ListedPlace DEF chunks
  <2> QED BY <1>13, <2>5, <2>7, PlaceIsHit DEF hits, chunks
<1> QED BY <1>9, <1>11, <1>12, <1>13 DEF FindsRightly, hits

\* What fast_find gives, whatever is in the cache; a name that it finds is listed also
\* if something went wrong before.
LEMMA FindIs ==
    ASSUME NEW c \in Chms, NEW name \in Names \cup SystemFiles, Ordered(c), NEW h, NEW fault
    PROVE  LET f == Find(c, h, name, fault)
               listed == name \in NamesOf(Listing(c))
           IN  /\ f.hit => listed
               /\ fault = "none" /\ Whole(c) => f.res = "ok" /\ f.hit = listed
<1> DEFINE p == Path(c, Hits[c][name])
           z == p[Len(p)]
           e == Hits[c][name][z]
           f == Find(c, h, name, fault)
           listed == name \in NamesOf(Listing(c))
<1>1. FindsRightly(c, name, z)
  BY ChainFinds, IndexFinds DEF Ordered
<1>2. Paths[c][name] = p
  BY DEF Paths
<1>3. fault = "none" => f.res = IF e = BadChunk THEN "dataformat" ELSE "ok"
  BY <1>2 DEF Find, FindAlong
<1>4. f.hit = FALSE \/ f.hit = (e > 0)
  BY <1>2 DEF Find, FindAlong
<1>5. fault = "none" => f.hit = (e > 0)
  BY <1>2 DEF Find, FindAlong
<1> HIDE DEF p, f
<1>6. (e > 0 => listed) /\ (Whole(c) => e # BadChunk /\ (listed => e > 0))
  BY <1>1 DEF FindsRightly
<1>7. fault = "none" /\ Whole(c) => f.res = "ok"
  BY <1>3, <1>6
<1>8. f.hit => listed
  BY <1>4, <1>6
<1>9. fault = "none" /\ Whole(c) => f.hit = listed
  BY <1>5, <1>6
<1> QED BY <1>7, <1>8, <1>9 DEF f

\* FindIsRight: in helpfiles whose directories are as the format promises, fast_find finds
\* a name only if the directory has it, and in one that is whole finds every name that is
\* there, whatever its chunk cache holds: the binary search over the quick references ends
\* in the group the name belongs to, and the chain of chunks, or the index, leads to the
\* chunk that has it.
THEOREM FindRight ==
    ASSUME \A c \in Chms : Ordered(c)
    PROVE  Spec => []FindIsRight
<1>1. FindIsRight
  BY FindIs DEF FindIsRight
<1> QED BY <1>1, PTL

-----------------------------------------------------------------------------
(* What chmd_init_decomp and the decoder do when nothing goes wrong.         *)

\* All went well so far.
IsFine(s) == "ok" \in DOMAIN s /\ s.ok = TRUE

\* A system file of a helpfile that is whole is found.
LEMMA SysFileFound ==
    ASSUME WellFormed, NEW c \in Chms, Whole(c), NEW name \in SystemFiles,
           NEW s, IsFine(s)
    PROVE  LET t == FindSysFile(c, s, name, "none")
           IN  IsFine(t) /\ t.err \in {s.err, "ok"}
<1> DEFINE f == Find(c, s.h, name, "none")
           t == FindSysFile(c, s, name, "none")
<1>1. f.res = "ok" /\ f.hit = TRUE
  <2>1. Ordered(c) /\ name \in NamesOf(Listing(c))
    BY DEF WellFormed
  <2>2. Whole(c) => f.res = "ok" /\ f.hit = (name \in NamesOf(Listing(c)))
    BY <2>1, FindIs
  <2> QED BY <2>1, <2>2
<1>2. s.ok = TRUE
  BY DEF IsFine
<1>3. t = s \/ t = Noted(s, name, f)
  BY DEF FindSysFile
<1> HIDE DEF f, t
<1>4. CASE t = s
  BY <1>4 DEF t
<1>5. CASE t = Noted(s, name, f)
  <2>1. Noted(s, name, f).err = "ok" /\ IsFine(Noted(s, name, f))
    BY <1>1 DEF Noted, IsFine
  <2> QED BY <1>5, <2>1 DEF t
<1> QED BY <1>3, <1>4, <1>5

\* The frame a new decoder begins with.
ResetFrame(c, byte) ==
    IF Image[c].table = "ok" THEN ResetPoint(c, byte) ELSE 0

LEMMA InitClean ==
    ASSUME WellFormed, NEW c \in Chms, Whole(c), NEW h, NEW byte,
           ResetPoint(c, byte) < Len(Image[c].frames)
    PROVE  LET i == InitDecomp(c, h, byte, "none")
           IN  /\ i.state = NewDecoder(c, ResetFrame(c, byte)) /\ i.at = ResetFrame(c, byte)
               /\ i.err # "ok" => Image[c].table = "unreadable"
<1> DEFINE start == [h |-> h, err |-> "ok", ok |-> TRUE]
           content == FindSysFile(c, start, Content, "none")
           control == FindSysFile(c, content, Control, "none")
           find == FindSysFile(c, control, ResetTable, "none")
           table == ReadResetTable(c, control, byte, "none")
           spanFrom == [table EXCEPT !.ok = TRUE]
           span == FindSysFile(c, spanFrom, SpanInfo, "none")
           i == InitDecomp(c, h, byte, "none")
<1>1. {Content, Control, ResetTable, SpanInfo} \subseteq SystemFiles
  BY DEF SystemFiles
<1>2. IsFine(start) /\ start.err = "ok"
  BY DEF IsFine
<1> HIDE DEF start
<1>3. IsFine(content) /\ content.err = "ok"
  BY <1>1, <1>2, SysFileFound
<1> HIDE DEF content
<1>4. IsFine(control) /\ control.err = "ok"
  BY <1>1, <1>3, SysFileFound
<1> HIDE DEF control
<1>5. IsFine(find) /\ find.err = "ok"
  BY <1>1, <1>4, SysFileFound
<1>6. table = TableOf(c, find, byte, "none")
  BY DEF ReadResetTable
<1> HIDE DEF find, table
<1>7. find.ok = TRUE /\ control.ok = TRUE
  BY <1>4, <1>5 DEF IsFine
<1>8. /\ "ok" \in DOMAIN table
      /\ table.ok = (Image[c].table = "ok")
      /\ table.err # "ok" => Image[c].table = "unreadable"
  <2>1. "ok" \in DOMAIN find /\ find.err = "ok"
    BY <1>5 DEF IsFine
  <2>2. CASE Image[c].table = "unreadable"
    <3>1. table = [[find EXCEPT !.err = "read"] EXCEPT !.ok = FALSE]
      BY <1>6, <1>7, <2>2 DEF TableOf
    <3> QED BY <2>1, <2>2, <3>1
  <2>3. CASE Image[c].table # "unreadable"
    <3>1. PICK good : good = (Image[c].table = "ok")
      OBVIOUS
    <3>2. table = [find EXCEPT !.ok = good]
      BY <1>6, <1>7, <2>3, <3>1 DEF TableOf
    <3>3. table.ok = good /\ table.err = "ok" /\ "ok" \in DOMAIN table
      BY <2>1, <3>2
    <3> QED BY <3>1, <3>3
  <2> QED BY <2>2, <2>3
<1>9. IsFine(spanFrom) /\ spanFrom.err = table.err
  BY <1>8 DEF IsFine
<1> HIDE DEF spanFrom
<1>10. IsFine(span) /\ span.err \in {table.err, "ok"}
  BY <1>1, <1>9, SysFileFound
<1>11. i = IF table.ok THEN [h |-> table.h, err |-> table.err,
                             state |-> NewDecoder(c, ResetPoint(c, byte)),
                             at |-> ResetPoint(c, byte)]
           ELSE IF ~span.ok THEN [h |-> span.h, err |-> "dataformat", state |-> NULL, at |-> 0]
           ELSE [h |-> span.h, err |-> span.err, state |-> NewDecoder(c, 0), at |-> 0]
  BY <1>7 DEF InitDecomp, start, content, control, table, spanFrom
<1> HIDE DEF i, span
<1>12. /\ i.state = NewDecoder(c, ResetFrame(c, byte)) /\ i.at = ResetFrame(c, byte)
       /\ i.err # "ok" => Image[c].table = "unreadable"
  <2>1. CASE Image[c].table = "ok"
    <3>1. PICK r : r = ResetPoint(c, byte)
      OBVIOUS
    <3>2. i = [h |-> table.h, err |-> table.err, state |-> NewDecoder(c, r), at |-> r]
      BY <1>8, <1>11, <2>1, <3>1
    <3>3. ResetFrame(c, byte) = r
      BY <2>1, <3>1 DEF ResetFrame
    <3> QED BY <1>8, <3>2, <3>3
  <2>2. CASE Image[c].table # "ok"
    <3>1. i = [h |-> span.h, err |-> span.err, state |-> NewDecoder(c, 0), at |-> 0]
      BY <1>8, <1>10, <1>11, <2>2 DEF IsFine
    <3>2. ResetFrame(c, byte) = 0
      BY <2>2 DEF ResetFrame
    <3> QED BY <1>8, <1>10, <3>1, <3>2
  <2> QED BY <2>1, <2>2
<1> QED BY <1>12 DEF i

\* Quotients and products of the frame numbers.
LEMMA DivLe ==
    ASSUME NEW n \in Nat, NEW k \in Nat, NEW size \in Nat \ {0}
    PROVE  n \div size \in Nat /\ (k <= n \div size <=> k * size <= n) /\ k * size \in Nat
<1>1. PICK q, r : q = n \div size /\ r = n % size
  OBVIOUS
<1>2. q \in Nat /\ r \in 0 .. size - 1 /\ n = size * q + r
  BY <1>1, DivMod
<1>3. PICK p : p = q * size
  OBVIOUS
<1>4. p \in Nat /\ n = p + r /\ k * size \in Nat
  BY <1>2, <1>3
<1>5. CASE k <= q
  <2>1. k * size <= p
    BY <1>2, <1>3, <1>5
  <2> QED BY <1>1, <1>2, <1>4, <1>5, <2>1
<1>6. CASE ~(k <= q)
  <2>1. (q + 1) * size <= k * size /\ (q + 1) * size = q * size + size
    BY <1>2, <1>6
  <2>2. p + size <= k * size
    BY <1>3, <2>1
  <2>3. PICK x : x = k * size
    OBVIOUS
  <2>4. ~(x <= n)
    BY <1>2, <1>4, <2>2, <2>3
  <2> QED BY <1>1, <1>2, <1>4, <1>6, <2>3, <2>4
<1> QED BY <1>5, <1>6

\* A reset point is not after the byte that is wanted.
LEMMA ResetPointIs ==
    ASSUME NEW c \in Chms, NEW byte \in Nat
    PROVE  LET r == ResetPoint(c, byte)
           IN  r \in Nat /\ r * Frame \in Nat /\ r * Frame <= byte
<1>1. Frame \in Nat \ {0} /\ Image[c].interval \in Nat \ {0}
  BY ImageAssumption
<1>2. PICK interval : interval = Image[c].interval
  OBVIOUS
<1>3. PICK size : size = interval * Frame
  OBVIOUS
<1>4. size \in Nat \ {0}
  BY <1>1, <1>2, <1>3
<1>5. PICK q : q = byte \div size
  OBVIOUS
<1>6. q \in Nat /\ q * size <= byte
  <2>1. q \in Nat /\ (q <= q <=> q * size <= byte)
    <3>1. byte \div size \in Nat
      BY <1>4, DivLe
    <3> QED BY <1>4, <1>5, <3>1, DivLe
  <2> QED BY <2>1
<1>7. (q * interval) * Frame = q * size /\ q * interval \in Nat /\ q * size \in Nat
  BY <1>1, <1>2, <1>3, <1>4, <1>6
<1> QED BY <1>2, <1>3, <1>5, <1>6, <1>7 DEF ResetPoint

\* Nor is the frame a new decoder begins with.
LEMMA ResetFrameIs ==
    ASSUME NEW c \in Chms, NEW byte \in Nat
    PROVE  LET r == ResetFrame(c, byte)
           IN  r \in Nat /\ r * Frame \in Nat /\ r * Frame <= byte
<1>1. 0 * Frame = 0
  BY ImageAssumption
<1> QED BY <1>1, ResetPointIs DEF ResetFrame

\* The reset point of a byte of the stream is in the stream.
LEMMA ResetPointInside ==
    ASSUME NEW c \in Chms, NEW byte \in Nat, byte < Len(Image[c].frames) * Frame
    PROVE  ResetPoint(c, byte) < Len(Image[c].frames)
<1>1. PICK r, l : r = ResetPoint(c, byte) /\ l = Len(Image[c].frames)
  OBVIOUS
<1>2. r \in Nat /\ l \in Nat /\ Frame \in Nat \ {0} /\ r * Frame < l * Frame
  <2>1. l \in Nat /\ Frame \in Nat \ {0}
    BY <1>1, ImageAssumption
  <2>2. r \in Nat /\ r * Frame \in Nat /\ r * Frame <= byte
    BY <1>1, ResetPointIs
  <2>3. byte < l * Frame /\ l * Frame \in Nat
    BY <1>1, <2>1
  <2> QED BY <2>1, <2>2, <2>3
<1>3. CASE r >= l
  <2>1. r * Frame >= l * Frame
    BY <1>2, <1>3
  <2> QED BY <1>2, <2>1
<1> QED BY <1>1, <1>2, <1>3

\* A decoder that meets no damage before a byte gets there.
LEMMA CleanDecode ==
    ASSUME NEW c \in Chms, NEW t, t.chm = c, ~t.failed, t.next \in Nat, t.pos \in Nat,
           NEW to \in Nat, t.pos <= to, to <= Len(Image[c].frames) * Frame,
           \A k \in Nat : t.next <= k /\ k * Frame <= to /\ k < Len(Image[c].frames)
                             => Image[c].frames[k + 1]
    PROVE  LET u == Decode(t, t.next, to, "none")
           IN  /\ u.err = "ok" /\ u.state.chm = c /\ ~u.state.failed
               /\ u.state.next \in Nat /\ t.next <= u.state.next
               /\ u.state.pos = to
<1> DEFINE length == Len(Image[c].frames)
           upTo == Min({to \div Frame + 1, length})
           needed == IF to <= t.next * Frame THEN {} ELSE t.next .. upTo - 1
           bad == {f \in needed : t.next # t.next \/ ~Image[c].frames[f + 1]}
           u == Decode(t, t.next, to, "none")
           next == IF needed = {} THEN t.next ELSE upTo
<1>1. length \in Nat /\ Frame \in Nat \ {0}
  BY ImageAssumption
<1>2. /\ to \div Frame \in Nat
      /\ \A k \in Nat : k <= to \div Frame <=> k * Frame <= to
  BY <1>1, DivLe
<1> HIDE DEF length
<1>3. upTo \in Nat /\ upTo <= to \div Frame + 1 /\ upTo <= length
  <2>1. PICK q : q = to \div Frame
    OBVIOUS
  <2>2. {q + 1, length} \subseteq Nat
    BY <1>1, <1>2, <2>1
  <2>3. {to \div Frame + 1, length} \subseteq Nat
    BY <2>1, <2>2
  <2> QED BY <2>3, MinIs
<1> HIDE DEF upTo
<1>4. bad = {}
  <2>1. SUFFICES ASSUME NEW f \in needed PROVE Image[c].frames[f + 1]
    OBVIOUS
  <2>2. f \in t.next .. upTo - 1
    OBVIOUS
  <2>3. PICK q : q = to \div Frame
    OBVIOUS
  <2>4. f \in Nat /\ t.next <= f /\ f <= q /\ f < length
    BY <1>1, <1>2, <1>3, <2>2, <2>3
  <2> QED BY <1>2, <2>3, <2>4 DEF length
<1>5. next \in Nat /\ t.next <= next
  <2>1. CASE needed = {}
    BY <2>1
  <2>2. CASE needed # {}
    <3>1. PICK f : f \in t.next .. upTo - 1
      BY <2>2
    <3>2. t.next <= upTo
      BY <1>3, <3>1
    <3> QED BY <1>3, <2>2, <3>2
  <2> QED BY <2>1, <2>2
<1>6. ~(to < t.pos) /\ ~(to > length * Frame)
  BY <1>1 DEF length
<1>7. u.err = "ok" /\ u.state.next = next
  BY <1>4, <1>6 DEF Decode, LzxState, upTo, length
<1>8. u.state.chm = c /\ ~u.state.failed /\ u.state.pos = to
  BY <1>7, DecodeKeeps, DecodeReaches
<1> HIDE DEF u, next
<1> QED BY <1>5, <1>7, <1>8 DEF u

\* The frames of a compressed file that is clean.
LEMMA CleanFrames ==
    ASSUME NEW c \in Chms, NEW name \in NamesOf(Listing(c)), Clean(c, name),
           Entry(c, name).section = 1
    PROVE  LET f == Entry(c, name)
           IN  /\ f.offset + f.length <= Len(Image[c].frames) * Frame
               /\ \A k \in Nat :
                     /\ ResetFrame(c, f.offset) <= k /\ k * Frame <= f.offset + f.length
                     /\ k < Len(Image[c].frames)
                     => Image[c].frames[k + 1]
<1> DEFINE f == Entry(c, name)
           end == f.offset + f.length
           to == Min({end \div Frame, Len(Image[c].frames) - 1})
           from == ResetFrame(c, f.offset)
<1>1. /\ f.offset \in Nat /\ f.length \in Nat
      /\ Len(Image[c].frames) \in Nat /\ Frame \in Nat \ {0}
  BY EntryTyped, ImageAssumption
<1>2. /\ \A k \in from .. to : Image[c].frames[k + 1]
      /\ end <= Len(Image[c].frames) * Frame
  BY DEF Clean, ResetFrame
<1>3. from \in Nat
  BY <1>1, ResetFrameIs
<1>4. end \in Nat
  BY <1>1
<1> HIDE DEF f, from, end, to
<1>5. ASSUME NEW k \in Nat, from <= k, k * Frame <= end, k < Len(Image[c].frames)
      PROVE  Image[c].frames[k + 1]
  <2>1. end \div Frame \in Nat /\ k <= end \div Frame
    BY <1>1, <1>4, <1>5, DivLe
  <2>2. PICK q, l : q = end \div Frame /\ l = Len(Image[c].frames) - 1
    OBVIOUS
  <2>3. q \in Nat /\ l \in Nat /\ k <= q /\ k <= l
    BY <1>1, <1>5, <2>1, <2>2
  <2>4. to \in {q, l}
    BY <2>2, <2>3, MinIs DEF to
  <2>5. k \in from .. to
    BY <1>3, <1>5, <2>3, <2>4
  <2> QED BY <1>2, <2>5
<1> QED BY <1>2, <1>5 DEF f, from, end

\* From a decoder that stands before a clean file, but not before where a new one would
\* begin, the file is extracted.
LEMMA CleanUnpack ==
    ASSUME NEW c \in Chms, NEW name \in NamesOf(Listing(c)), Clean(c, name),
           Entry(c, name).section = 1,
           NEW begun, begun.inoffset = begun.state.next,
           begun.state.chm = c, ~begun.state.failed,
           begun.state.next \in Nat, begun.state.pos \in Nat,
           ResetFrame(c, Entry(c, name).offset) <= begun.state.next,
           begun.state.pos <= Entry(c, name).offset,
           Unpack(c, name, "none", "ok", begun)
    PROVE  \E file : Extracted(c, name, "none", "ok", file)
<1> DEFINE f == Entry(c, name)
           end == f.offset + f.length
           t == begun.state
           from == ResetFrame(c, f.offset)
           Intact(k) == Image[c].frames[k + 1]
           skip == Decode(t, begun.inoffset, f.offset, "none")
           at == IF skip.state.next = t.next THEN begun.inoffset ELSE skip.state.next
           unpack == Decode(skip.state, at, end, "none")
           written == Bytes(skip.state.chm, 1, skip.state.pos, unpack.state.pos)
<1>1. f.offset \in Nat /\ f.length \in Nat /\ end \in Nat /\ f.offset <= end
  BY EntryTyped
<1>2. /\ \A k \in Nat : from <= k /\ k * Frame <= end /\ k < Len(Image[c].frames) => Intact(k)
      /\ end <= Len(Image[c].frames) * Frame
  BY CleanFrames
<1>3. from \in Nat /\ Frame \in Nat
  BY <1>1, ResetFrameIs, ImageAssumption
<1>4. t.next \in Nat /\ t.pos \in Nat /\ from <= t.next /\ t.pos <= f.offset
      /\ t.chm = c /\ ~t.failed /\ begun.inoffset = t.next
  OBVIOUS
<1>5. skip.err # "ok" \/ unpack.err # "ok" \/ Extracted(c, name, "none", unpack.err, written)
  BY DEF Unpack
<1>10. f.offset <= Len(Image[c].frames) * Frame
  <2>1. Len(Image[c].frames) \in Nat
    BY ImageAssumption
  <2>2. PICK l : l = Len(Image[c].frames) * Frame
    OBVIOUS
  <2>3. l \in Nat
    BY <1>3, <2>1, <2>2
  <2>4. end <= l
    BY <1>2, <2>2
  <2> HIDE DEF f, end
  <2> QED BY <1>1, <2>2, <2>3, <2>4
<1> HIDE DEF f, end, t, from, written
<1>6. \A n, k, to \in Nat : /\ from <= n /\ n <= k /\ k * Frame <= to /\ to <= end
                            /\ k < Len(Image[c].frames)
                            => Intact(k)
  <2>1. \A n, k, to \in Nat : from <= n /\ n <= k /\ k * Frame <= to /\ to <= end
                              => from <= k /\ k * Frame <= end
    <3> SUFFICES ASSUME NEW n \in Nat, NEW k \in Nat, NEW to \in Nat,
                        from <= n, n <= k, k * Frame <= to, to <= end
                 PROVE  from <= k /\ k * Frame <= end
      OBVIOUS
    <3>1. k * Frame \in Nat
      BY <1>3
    <3> QED BY <1>1, <1>3, <3>1
  <2> QED BY <1>2, <2>1
<1> HIDE DEF Intact
<1>7. /\ skip.err = "ok" /\ skip.state.chm = c /\ ~skip.state.failed
      /\ skip.state.next \in Nat /\ t.next <= skip.state.next
      /\ skip.state.pos = f.offset
  <2>1. \A k \in Nat : t.next <= k /\ k * Frame <= f.offset /\ k < Len(Image[c].frames)
                          => Intact(k)
    BY <1>1, <1>4, <1>6
  <2>2. skip = Decode(t, t.next, f.offset, "none")
    BY <1>4
  <2> QED BY <1>1, <1>4, <1>10, <2>1, <2>2, CleanDecode DEF Intact
<1>8. at = skip.state.next
  BY <1>4
<1> HIDE DEF skip, at
<1>9. unpack.err = "ok"
  <2>1. from <= skip.state.next
    BY <1>3, <1>4, <1>7
  <2>2. \A k \in Nat : skip.state.next <= k /\ k * Frame <= end /\ k < Len(Image[c].frames)
                          => Intact(k)
    BY <1>1, <1>6, <1>7, <2>1
  <2>3. unpack = Decode(skip.state, skip.state.next, end, "none")
    BY <1>8
  <2> QED BY <1>1, <1>2, <1>7, <2>2, <2>3, CleanDecode DEF Intact
<1> QED BY <1>5, <1>7, <1>9

-----------------------------------------------------------------------------
\* The position of a decoder and the frame it reads next are numbers.
Typed(s) == s.state # NULL => s.state.next \in Nat /\ s.state.pos \in Nat

LEMMA DecodeTyped ==
    ASSUME NEW t, t.chm \in Chms, t.next \in Nat, NEW at, NEW to \in Nat, NEW fault,
           Decode(t, at, to, fault).err = "ok"
    PROVE  LET u == Decode(t, at, to, fault) IN u.state.next \in Nat /\ u.state.pos \in Nat
<1> DEFINE length == Len(Image[t.chm].frames)
           upTo == Min({to \div Frame + 1, length})
           u == Decode(t, at, to, fault)
<1>1. length \in Nat /\ to \div Frame \in Nat
  BY DivLe, ImageAssumption
<1>2. upTo \in Nat
  <2>1. PICK q : q = to \div Frame
    OBVIOUS
  <2>2. {q + 1, length} \subseteq Nat
    BY <1>1, <2>1
  <2>3. {to \div Frame + 1, length} \subseteq Nat
    BY <2>1, <2>2
  <2> QED BY <2>3, MinIs
<1> HIDE DEF upTo
<1>3. u.state.next \in {t.next, upTo}
  BY DEF Decode, LzxState, upTo
<1>4. u.state.pos = to
  BY DecodeReaches
<1> HIDE DEF u
<1> QED BY <1>2, <1>3, <1>4 DEF u

LEMMA InitTyped ==
    ASSUME NEW c \in Chms, NEW h, NEW byte \in Nat, NEW fault
    PROVE  LET i == InitDecomp(c, h, byte, fault)
           IN  /\ i.state # NULL => i.state.chm = c /\ i.state.next \in Nat /\ i.state.pos \in Nat
               /\ i.err = "ok" => i.state.chm = c /\ i.state.next \in Nat
<1> DEFINE i == InitDecomp(c, h, byte, fault)
           r == ResetPoint(c, byte)
<1>1. i.state \in {NewDecoder(c, r), NewDecoder(c, 0)} \/ (i.state = NULL /\ i.err # "ok")
  BY DEF InitDecomp
<1>2. r \in Nat /\ 0 \in Nat
  BY ResetPointIs
<1>3. \A n \in Nat : n * Frame \in Nat
  BY ImageAssumption
<1>4. \A n \in Nat : LET t == NewDecoder(c, n)
                     IN  t.chm = c /\ t.next \in Nat /\ t.pos \in Nat
  BY <1>3 DEF NewDecoder, LzxState
<1> HIDE DEF i, r
<1> QED BY <1>1, <1>2, <1>4 DEF i

LEMMA CompressedTyped ==
    ASSUME IInv, d # NULL => Typed(d), NEW c \in Chms, NEW name \in NamesOf(Listing(c)),
           NEW fault, ExtractCompressed(c, name, fault)
    PROVE  Typed(d')
<1> DEFINE f == Entry(c, name)
           end == f.offset + f.length
           s == InputOf(c)
           new == InitDecomp(c, header[c], f.offset, fault)
           init == IF NeedsReset(f, s) THEN new
                   ELSE [h |-> header[c], err |-> "ok", state |-> s.state, at |-> s.inoffset]
           begun == IF init.state = NULL THEN NoDecoder(c, TRUE)
                    ELSE State(c, TRUE, IF NeedsReset(f, s) THEN init.state.pos ELSE s.offset,
                               init.state, init.at)
           skip == Decode(begun.state, begun.inoffset, f.offset, fault)
           at == IF skip.state.next = begun.state.next THEN begun.inoffset ELSE skip.state.next
           unpack == Decode(skip.state, at, end, fault)
<1>1. \/ d' = begun
      \/ skip.err # "ok" /\ d' = AfterDecoding(c, skip.state, skip.err)
      \/ d' = AfterDecoding(c, skip.state, "write")
      \/ init.err = "ok" /\ skip.err = "ok" /\ d' = AfterDecoding(c, unpack.state, unpack.err)
  BY DEF ExtractCompressed, UnpackFrom, Unpack, Begun
<1>2. f.offset \in Nat /\ end \in Nat
  BY EntryTyped
<1>3. /\ s.state # NULL => s.state.chm = c /\ s.state.next \in Nat /\ s.state.pos \in Nat
      /\ ~NeedsReset(f, s) => s.state # NULL
  BY InputOfSteady DEF InputOf, HasInput, NoDecoder, State, Typed, Steady, NeedsReset
<1>4. /\ init.state # NULL => init.state.chm = c /\ init.state.next \in Nat /\ init.state.pos \in Nat
      /\ init.err = "ok" => init.state.chm = c /\ init.state.next \in Nat
  <2>1. CASE NeedsReset(f, s)
    <3>1. init = new
      BY <2>1
    <3> HIDE DEF init, s, f
    <3> QED BY <1>2, <3>1, InitTyped
  <2>2. CASE ~NeedsReset(f, s)
    <3>1. init.state = s.state
      BY <2>2
    <3> HIDE DEF init, s, f
    <3> QED BY <1>3, <2>2, <3>1
  <2> QED BY <2>1, <2>2
<1>5. begun.state = init.state
  BY DEF NoDecoder, State
<1> HIDE DEF f, end, s, init, begun
<1>6. init.err = "ok" /\ skip.err = "ok" => skip.state.chm \in Chms /\ skip.state.next \in Nat
  <2> SUFFICES ASSUME init.err = "ok", skip.err = "ok"
               PROVE  skip.state.chm \in Chms /\ skip.state.next \in Nat
    OBVIOUS
  <2>1. begun.state.chm \in Chms /\ begun.state.next \in Nat
    BY <1>4, <1>5
  <2>2. skip.state.chm = begun.state.chm
    BY DEF Decode, LzxState
  <2> QED BY <1>2, <2>1, <2>2, DecodeTyped
<1> HIDE DEF skip, at
<1>7. init.err = "ok" /\ skip.err = "ok" /\ unpack.err = "ok"
         => unpack.state.next \in Nat /\ unpack.state.pos \in Nat
  BY <1>2, <1>6, DecodeTyped
<1> HIDE DEF unpack
<1>8. ASSUME NEW t, NEW err, err = "ok" => t.next \in Nat /\ t.pos \in Nat
      PROVE  Typed(AfterDecoding(c, t, err))
  BY <1>8 DEF AfterDecoding, NoDecoder, State, Typed
<1>9. Typed(begun)
  BY <1>4, <1>5 DEF Typed
<1> QED BY <1>1, <1>7, <1>8, <1>9

-----------------------------------------------------------------------------
(* A second try.                                                             *)

\* With this state the next extraction of a clean file does not fail: there is no decoder,
\* and the reset table can be read; or it is no help and the decoder is at the beginning.
Ready(c, s) ==
    \/ s.state = NULL /\ Image[c].table # "unreadable"
    \/ s.state # NULL /\ s.state.next = 0 /\ s.state.pos = 0 /\ Image[c].table # "ok"

\* What an extraction of a clean file that fails by itself leaves.
Beginning(c) == State(c, TRUE, 0, NewDecoder(c, 0), 0)

Left(c, s) ==
    \/ s = NoDecoder(c, TRUE) /\ Image[c].table = "ok"
    \/ s = Beginning(c) /\ Image[c].table = "unreadable"

LEMMA DecoderIsThere ==
    ASSUME NEW c \in Chms, NEW n \in Nat
    PROVE  NewDecoder(c, n) # NULL /\ NewDecoder(c, n) \in Decoders
<1>1. n * Frame \in Nat
  BY ImageAssumption
<1>2. NewDecoder(c, n) \in Decoders
  BY <1>1 DEF NewDecoder, LzxState, Decoders
<1> QED BY <1>2, NullAssumption

\* The input is still there when the next extraction begins.
LEMMA LeftIsReady ==
    ASSUME NEW c \in Chms, Left(c, d')
    PROVE  Ready(c, InputOf(c)')
<1>1. CASE d' = NoDecoder(c, TRUE) /\ Image[c].table = "ok"
  <2>1. InputOf(c)'.state = NULL
    BY <1>1 DEF InputOf, HasInput, NoDecoder, State
  <2> QED BY <1>1, <2>1 DEF Ready
<1>2. CASE d' = Beginning(c) /\ Image[c].table = "unreadable"
  <2>1. NewDecoder(c, 0) # NULL /\ NewDecoder(c, 0) \in Decoders
    BY DecoderIsThere
  <2>2. Beginning(c) \in States
    BY <2>1 DEF Beginning, State, States
  <2>3. d' # NULL /\ d'.infh /\ d'.chm = c /\ d'.state = NewDecoder(c, 0)
    BY <1>2, <2>2, NullAssumption DEF Beginning, State
  <2>4. InputOf(c)' = d'
    BY <2>3 DEF InputOf, HasInput
  <2>5. NewDecoder(c, 0).next = 0 /\ NewDecoder(c, 0).pos = 0
    BY ImageAssumption DEF NewDecoder, LzxState
  <2>6. Image[c].table # "ok"
    BY <1>2
  <2> QED BY <2>1, <2>3, <2>4, <2>5, <2>6 DEF Ready
<1> QED BY <1>1, <1>2 DEF Left

\* With nothing going wrong outside, a decoder that is there succeeds or is freed.
LEMMA UnpackEnds ==
    ASSUME NEW c, NEW name, NEW begun, Unpack(c, name, "none", "ok", begun)
    PROVE  (\E file : Extracted(c, name, "none", "ok", file)) \/ d' = NoDecoder(c, TRUE)
<1> DEFINE f == Entry(c, name)
           skip == Decode(begun.state, begun.inoffset, f.offset, "none")
           at == IF skip.state.next = begun.state.next THEN begun.inoffset ELSE skip.state.next
           unpack == Decode(skip.state, at, f.offset + f.length, "none")
           written == Bytes(skip.state.chm, 1, skip.state.pos, unpack.state.pos)
<1>1. \/ skip.err # "ok" /\ d' = AfterDecoding(c, skip.state, skip.err)
      \/ d' = AfterDecoding(c, unpack.state, unpack.err)
         /\ Extracted(c, name, "none", unpack.err, written)
  BY DEF Unpack
<1> HIDE DEF skip, unpack, written
<1>2. ASSUME NEW t, NEW err, err # "ok" PROVE AfterDecoding(c, t, err) = NoDecoder(c, TRUE)
  BY <1>2 DEF AfterDecoding
<1>3. CASE skip.err # "ok" /\ d' = AfterDecoding(c, skip.state, skip.err)
  BY <1>2, <1>3
<1>4. CASE /\ d' = AfterDecoding(c, unpack.state, unpack.err)
           /\ Extracted(c, name, "none", unpack.err, written)
  <2>1. CASE unpack.err = "ok"
    BY <1>4, <2>1
  <2>2. CASE unpack.err # "ok"
    BY <1>2, <1>4, <2>2
  <2> QED BY <2>1, <2>2
<1> QED BY <1>1, <1>3, <1>4

\* An extraction of a clean file, with nothing going wrong outside: it succeeds, and it
\* does so whenever the state is ready.
LEMMA CleanExtract ==
    ASSUME WellFormed, IInv, d # NULL => Typed(d),
           NEW c \in Chms, NEW name \in NamesOf(Listing(c)), Whole(c), Clean(c, name),
           ExtractCompressed(c, name, "none")
    PROVE  \/ \E file : Extracted(c, name, "none", "ok", file)
           \/ ~Ready(c, InputOf(c)) /\ Left(c, d')
<1> DEFINE f == Entry(c, name)
           s == InputOf(c)
           r == ResetFrame(c, f.offset)
           new == InitDecomp(c, header[c], f.offset, "none")
           kept == [h |-> header[c], err |-> "ok", state |-> s.state, at |-> s.inoffset]
<1>1. f.section = 1 /\ f.offset \in Nat /\ r \in Nat /\ r * Frame \in Nat /\ r * Frame <= f.offset
  BY EntryTyped, ResetFrameIs DEF ExtractCompressed
<1>2. /\ s.state # NULL =>
            /\ s.state.chm = c /\ s.state.next \in Nat /\ s.state.pos \in Nat /\ ~s.state.failed
            /\ s.offset = s.state.pos /\ s.inoffset = s.state.next
  BY InputOfSteady DEF InputOf, HasInput, NoDecoder, State, Typed, Steady
<1>3. CASE NeedsReset(f, s)
  <2> DEFINE begun == Begun(c, s, new, TRUE)
  <2>1. /\ new.state = NewDecoder(c, r) /\ new.at = r
        /\ new.err # "ok" => Image[c].table = "unreadable"
    <3>1. f.offset < f.offset + f.length
      BY EntryTyped DEF ExtractCompressed
    <3>2. f.offset < Len(Image[c].frames) * Frame
      BY <1>1, <3>1, EntryTyped, CleanFrames, ImageAssumption
    <3>3. ResetPoint(c, f.offset) < Len(Image[c].frames)
      BY <1>1, <3>2, ResetPointInside
    <3> QED BY <3>3, InitClean
  <2>2. NewDecoder(c, r) # NULL
    BY <1>1, DecoderIsThere
  <2>3. begun = State(c, TRUE, NewDecoder(c, r).pos, NewDecoder(c, r), r)
    BY <2>1, <2>2 DEF Begun
  <2>4. NewDecoder(c, r).pos = r * Frame /\ NewDecoder(c, r).next = r
        /\ NewDecoder(c, r).chm = c /\ ~NewDecoder(c, r).failed
    BY DEF NewDecoder, LzxState
  <2>5. Unpack(c, name, "none", new.err, begun)
    BY <1>3 DEF ExtractCompressed, UnpackFrom
  <2> HIDE DEF new, begun
  <2>6. CASE new.err = "ok"
    <3>1. begun.inoffset = r /\ begun.state = NewDecoder(c, r)
      BY <2>3 DEF State
    <3>2. r <= r
      BY <1>1
    <3> QED BY <1>1, <2>4, <2>5, <2>6, <3>1, <3>2, CleanUnpack
  <2>7. CASE new.err # "ok"
    <3>1. Image[c].table = "unreadable" /\ d' = begun
      BY <2>1, <2>5, <2>7 DEF Unpack
    <3>2. r = 0
      BY <3>1 DEF ResetFrame
    <3>3. NewDecoder(c, r).pos = 0
      BY <2>4, <3>2, ImageAssumption
    <3>4. d' = Beginning(c)
      BY <2>3, <3>1, <3>2, <3>3 DEF Beginning
    <3>5. ~Ready(c, s)
      BY <1>1, <1>2, <1>3, <3>1 DEF Ready, NeedsReset
    <3> QED BY <3>1, <3>4, <3>5 DEF Left
  <2> QED BY <2>6, <2>7
<1>4. CASE ~NeedsReset(f, s)
  <2> DEFINE begun == Begun(c, s, kept, NeedsReset(f, s))
  <2>1. s.state # NULL /\ ~(f.offset < s.offset)
    BY <1>4 DEF NeedsReset
  <2>2. begun.inoffset = s.inoffset /\ begun.state = s.state
    BY <2>1 DEF Begun, State
  <2>3. Unpack(c, name, "none", "ok", begun)
    <3>1. UnpackFrom(c, name, "none", IF NeedsReset(f, s) THEN new ELSE kept, NeedsReset(f, s))
      BY DEF ExtractCompressed
    <3>2. UnpackFrom(c, name, "none", kept, NeedsReset(f, s))
      <4> HIDE DEF new, kept, f, s
      <4> QED BY <1>4, <3>1
    <3>3. kept.err = "ok"
      OBVIOUS
    <3> HIDE DEF kept, f
    <3> QED BY <3>2, <3>3 DEF UnpackFrom
  <2> HIDE DEF s, begun, f
  <2>4. CASE Image[c].table = "ok"
    <3>1. ~Ready(c, s)
      BY <2>1, <2>4 DEF Ready
    <3> QED BY <2>3, <2>4, <3>1, UnpackEnds DEF Left, s
  <2>5. CASE Image[c].table # "ok"
    <3>1. r = 0
      BY <2>5 DEF ResetFrame
    <3>2. r <= begun.state.next /\ begun.state.pos <= f.offset
      BY <1>1, <1>2, <2>1, <2>2, <3>1
    <3> QED BY <1>1, <1>2, <2>1, <2>2, <2>3, <3>2, CleanUnpack DEF f
  <2> QED BY <2>4, <2>5
<1> QED BY <1>3, <1>4

\* A name that the caller has is one of the directory.
FoundIsListed ==
    /\ found = [c \in Chms |-> found[c]]
    /\ \A c \in Chms : found[c] # 0 => found[c] \in NamesOf(Listing(c))

\* A clean file whose extraction failed by itself will be extracted.
RetryIsReady ==
    (/\ last.op = "extract" /\ last.res # "ok" /\ last.fault = "none"
     /\ Whole(last.chm) /\ Clean(last.chm, last.name)) =>
        Ready(last.chm, InputOf(last.chm))

RetryInv ==
    /\ IInv /\ FoundIsListed
    /\ d # NULL => Typed(d)
    /\ RetryIsReady

LEMMA ExtractedIs ==
    ASSUME NEW c, NEW name, NEW fault, NEW res, NEW file, Extracted(c, name, fault, res, file)
    PROVE  /\ last'.op = "extract" /\ last'.chm = c /\ last'.name = name
           /\ last'.res = res /\ last'.fault = fault
           /\ last'.again => /\ last.op = "extract" /\ last.chm = c /\ last.name = name
                             /\ last.res # "ok" /\ last.fault = "none"
BY DEF Extracted

\* Calls that are not extract.
LEMMA OthersReady ==
    ASSUME last' = Nothing
    PROVE  RetryIsReady' /\ SecondTrySucceeds'
BY DEF Nothing, RetryIsReady, SecondTrySucceeds

\* What extract does but for the compressed section.
LEMMA PlainExtract ==
    ASSUME IInv, d # NULL => Typed(d), NEW c \in Chms, NEW name, NEW fault,
           Extract(c, name, fault), ~ExtractCompressed(c, name, fault)
    PROVE  /\ Typed(d')
           /\ \E res, file : /\ Extracted(c, name, fault, res, file)
                             /\ fault = "none" => res = "ok"
<1>1. CASE ExtractNoInput(c, name, fault)
  BY <1>1 DEF ExtractNoInput, NoDecoder, State, Typed
<1>2. CASE ExtractNoOutput(c, name, fault)
  BY <1>2 DEF ExtractNoOutput, InputOf, HasInput, NoDecoder, State, Typed
<1>3. CASE ExtractEmpty(c, name, fault)
  BY <1>3 DEF ExtractEmpty, InputOf, HasInput, NoDecoder, State, Typed
<1>4. CASE ExtractStored(c, name, fault)
  <2>1. Typed(d')
    BY <1>4 DEF ExtractStored, InputOf, HasInput, NoDecoder, State, Typed
  <2>2. \E file : Extracted(c, name, fault, IF fault = "none" THEN "ok" ELSE fault, file)
    BY <1>4 DEF ExtractStored
  <2> QED BY <2>1, <2>2
<1> QED BY <1>1, <1>2, <1>3, <1>4 DEF Extract

LEMMA CompressedIsExtracted ==
    ASSUME NEW c, NEW name, NEW fault, ExtractCompressed(c, name, fault)
    PROVE  \E res, file : Extracted(c, name, fault, res, file)
BY DEF ExtractCompressed, UnpackFrom, Unpack

LEMMA ExtractReady ==
    ASSUME WellFormed, RetryInv, NEW c \in Chms, IsOpen(c), NEW name \in Available(c), NEW fault,
           Extract(c, name, fault)
    PROVE  Typed(d') /\ RetryIsReady' /\ SecondTrySucceeds'
<1>1. name \in NamesOf(Listing(c))
  BY DEF Available, RetryInv, FoundIsListed
<1>2. IInv /\ (d # NULL => Typed(d)) /\ RetryIsReady
  BY DEF RetryInv
<1>3. Typed(d')
  BY <1>1, <1>2, PlainExtract, CompressedTyped
<1>4. PICK res, file : /\ Extracted(c, name, fault, res, file)
                       /\ ~ExtractCompressed(c, name, fault) /\ fault = "none" => res = "ok"
  BY <1>2, PlainExtract, CompressedIsExtracted
<1>5. /\ last'.op = "extract" /\ last'.chm = c /\ last'.name = name
      /\ last'.res = res /\ last'.fault = fault
      /\ last'.again => /\ last.op = "extract" /\ last.chm = c /\ last.name = name
                        /\ last.res # "ok" /\ last.fault = "none"
  BY <1>4, ExtractedIs
<1>6. ASSUME fault = "none", Whole(c), Clean(c, name), res # "ok"
      PROVE  ~Ready(c, InputOf(c)) /\ Left(c, d')
  <2>1. ExtractCompressed(c, name, "none")
    BY <1>4, <1>6
  <2>2. ~\E x : Extracted(c, name, "none", "ok", x)
    BY <1>5, <1>6, ExtractedIs
  <2> QED BY <1>1, <1>2, <1>6, <2>1, <2>2, CleanExtract
<1>7. Left(c, d') => Ready(c, InputOf(c)')
  BY LeftIsReady
<1>8. RetryIsReady'
  BY <1>5, <1>6, <1>7 DEF RetryIsReady
<1>9. SecondTrySucceeds'
  <2> SUFFICES ASSUME last'.again, last'.fault = "none", Whole(last'.chm),
                      Clean(last'.chm, last'.name)
               PROVE  last'.res = "ok"
    BY DEF SecondTrySucceeds
  <2>1. fault = "none" /\ Whole(c) /\ Clean(c, name)
    BY <1>5
  <2>2. Ready(c, InputOf(c))
    BY <1>2, <1>5, <2>1 DEF RetryIsReady
  <2> QED BY <1>5, <1>6, <2>1, <2>2
<1> QED BY <1>3, <1>8, <1>9

LEMMA InitRetry == Init => RetryInv /\ SecondTrySucceeds
<1> SUFFICES ASSUME Init PROVE RetryInv /\ SecondTrySucceeds
  OBVIOUS
<1>1. IInv /\ d = NULL
  BY InitIInv DEF Init
<1>2. FoundIsListed
  BY DEF Init, FoundIsListed
<1>3. last = Nothing
  BY DEF Init
<1>4. RetryIsReady /\ SecondTrySucceeds
  BY <1>3 DEF Nothing, RetryIsReady, SecondTrySucceeds
<1> QED BY <1>1, <1>2, <1>4 DEF RetryInv

\* fast_find finds what is listed.
LEMMA FoundKeeps ==
    ASSUME WellFormed, FoundIsListed, NEW c \in Chms, NEW name \in Names, NEW fault,
           FastFind(c, name, fault)
    PROVE  FoundIsListed'
<1> DEFINE f == Find(c, header[c], name, fault)
           n == IF f.hit /\ fault # "open" THEN name ELSE 0
<1>1. f.hit => name \in NamesOf(Listing(c))
  BY FindIs DEF WellFormed
<1>2. found' = [found EXCEPT ![c] = n]
  BY DEF FastFind
<1>3. n # 0 => n \in NamesOf(Listing(c))
  BY <1>1
<1> HIDE DEF n
<1> QED BY <1>2, <1>3 DEF FoundIsListed

\* The state of the decoder is there or not after a call that does not use it.
LEMMA OthersTyped ==
    ASSUME d # NULL => Typed(d), d' = d \/ d' = NULL
    PROVE  (d # NULL => Typed(d))'
BY DEF Typed

LEMMA NextRetry ==
    ASSUME WellFormed, RetryInv, SecondTrySucceeds, [Next]_vars
    PROVE  RetryInv' /\ SecondTrySucceeds'
<1>1. IInv /\ FoundIsListed /\ (d # NULL => Typed(d)) /\ RetryIsReady
  BY DEF RetryInv
<1>2. IInv'
  BY <1>1, NextIInv
<1>3. CASE UNCHANGED vars
  <2>1. FoundIsListed' /\ (d # NULL => Typed(d))'
    BY <1>1, <1>3 DEF vars, FoundIsListed, Typed
  <2>2. RetryIsReady' /\ SecondTrySucceeds'
    BY <1>1, <1>3 DEF vars, RetryIsReady, SecondTrySucceeds, InputOf, HasInput
  <2> QED BY <1>2, <2>1, <2>2 DEF RetryInv
<1>4. ASSUME last' = Nothing, d' = d \/ d' = NULL, FoundIsListed'
      PROVE  RetryInv' /\ SecondTrySucceeds'
  BY <1>1, <1>2, <1>4, OthersReady, OthersTyped DEF RetryInv
<1>5. CASE Next
  <2>1. PICK c \in Chms, fault \in Faults :
           \/ \E entire \in BOOLEAN : Open(c, entire, fault)
           \/ Close(c)
           \/ \E name \in Names : FastFind(c, name, fault)
           \/ IsOpen(c) /\ \E name \in Available(c) : Extract(c, name, fault)
    BY <1>5 DEF Next
  <2>2. CASE \E entire \in BOOLEAN : Open(c, entire, fault)
    <3>1. last' = Nothing /\ d' = d /\ found' = found
      BY <2>2 DEF Open
    <3>2. FoundIsListed'
      BY <1>1, <3>1 DEF FoundIsListed
    <3> QED BY <1>4, <3>1, <3>2
  <2>3. CASE Close(c)
    <3>1. last' = Nothing /\ (d' = d \/ d' = NULL)
      BY <2>3 DEF Close, CloseState
    <3>2. FoundIsListed'
      BY <1>1, <2>3 DEF Close, FoundIsListed
    <3> QED BY <1>4, <3>1, <3>2
  <2>4. CASE \E name \in Names : FastFind(c, name, fault)
    <3>1. last' = Nothing /\ d' = d
      BY <2>4 DEF FastFind
    <3>2. FoundIsListed'
      BY <1>1, <2>4, FoundKeeps
    <3> QED BY <1>4, <3>1, <3>2
  <2>5. ASSUME IsOpen(c), NEW name \in Available(c), Extract(c, name, fault)
        PROVE  RetryInv' /\ SecondTrySucceeds'
    <3>1. Typed(d') /\ RetryIsReady' /\ SecondTrySucceeds'
      BY <2>5, ExtractReady
    <3>2. (d # NULL => Typed(d))'
      BY <3>1 DEF Typed
    <3>3. FoundIsListed'
      BY <1>1, <2>5 DEF Extract, FoundIsListed
    <3> QED BY <1>2, <3>1, <3>2, <3>3 DEF RetryInv
  <2> QED BY <2>1, <2>2, <2>3, <2>4, <2>5
<1> QED BY <1>3, <1>5

\* SecondTrySucceeds: a file of the stream for which a new decoder reads only intact
\* frames, the one after a file that ends with a frame included, and whose extraction
\* failed with nothing going wrong outside, is extracted when it is tried once more. What failed left no decoder, or one
\* at the beginning of the stream where the reset table cannot be read, and then the next
\* call does not need the table.
THEOREM SecondTryDoes ==
    ASSUME WellFormed
    PROVE  Spec => []SecondTrySucceeds
<1>1. Init => RetryInv /\ SecondTrySucceeds
  BY InitRetry
<1>2. RetryInv /\ SecondTrySucceeds /\ [Next]_vars => RetryInv' /\ SecondTrySucceeds'
  BY NextRetry
<1> QED BY <1>1, <1>2, PTL DEF Spec
=============================================================================
