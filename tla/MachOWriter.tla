----------------------------- MODULE MachOWriter -----------------------------
(***************************************************************************)
(* MachOWriter and MachOHeader (src/runtime/vm/mach_o.cc): content is      *)
(* added with AddText/AddROData, then MachOWriter::Finalize runs the       *)
(* header's phase pipeline (GenerateUuid, CreateBSS,                       *)
(* GenerateUnwindingInformation, FinalizeDwarfSections,                    *)
(* InitializeSymbolTables, GenerateMiscellaneousCommands,                  *)
(* FinalizeCommands, ComputeOffsets) and writes the segments through a     *)
(* hashing stream (when there is a code signature) or a plain one.         *)
(*                                                                         *)
(* Each phase is an operator on the header record                          *)
(*   H = [cmds: the commands_ list, full: full_symtab_]                    *)
(* and Finalize is their composition, as in MachOHeader::Finalize.         *)
(***************************************************************************)
EXTENDS MachOLoadCommands

CONSTANTS
  Type,             \* "Snapshot" or "DebugInfo"
  Stripped,         \* is_stripped_ (no DWARF given to the writer)
  Path,             \* path_ for the N_OSO symbol, "" for nullptr
  TargetMacOS,      \* DART_TARGET_OS_MACOS: no __eh_frame, LC_LOAD_DYLIB
  DwarfSizes,       \* bytes of the abbreviation, info and line programs
  EhFrameSize(_),   \* bytes of the call frame records for n text portions
  VmInstructions, IsolateInstructions, VmData, IsolateData,
  VmBss, IsolateBss,            \* the symbol names used by CreateBSS
  VmBssLabel, IsolateBssLabel,  \* SharedObjectWriter::kVmBssLabel, ...
  VmBssSize, IsolateBssSize,    \* BSS::k*EntryCount * kWordSize
  InitialCapacity, BufferIncrement,
  TextPortions,     \* the AddText calls of the snapshot writer, as
  DataPortions      \* [name, label, size, syms]; AddROData calls likewise

ASSUME Type \in {"Snapshot", "DebugInfo"}
ASSUME Stripped => Type = "Snapshot"   \* only snapshots are stripped

HS == INSTANCE MachOHashingStream

VARIABLES
  commands,  \* header_.commands_
  symtab,    \* header_.full_symtab_, the table used to resolve labels
  pc,        \* "adding" until Finalize, then "done"
  out,       \* what the write traversal observed, see WriteResult
  ends       \* ContentOffsetsVisitor's cursor after each segment

vars == <<commands, symtab, pc, out, ends>>

(***************************************************************************)
(* Lookup helpers.                                                         *)
(***************************************************************************)
\* Index of the segment named name in cmds, 0 if none (FindSegment).
SegIdx(cmds, name) ==
  LET is == {i \in DOMAIN cmds : cmds[i].kind = "segment" /\ cmds[i].name = name}
  IN IF is = {} THEN 0 ELSE CHOOSE i \in is : TRUE

HasCommand(cmds, kind) == \E i \in DOMAIN cmds : cmds[i].kind = kind

\* The sections of all segments, in command and contents order.
AllSections(cmds) ==
  FlattenSeq([i \in DOMAIN cmds |->
    IF cmds[i].kind = "segment"
    THEN SelectSeq(cmds[i].contents, LAMBDA c : c.kind = "section")
    ELSE <<>>])

\* Applies F to the segment named name.
UpdateSeg(cmds, name, F(_)) ==
  [cmds EXCEPT ![SegIdx(cmds, name)] = F(@)]

(***************************************************************************)
(* Adding content.                                                         *)
(***************************************************************************)
\* MachOHeader::EnsureTextSegment.
EnsureTextSegment(cmds) ==
  IF SegIdx(cmds, SegText) # 0 THEN cmds
  ELSE Append(cmds, NewSegment(SegText))

\* AddText and AddROData: both add a portion to a section of the text
\* segment, creating the section (with contents only for snapshots) first.
AddToTextSegment(cmds, sectName, name, label, size, syms) ==
  LET c1 == EnsureTextSegment(cmds)
      seg == c1[SegIdx(c1, SegText)]
      withSect == IF FindSection(seg, sectName) # 0 THEN seg
                  ELSE AddContents(seg, NewSection(sectName, FALSE,
                                                   Type = "Snapshot", PageSize))
      k == FindSection(withSect, sectName)
  IN [c1 EXCEPT ![SegIdx(c1, SegText)] =
        [withSect EXCEPT !.contents[k] = AddPortion(@, size, syms, name, label)]]

AddText(name, label, size, syms) ==
  /\ pc = "adding"
  /\ commands' = AddToTextSegment(commands, SectText, name, label, size, syms)
  /\ UNCHANGED <<symtab, pc, out, ends>>

AddROData(name, label, size, syms) ==
  /\ pc = "adding"
  /\ commands' = AddToTextSegment(commands, SectConst, name, label, size, syms)
  /\ UNCHANGED <<symtab, pc, out, ends>>

TextSection(cmds) ==
  LET seg == cmds[SegIdx(cmds, SegText)] IN seg.contents[FindSection(seg, SectText)]

HasTextSection(cmds) ==
  SegIdx(cmds, SegText) # 0 /\ FindSection(cmds[SegIdx(cmds, SegText)], SectText) # 0

(***************************************************************************)
(* The Finalize phases.                                                    *)
(***************************************************************************)
\* GenerateUuid: an LC_UUID command when there is a text section. The
\* hashed contents are abstracted; only the command's presence matters.
GenerateUuid(H) ==
  IF HasTextSection(H.cmds)
  THEN [H EXCEPT !.cmds = Append(@, NewHeaderOnlyCommand("uuid"))]
  ELSE H

\* CreateBSS: a data segment whose zerofill __bss section has one portion
\* per text portion, sized for the VM or the isolate group, each carrying
\* a section symbol with the matching BSS label.
BssPortion(p) ==
  IF p.name = VmInstructions
  THEN [size |-> VmBssSize, sym |-> VmBss, label |-> VmBssLabel]
  ELSE [size |-> IsolateBssSize, sym |-> IsolateBss, label |-> IsolateBssLabel]

CreateBSS(H) ==
  LET text == TextSection(H.cmds)
      add(sec, p) ==
        LET b == BssPortion(p)
        IN AddPortion(sec, b.size,
                      << [name |-> b.sym, type |-> "Section", offset |-> 0,
                          size |-> b.size, label |-> b.label] >>, "", 0)
      bss == Foldl(add, NewSection("__bss", TRUE, FALSE, WordSize),
                      text.portions)
  IN [H EXCEPT !.cmds = Append(@, AddContents(NewSegment(SegData), bss))]

\* GenerateUnwindingInformation: off MacOS, an __eh_frame section in the
\* text segment, zerofill in debugging information.
GenerateUnwindingInformation(H) ==
  IF TargetMacOS \/ ~HasTextSection(H.cmds) THEN H
  ELSE LET zerofill == Type = "DebugInfo"
           n == Len(TextSection(H.cmds).portions)
           eh == AddPortion(NewSection("__eh_frame", zerofill, ~zerofill, WordSize),
                            EhFrameSize(n), <<>>, "", 0)
       IN [H EXCEPT !.cmds = UpdateSeg(@, SegText, LAMBDA s : AddContents(s, eh))]

\* FinalizeDwarfSections: with DWARF, a __DWARF segment holding the three
\* debug sections (alignment 1).
FinalizeDwarfSections(H) ==
  IF Stripped THEN H
  ELSE LET debug(name, size) ==
             AddPortion(NewSection(name, FALSE, TRUE, 1), size, <<>>, "", 0)
           seg == Foldl(AddContents, NewSegment(SegDwarf),
                           << debug("__debug_abbrev", DwarfSizes[1]),
                              debug("__debug_info", DwarfSizes[2]),
                              debug("__debug_line", DwarfSizes[3]) >>)
       IN [H EXCEPT !.cmds = Append(@, seg)]

\* The commands InitializeSymbolTables adds for the full table: a
\* MachOSymbolTable whose contents are the table's nlist entries and
\* strings (nlocal is what the dysymtab reports), and for snapshots a
\* MachODynamicSymbolTable.
SymbolTablesAdded(H, full) ==
  LET written == [kind |-> "symtab", size |-> SymbolTableSize(full),
                  nsyms |-> Len(full.symbols), strsize |-> full.strings.len,
                  nlocal |-> full.nlocal, off |-> Unset, addr |-> Unset]
      dysymtab == IF Type = "Snapshot"
                  THEN << [kind |-> "dysymtab", size |-> 0, nlocal |-> full.nlocal,
                           nexternal |-> full.nexternal, off |-> Unset,
                           addr |-> Unset] >>
                  ELSE <<>>
  IN [H EXCEPT !.full = full, !.cmds = Append(@, written) \o dysymtab]

\* InitializeSymbolTables: the full table is always initialized unstripped.
\* For stripped output the code builds a second, stripped table in an inner
\* scope whose `table` shadows the outer one; that table is then dropped and
\* the outer `table`, the full one, is the command added. So the stripped
\* table never reaches any state and is not modelled.
InitializeSymbolTables(H) ==
  SymbolTablesAdded(H, Initialize(Path, AllSections(H.cmds), FALSE))

\* GenerateMiscellaneousCommands.
GenerateMiscellaneousCommands(H) ==
  LET dylibs == IF Type = "Snapshot"
                THEN << NewHeaderOnlyCommand("iddylib") >>
                     \o (IF TargetMacOS THEN << NewHeaderOnlyCommand("loaddylib") >>
                         ELSE <<>>)
                ELSE <<>>
  IN [H EXCEPT !.cmds = Append(@, NewHeaderOnlyCommand("buildversion")) \o dylibs]

\* First section index of each segment of segs, sections numbered from 1.
SectionStarts(segs) ==
  [j \in DOMAIN segs |->
     1 + SumSeq([i \in 1..(j - 1) |-> NumSections(segs[i])])]

\* index_map of FinalizeCommands: old section index -> new section index,
\* with NO_SECT (0) mapped to itself.
SectionIndexMap(oldSegs, newSegs) ==
  LET os == SectionStarts(oldSegs)
      ns == SectionStarts(newSegs)
      n == SumSeq([j \in DOMAIN oldSegs |-> NumSections(oldSegs[j])])
      owner(k) == CHOOSE j \in DOMAIN oldSegs :
                    os[j] <= k /\ k < os[j] + NumSections(oldSegs[j])
      newPos(name) == CHOOSE j \in DOMAIN newSegs : newSegs[j].name = name
  IN [k \in 0..n |-> IF k = 0 THEN 0
                     ELSE ns[newPos(oldSegs[owner(k)].name)] + k - os[owner(k)]]

\* A FinalizeCommands that puts the segments without symbols before the
\* segments with symbols.
FinalizeCommandsOthersFirst(H) ==
  LET cmds == H.cmds
      isSeg(c) == c.kind = "segment"
      headerOnly == SelectSeq(cmds, LAMBDA c : ~isSeg(c) /\ ~HasContents(c))
      linkeditCmds ==
        SelectSeq(cmds, LAMBDA c : ~isSeg(c) /\ HasContents(c))
        \o (IF Type = "Snapshot" THEN << NewLinkeditCommand("codesig", 0) >>
            ELSE <<>>)
      oldSegs == SelectSeq(cmds, isSeg)
      symbolSegs == SelectSeq(oldSegs, LAMBDA s : s.name # SegText
                                               /\ SegmentContainsSymbols(s))
      otherSegs == SelectSeq(oldSegs, LAMBDA s : s.name # SegText
                                              /\ ~SegmentContainsSymbols(s))
      linkedit == Foldl(AddContents, NewSegment(SegLinkedit), linkeditCmds)
      segments == << AddContents(cmds[SegIdx(cmds, SegText)], NewHeader) >>
                  \o otherSegs \o symbolSegs \o << linkedit >>
  IN [H EXCEPT !.cmds = headerOnly \o segments \o linkeditCmds,
               !.full = UpdateSectionIndices(@, SectionIndexMap(oldSegs, segments))]

\* FinalizeCommands: header-only commands, then the text segment (now
\* holding the header), the segments with symbols, the other segments, a
\* new linkedit segment holding every other command (and, for snapshots, a
\* code signature as its last contents), then those commands themselves.
\* Symbol section indices are renumbered to the new order.
FinalizeCommands(H) ==
  LET cmds == H.cmds
      isSeg(c) == c.kind = "segment"
      headerOnly == SelectSeq(cmds, LAMBDA c : ~isSeg(c) /\ ~HasContents(c))
      linkeditCmds ==
        SelectSeq(cmds, LAMBDA c : ~isSeg(c) /\ HasContents(c))
        \o (IF Type = "Snapshot" THEN << NewLinkeditCommand("codesig", 0) >>
            ELSE <<>>)
      oldSegs == SelectSeq(cmds, isSeg)
      symbolSegs == SelectSeq(oldSegs, LAMBDA s : s.name # SegText
                                               /\ SegmentContainsSymbols(s))
      otherSegs == SelectSeq(oldSegs, LAMBDA s : s.name # SegText
                                              /\ ~SegmentContainsSymbols(s))
      linkedit == Foldl(AddContents, NewSegment(SegLinkedit), linkeditCmds)
      segments == << AddContents(cmds[SegIdx(cmds, SegText)], NewHeader) >>
                  \o symbolSegs \o otherSegs \o << linkedit >>
  IN [H EXCEPT !.cmds = headerOnly \o segments \o linkeditCmds,
               !.full = UpdateSectionIndices(@, SectionIndexMap(oldSegs, segments))]

(***************************************************************************)
(* ComputeOffsets: ContentOffsetsVisitor folded over the segments. The     *)
(* cursor is [fo: file_offset, ma: memory_address, amap: address_map].     *)
(***************************************************************************)
\* ContentOffsetsVisitor::Default, first half: the contents is placed at
\* the cursor rounded up to its alignment, in the file if it has contents
\* and in memory if it is allocated.
PlaceContents(cur, c) ==
  LET c1 == IF HasContents(c) THEN [c EXCEPT !.off = RoundUp(cur.fo, Alignment(c))]
            ELSE c
  IN IF IsAllocated(c) THEN [c1 EXCEPT !.addr = RoundUp(cur.ma, Alignment(c))]
     ELSE c1

\* A cursor that records the section address before aligning it.
CursorAfterUnaligned(cur, n, cmds) ==
  [fo |-> IF HasContents(n) THEN n.off + SelfFileSize(n, cmds) ELSE cur.fo,
   ma |-> IF IsAllocated(n) THEN n.addr + SelfMemorySize(n, cmds) ELSE cur.ma,
   amap |-> IF n.kind = "section" THEN Append(cur.amap, cur.ma) ELSE cur.amap]

\* Default, second half, and VisitMachOSection: the cursor moves past the
\* placed contents n, and a section's address is added to address_map.
CursorAfter(cur, n, cmds) ==
  [fo |-> IF HasContents(n) THEN n.off + SelfFileSize(n, cmds) ELSE cur.fo,
   ma |-> IF IsAllocated(n) THEN n.addr + SelfMemorySize(n, cmds) ELSE cur.ma,
   amap |-> IF n.kind = "section" THEN Append(cur.amap, n.addr) ELSE cur.amap]

\* The visit of one contents of a segment, none of which has children:
\* acc is [cur, kids], kids the segment's contents visited so far.
VisitedContents(acc, n, cmds) ==
  [cur |-> CursorAfter(acc.cur, n, cmds), kids |-> Append(acc.kids, n)]

VisitContents(acc, c, cmds) ==
  VisitedContents(acc, PlaceContents(acc.cur, c), cmds)

\* ContentOffsetsVisitor::VisitMachOSegment: the segment starts on a page;
\* after its children the file cursor is padded to a page unless the
\* segment is not padded, the memory cursor always.
PlaceSegment(cur, seg) ==
  [seg EXCEPT !.off = RoundUp(cur.fo, PageSize), !.addr = RoundUp(cur.ma, PageSize)]

SegmentEnd(s1, r) ==
  [cur |-> [fo |-> IF PadFileSizeToAlignment(s1) THEN RoundUp(r.cur.fo, PageSize)
                   ELSE r.cur.fo,
            ma |-> RoundUp(r.cur.ma, PageSize), amap |-> r.cur.amap],
   node |-> [s1 EXCEPT !.contents = r.kids]]

VisitPlacedSegment(s1, amap, cmds) ==
  SegmentEnd(s1, Foldl(LAMBDA acc, c : VisitContents(acc, c, cmds),
                       [cur |-> [fo |-> s1.off + SelfFileSize(s1, cmds),
                                 ma |-> s1.addr + SelfMemorySize(s1, cmds),
                                 amap |-> amap],
                        kids |-> << >>],
                       s1.contents))

VisitSegment(cur, seg, cmds) == VisitPlacedSegment(PlaceSegment(cur, seg), cur.amap, cmds)

\* ComputeOffsets: visits the segments in command order, then finalizes the
\* symbol values with the address map. ends records the visitor's cursor
\* after each segment, the values its ASSERT_EQUALs compare. The fold's
\* accumulator is [cur, cmds, ends].
SegmentVisited(acc, i, v) ==
  [cur |-> v.cur, cmds |-> [acc.cmds EXCEPT ![i] = v.node],
   ends |-> (i :> << v.cur.fo, v.cur.ma >>) @@ acc.ends]

VisitCommand(acc, i, cmds) ==
  IF cmds[i].kind # "segment" THEN acc
  ELSE SegmentVisited(acc, i, VisitSegment(acc.cur, cmds[i], cmds))

\* address_map as a function from section index (0 is NO_SECT) to address.
AddressMap(amap) == [k \in 0..(Len(amap) - 1) |-> amap[k + 1]]

OffsetsComputed(H, r) ==
  [H EXCEPT !.cmds = r.cmds, !.full = FinalizeValues(@, AddressMap(r.cur.amap)),
            !.ends = r.ends]

ComputeOffsets(H) ==
  OffsetsComputed(H, Foldl(LAMBDA acc, i : VisitCommand(acc, i, H.cmds),
                           [cur |-> [fo |-> 0, ma |-> 0, amap |-> << 0 >>],
                            cmds |-> H.cmds, ends |-> << >>],
                           [i \in 1..Len(H.cmds) |-> i]))

\* MachOHeader::Finalize: the phases, applied in the order it calls them.
FinalizePhases ==
  << "GenerateUuid", "CreateBSS", "GenerateUnwindingInformation",
     "FinalizeDwarfSections", "InitializeSymbolTables",
     "GenerateMiscellaneousCommands", "FinalizeCommands", "ComputeOffsets" >>

ApplyPhase(H, phase) ==
  CASE phase = "GenerateUuid"                  -> GenerateUuid(H)
    [] phase = "CreateBSS"                     -> CreateBSS(H)
    [] phase = "GenerateUnwindingInformation"  -> GenerateUnwindingInformation(H)
    [] phase = "FinalizeDwarfSections"         -> FinalizeDwarfSections(H)
    [] phase = "InitializeSymbolTables"        -> InitializeSymbolTables(H)
    [] phase = "GenerateMiscellaneousCommands" -> GenerateMiscellaneousCommands(H)
    [] phase = "FinalizeCommands"              -> FinalizeCommands(H)
    [] phase = "ComputeOffsets"                -> ComputeOffsets(H)

HeaderFinalize(H) == Foldl(ApplyPhase, H, FinalizePhases)

(***************************************************************************)
(* Writing: WriteVisitor over the segments, as a list of stream            *)
(* operations: [op |-> "align"|"write"|"at"|"sign", n |-> ...]. "at" is    *)
(* one of the visitor's ASSERT_EQUALs of the position against the layout; *)
(* "sign" is MachOCodeSignature::WriteSelf.                                *)
(***************************************************************************)
\* WriteSelf of the contents of a segment.
WriteSelfOps(c, cmds) ==
  CASE c.kind = "section" ->
         FlattenSeq([j \in DOMAIN c.portions |->
           << Op("align", c.align), Op("at", c.off + c.portions[j].offset),
              Op("write", c.portions[j].size) >>])
    [] c.kind = "codesig" -> << Op("sign", 0) >>
    [] c.kind = "header" -> HeaderWriteOps(c.off, cmds)
    [] c.kind = "symtab" -> SymtabWriteOps(c)
    [] OTHER -> << Op("write", SelfMemorySize(c, cmds)) >>  \* dysymtab

\* WriteVisitor::Default for the contents of a segment.
WriteContentsOps(c, cmds) ==
  IF ~HasContents(c) THEN << >>
  ELSE << Op("align", Alignment(c)), Op("at", c.off) >>
       \o WriteSelfOps(c, cmds)
       \o << Op("at", c.off + SelfFileSize(c, cmds)) >>

\* A segment write that leaves out the padding after the children.
WriteSegmentOpsUnpadded(seg, cmds) ==
  IF ~HasContents(seg) THEN << >>
  ELSE << Op("align", PageSize), Op("at", seg.off) >>
       \o FlattenSeq([j \in DOMAIN seg.contents |->
                        WriteContentsOps(seg.contents[j], cmds)])
       \o << Op("at", seg.off + SegmentFileSize(seg, cmds)) >>

\* WriteVisitor::Default for a segment, padding after the children.
WriteSegmentOps(seg, cmds) ==
  IF ~HasContents(seg) THEN << >>
  ELSE << Op("align", PageSize), Op("at", seg.off) >>
       \o FlattenSeq([j \in DOMAIN seg.contents |->
                        WriteContentsOps(seg.contents[j], cmds)])
       \o (IF PadFileSizeToAlignment(seg) THEN << Op("align", PageSize) >>
           ELSE << >>)
       \o << Op("at", seg.off + SegmentFileSize(seg, cmds)) >>

\* VisitSegments(&visitor).
WriteOps(cmds) ==
  FlattenSeq([i \in DOMAIN cmds |->
    IF cmds[i].kind = "segment" THEN WriteSegmentOps(cmds[i], cmds) ELSE << >>])

\* One stream operation. w is [s: stream, misplaced, sigHashes, sigHashedEnd].
\* For "sign": FinalizeHashedContent, then the superblob and directory
\* header up to the hashes, then WriteHashes with the stream's own count.
ApplyOp(w, o) ==
  CASE o.op = "align" -> [w EXCEPT !.s = HS!Align(@, o.n)]
    [] o.op = "write" -> [w EXCEPT !.s = HS!WriteBytes(@, o.n)]
    [] o.op = "at"    -> [w EXCEPT !.misplaced = @ \/ HS!Position(w.s) # o.n]
    [] o.op = "sign"  ->
         LET f == HS!FinalizeHashedContent(w.s)
             header == HS!WriteBytes(f, DirectoryOffset + HashOffset)
         IN [w EXCEPT !.s = HS!WriteBytes(header,
                                          HS!NumHashes(f) * Sizeof["hash"]),
                      !.sigHashes = HS!NumHashes(f),
                      !.sigHashedEnd = HS!HashedEnd(f)]

\* MachOWriter::Finalize after the header's: a hashing stream when there is
\* a code signature, else a plain one (a stream that never hashes); the
\* stream's destructor flushes the rest.
StreamClosed(w, s) ==
  [end |-> HS!Position(s), misplaced |-> w.misplaced,
   sigHashes |-> w.sigHashes, sigHashedEnd |-> w.sigHashedEnd,
   hashes |-> s.hashes]

\* The written file once the stream's destructor has flushed the rest.
Written(w) == StreamClosed(w, HS!Destroy(w.s))

WriteResult(cmds) ==
  Written(Foldl(ApplyOp,
                [s |-> [HS!NewStream EXCEPT !.hashing = HasCommand(cmds, "codesig")],
                 misplaced |-> FALSE, sigHashes |-> 0, sigHashedEnd |-> 0],
                WriteOps(cmds)))

(***************************************************************************)
(* Relocation: what the write stream resolves a label to.                 *)
(***************************************************************************)
\* Index of the command of the given kind (FindCommand), 0 if none.
CommandIdx(cmds, kind) ==
  LET is == {i \in DOMAIN cmds : cmds[i].kind = kind}
  IN IF is = {} THEN 0 ELSE CHOOSE i \in is : TRUE

\* MachOWriteStream::HasValueForLabel: the build ID label is not a symbol
\* but the file position of the LC_UUID load command in the header (the
\* header's file offset plus the command's header_offset); every other
\* label is looked up in the full symbol table. None when nothing is
\* found.
ValueForLabel(cmds, t, label, buildIdLabel) ==
  IF label = buildIdLabel
  THEN IF CommandIdx(cmds, "uuid") = 0 THEN None
       ELSE cmds[SegIdx(cmds, SegText)].contents[1].off
            + HeaderOffset(cmds, CommandIdx(cmds, "uuid"))
  ELSE IF FindLabel(t, label) = None THEN None
       ELSE FindLabel(t, label).value

(***************************************************************************)
(* The specification.                                                      *)
(***************************************************************************)
NoOutput == [end |-> 0, misplaced |-> FALSE, sigHashes |-> 0,
             sigHashedEnd |-> 0, hashes |-> << >>]

Init ==
  /\ commands = << >>
  /\ symtab = NewSymbolTable
  /\ pc = "adding"
  /\ out = NoOutput
  /\ ends = << >>

\* The state after MachOHeader::Finalize produced H and the visitor wrote
\* H's commands.
Finalized(H) ==
  /\ commands' = H.cmds
  /\ symtab' = H.full
  /\ ends' = H.ends
  /\ out' = WriteResult(H.cmds)

\* MachOWriter::Finalize. CreateBSS asserts a text section exists.
Finalize ==
  /\ pc = "adding"
  /\ HasTextSection(commands)
  /\ Finalized(HeaderFinalize([cmds |-> commands, full |-> symtab, ends |-> << >>]))
  /\ pc' = "done"

\* Names of the portions added so far.
AddedNames ==
  LET secs == AllSections(commands)
  IN UNION { { secs[i].portions[j].name : j \in DOMAIN secs[i].portions } :
             i \in DOMAIN secs }

\* The image writer adds each of the VM and isolate instructions and data
\* at most once, in any order, then finalizes.
Next ==
  \/ \E r \in TextPortions :
       r.name \notin AddedNames /\ AddText(r.name, r.label, r.size, r.syms)
  \/ \E r \in DataPortions :
       r.name \notin AddedNames /\ AddROData(r.name, r.label, r.size, r.syms)
  \/ Finalize

Spec == Init /\ [][Next]_vars

(***************************************************************************)
(* Properties.                                                             *)
(***************************************************************************)
CommandKinds == {"segment", "uuid", "buildversion", "iddylib", "loaddylib",
                 "symtab", "dysymtab", "codesig"}

\* The segments, in command order, once finalized.
Segments == SelectSeq(commands, LAMBDA c : c.kind = "segment")

\* The linkedit contents of the given kind.
LinkeditNodes(kind) ==
  LET le == Segments[Len(Segments)]
  IN {le.contents[j] : j \in {j \in DOMAIN le.contents : le.contents[j].kind = kind}}

TypeOK ==
  /\ pc \in {"adding", "done"}
  /\ \A i \in DOMAIN commands : commands[i].kind \in CommandKinds
  /\ symtab.nlocal \in {Unset} \cup Nat
  /\ symtab.nexternal \in {Unset} \cup Nat
  /\ out.end \in Nat /\ out.misplaced \in BOOLEAN
  /\ out.sigHashes \in Nat /\ out.sigHashedEnd \in Nat
  /\ DOMAIN ends \subseteq DOMAIN commands

\* ContentOffsetsVisitor's end-of-segment checks: the cursor after visiting
\* each segment is the segment's offset plus its FileSize() and its address
\* plus its MemorySize(), which are computed by a separate recursion over
\* the contents (MachOSegment::FileSize/UnpaddedMemorySize). If the two
\* disagree, the load commands describe a layout the file does not have.
LayoutTiling ==
  pc = "done" =>
    \A i \in DOMAIN ends :
      ends[i] = << commands[i].off + SegmentFileSize(commands[i], commands),
                   commands[i].addr + SegmentMemorySize(commands[i], commands) >>

\* Every labelled portion and symbol resolves, through the full symbol
\* table, to the final memory address of its section plus its offset. This
\* needs Initialize's section numbering, FinalizeCommands' index_map and
\* ComputeOffsets' address_map to agree (relocations depend on it).
LabelResolution ==
  pc = "done" =>
    LET secs == AllSections(commands)
    IN \A i \in DOMAIN secs : \A j \in DOMAIN secs[i].portions :
         LET p == secs[i].portions[j]
             base == secs[i].addr + p.offset
         IN /\ p.label > 0 =>
                 /\ FindLabel(symtab, p.label) # None
                 /\ FindLabel(symtab, p.label).value = base
            /\ \A k \in DOMAIN p.syms :
                 p.syms[k].label > 0 =>
                   /\ FindLabel(symtab, p.syms[k].label) # None
                   /\ FindLabel(symtab, p.syms[k].label).value
                        = base + p.syms[k].offset

\* WriteVisitor's position checks: every contents and segment is written
\* exactly at the file offset ComputeOffsets gave it and fills exactly its
\* FileSize(), and the file ends where the layout cursor did.
WriteMatchesLayout ==
  pc = "done" =>
    /\ ~out.misplaced
    /\ out.end = ends[Max(DOMAIN ends)][1]

\* A signed snapshot's code signature is its last contents, its hashes
\* cover every byte before it in whole chunks, and their number is the
\* ExpectedNumHashes() the directory length was computed from before any
\* byte was written (MachOCodeSignature::WriteSelf asserts the count).
SignatureSealsFile ==
  (pc = "done" /\ Type = "Snapshot") =>
    \E sig \in LinkeditNodes("codesig") :
      /\ out.sigHashes = ExpectedNumHashes(sig.off)
      /\ out.sigHashedEnd = sig.off
      /\ HS!IsChunkTiling(out.hashes, sig.off)
      /\ out.end = sig.off + SelfMemorySize(sig, commands)

\* The LC_DYSYMTAB a snapshot writes splits the symbols of the LC_SYMTAB it
\* writes into adjacent ranges that cover them all: first the local
\* symbols (section symbols and symbolic debugging entries), then exactly
\* the external ones. dyld looks up exported symbols only in the second
\* range, so the counts of Initialize's two loops and the order its
\* AddSymbol calls leave must agree.
DynamicSymbolRanges ==
  (pc = "done" /\ Type = "Snapshot") =>
    \A s \in LinkeditNodes("symtab"), d \in LinkeditNodes("dysymtab") :
      LET nsyms == SymtabOffsetCounts(s)[1][2]
          r == DysymtabOffsetCounts(d)
      IN /\ r[1][1] = 0
         /\ r[2][1] = r[1][1] + r[1][2]
         /\ r[3][1] = r[2][1] + r[2][2]
         /\ r[3][1] + r[3][2] = nsyms
         /\ nsyms = Len(symtab.symbols)
         /\ \A k \in 1..nsyms :
              (k > r[1][2]) <=> symtab.symbols[k].type = "SECT_EXT"

\* The runtime finds the build ID the writer put in the file: OS::GetAppBuildId,
\* walking the written load commands by their cmdsize from the header size
\* its magic implies, stops at the LC_UUID command and returns exactly the
\* UUID bytes WriteLoadCommand wrote after the command's prefix, at the
\* command's header_offset in the file (WriteSelf writes the header at
\* file offset 0), and nothing when there is no LC_UUID.
AppBuildIdReadable ==
  pc = "done" =>
    LET u == CommandIdx(commands, "uuid") IN
    GetAppBuildId(WrittenHeader(commands)) =
      IF u = 0 THEN NoBuildId
      ELSE [length |-> UuidLength, at |-> HeaderOffset(commands, u) + PrefixSize]

\* A stripped snapshot's written symbol table holds no local symbols: the
\* comment in InitializeSymbolTables says the table written for stripped
\* output "will only contain what's needed for the dynamic symbol table".
StrippedTableHasNoLocals ==
  (pc = "done" /\ Stripped) =>
    \A t \in LinkeditNodes("symtab") : t.nlocal = 0
=============================================================================
