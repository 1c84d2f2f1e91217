---------------------------- MODULE MachOContents ----------------------------
(***************************************************************************)
(* The content tree of the Mach-O writer (src/runtime/vm/mach_o.cc):       *)
(* MachOContents and its subclasses as records, and their size, alignment *)
(* and insertion operations.                                               *)
(*                                                                         *)
(* Every node has the two write-once fields file_offset (off) and          *)
(* memory_address (addr). As in the constructor of MachOContents they      *)
(* start at Unset (kLinearInitValue) when the node needs them and at 0     *)
(* when it does not, and HasContents/IsAllocated of most nodes are         *)
(* "the field is not 0". Nodes:                                            *)
(*   section  [name, zerofill, align, portions, off, addr]                 *)
(*   segment  [name, contents, next, off, addr]; next is                   *)
(*            next_contents_index_, the number of contents with bytes      *)
(*   header   [off, addr]; its load commands are the writer's commands     *)
(*   symtab, dysymtab, codesig: linkedit commands with file contents       *)
(*   uuid, buildversion, iddylib, loaddylib: header-only load commands     *)
(* Byte contents are abstracted away; sizes are kept exactly.              *)
(***************************************************************************)
EXTENDS Integers, Sequences, SequencesExt

CONSTANTS
  PageSize,          \* MachOWriter::kPageSize
  WordSize,          \* compiler::target::kWordSize
  ChunkSize,         \* MachOWriteStream::kChunkSize
  Sizeof,            \* sizeof of the mach_o:: structs written, by name
  IdentifierLength,  \* strlen(identifier_) of the snapshot
  SystemDylibNameLength  \* strlen(kSystemDylibName)

Unset == -1   \* kLinearInitValue

RoundUp(x, a) == ((x + a - 1) \div a) * a
\* Left fold of op over the sequence s, as a loop over it does. acc is
\* evaluated at each step (acc = acc), so that TLC does not build a deep
\* chain of deferred applications on long sequences.
RECURSIVE Foldl(_, _, _)
Foldl(op(_, _), acc, s) ==
  IF acc = acc /\ s # << >> THEN Foldl(op, op(acc, Head(s)), Tail(s)) ELSE acc

SumSeq(s) == Foldl(LAMBDA acc, x : acc + x, 0, s)

SegText == "__TEXT"
SegData == "__DATA"
SegDwarf == "__DWARF"
SegLinkedit == "__LINKEDIT"

\* Code signature layout (MachOCodeSignature).
HeaderAlignment == 8    \* kHeaderAlignment
HashAlignment == 16     \* kHashAlignment

(***************************************************************************)
(* Constructors.                                                           *)
(***************************************************************************)
\* MachOSection(zone, name, type, attributes, has_contents, alignment).
NewSection(name, zerofill, hasContents, align) ==
  [kind |-> "section", name |-> name, zerofill |-> zerofill, align |-> align,
   portions |-> <<>>, off |-> IF hasContents THEN Unset ELSE 0,
   addr |-> Unset]

\* MachOSegment(zone, name, ...): file_offset starts unset, set in
\* ComputeOffsets whether or not the segment has contents.
NewSegment(name) ==
  [kind |-> "segment", name |-> name, contents |-> <<>>, next |-> 0,
   off |-> Unset, addr |-> Unset]

\* Commands with linkedit contents: MachOCommand(kCommandCode) with the
\* default needs_offset and in_segment; size is the symbol table's size.
NewLinkeditCommand(kind, size) ==
  [kind |-> kind, size |-> size, off |-> Unset, addr |-> Unset]

\* Load commands only: needs_offset = in_segment = false.
NewHeaderOnlyCommand(kind) == [kind |-> kind, off |-> 0, addr |-> 0]

NewHeader == [kind |-> "header", off |-> Unset, addr |-> Unset]

(***************************************************************************)
(* Queries.                                                                *)
(***************************************************************************)
HasContents(n) ==
  CASE n.kind = "segment" -> n.next > 0
    [] n.kind = "header"  -> TRUE
    [] OTHER              -> n.off # 0

IsAllocated(n) == n.kind \in {"segment", "header"} \/ n.addr # 0

Alignment(n) ==
  CASE n.kind = "section" -> n.align
    [] n.kind = "segment" -> PageSize
    [] n.kind = "codesig" -> HashAlignment
    [] OTHER              -> WordSize   \* header, symtab, dysymtab

NumSections(seg) ==
  Len(SelectSeq(seg.contents, LAMBDA c : c.kind = "section"))

\* cmdsize() of each kind of load command.
CmdSize(c) ==
  CASE c.kind = "segment" ->
         Sizeof["segment_command"] + NumSections(c) * Sizeof["section"]
    [] c.kind = "iddylib" ->
         RoundUp(Sizeof["dylib_command"] + IdentifierLength + 1, WordSize)
    [] c.kind = "loaddylib" ->
         RoundUp(Sizeof["dylib_command"] + SystemDylibNameLength + 1,
                 WordSize)
    [] c.kind = "codesig" -> Sizeof["linkedit_data_command"]
    [] OTHER -> Sizeof[c.kind]   \* uuid, buildversion, symtab, dysymtab

\* MachOCodeSignature's directory layout, given its own file offset.
DirectoryOffset ==
  RoundUp(Sizeof["cs_superblob"] + Sizeof["cs_blob_index"], HeaderAlignment)
IdentOffset ==
  RoundUp(DirectoryOffset + Sizeof["cs_code_directory"], HeaderAlignment)
    - DirectoryOffset
HashOffset ==
  RoundUp(DirectoryOffset + IdentOffset + IdentifierLength + 1, HashAlignment)
    - DirectoryOffset
ExpectedNumHashes(off) == (off + ChunkSize - 1) \div ChunkSize
DirectoryLength(off) == HashOffset + ExpectedNumHashes(off) * Sizeof["hash"]

\* SelfMemorySize(); the header's includes the load commands of cmds.
SelfMemorySize(n, cmds) ==
  CASE n.kind = "section" ->
         Last(n.portions).offset + Last(n.portions).size
    [] n.kind = "header" ->
         Sizeof["mach_header"] + SumSeq([i \in DOMAIN cmds |-> CmdSize(cmds[i])])
    [] n.kind = "symtab"  -> n.size
    [] n.kind = "codesig" -> DirectoryOffset + DirectoryLength(n.off)
    [] OTHER              -> 0   \* segment, dysymtab

SelfFileSize(n, cmds) ==
  IF HasContents(n) THEN SelfMemorySize(n, cmds) ELSE 0

\* The linkedit segment is not padded so that the code signature stays the
\* last contents of the file.
PadFileSizeToAlignment(seg) == seg.name # SegLinkedit

\* MachOContents::FileSize() for nodes other than segments.
ContentFileSize(n, cmds) ==
  IF HasContents(n) THEN SelfMemorySize(n, cmds) ELSE 0

\* A FileSize that adds the children's sizes without their alignment.
SegmentFileSizeUnaligned(seg, cmds) ==
  LET step(acc, c) == acc + ContentFileSize(c, cmds)
      tiled == Foldl(step, SelfFileSize(seg, cmds), seg.contents)
  IN IF PadFileSizeToAlignment(seg) THEN RoundUp(tiled, PageSize) ELSE tiled

\* MachOSegment::FileSize(): tiles the children that have contents from 0,
\* each rounded up to its alignment, then pads to the page size.
SegmentFileSize(seg, cmds) ==
  LET step(acc, c) ==
        IF HasContents(c) THEN RoundUp(acc, Alignment(c)) + ContentFileSize(c, cmds)
        ELSE acc
      tiled == Foldl(step, SelfFileSize(seg, cmds), seg.contents)
  IN IF PadFileSizeToAlignment(seg) THEN RoundUp(tiled, PageSize) ELSE tiled

\* An UnpaddedMemorySize that adds the children's sizes without aligning.
UnpaddedMemorySizeUnaligned(seg, cmds) ==
  LET step(acc, c) == acc + SelfMemorySize(c, cmds)
  IN Foldl(step, SelfMemorySize(seg, cmds), seg.contents)

\* MachOSegment::UnpaddedMemorySize(): all children are allocated.
UnpaddedMemorySize(seg, cmds) ==
  LET step(acc, c) == RoundUp(acc, Alignment(c)) + SelfMemorySize(c, cmds)
  IN Foldl(step, SelfMemorySize(seg, cmds), seg.contents)

\* MachOSegment::MemorySize().
SegmentMemorySize(seg, cmds) == RoundUp(UnpaddedMemorySize(seg, cmds), PageSize)

\* MachOSegment::IsInitial(): the header is its first contents.
IsInitial(seg) == seg.contents # <<>> /\ seg.contents[1].kind = "header"

\* MachOSection::ContainsSymbols() and MachOSegment::ContainsSymbols().
PortionContainsSymbols(p) == p.name # "" \/ p.syms # <<>>
SectionContainsSymbols(sec) ==
  \E i \in DOMAIN sec.portions : PortionContainsSymbols(sec.portions[i])
SegmentContainsSymbols(seg) ==
  \E i \in DOMAIN seg.contents :
    seg.contents[i].kind = "section" /\ SectionContainsSymbols(seg.contents[i])

(***************************************************************************)
(* Operations.                                                             *)
(***************************************************************************)
\* MachOSection::AddPortion: each portion starts at the end of the last one
\* rounded up to the section's alignment. A portion is
\* [offset, name ("" for none), label (0 for none), size, syms].
AddPortion(sec, size, syms, name, label) ==
  LET offset == IF sec.portions = <<>> THEN 0
                ELSE RoundUp(Last(sec.portions).offset + Last(sec.portions).size,
                             sec.align)
  IN [sec EXCEPT !.portions =
        Append(@, [offset |-> offset, name |-> name, label |-> label,
                   size |-> size, syms |-> syms])]

\* MachOSegment::AddContents: the header goes first, contents with file
\* bytes next (in insertion order), contents without bytes (zerofill
\* sections) last.
AddContents(seg, c) ==
  CASE c.kind = "header" ->
         [seg EXCEPT !.contents = InsertAt(@, 1, c), !.next = @ + 1]
    [] HasContents(c) ->
         [seg EXCEPT !.contents = InsertAt(@, seg.next + 1, c), !.next = @ + 1]
    [] OTHER ->
         [seg EXCEPT !.contents = Append(@, c)]

\* MachOSegment::FindSection.
FindSection(seg, name) ==
  LET is == {i \in DOMAIN seg.contents :
               seg.contents[i].kind = "section" /\ seg.contents[i].name = name}
  IN IF is = {} THEN 0 ELSE CHOOSE i \in is : TRUE
=============================================================================
