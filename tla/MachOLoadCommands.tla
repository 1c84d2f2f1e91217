-------------------------- MODULE MachOLoadCommands --------------------------
(***************************************************************************)
(* The bytes MachOHeader::WriteSelf writes (src/runtime/vm/mach_o.cc): the *)
(* mach_header and then, at the header_offset ComputeOffsets gave each     *)
(* command, the command's WriteLoadCommand. The layout reserved cmdsize()  *)
(* bytes for each; WriteLoadCommand writes field by field, separately.     *)
(*                                                                         *)
(* A write is a stream operation [op, n] (see MachOWriter's WriteOps):     *)
(* "write" n bytes, "align" to n, or "at": the position must be n. Field  *)
(* values are kept only where a property reads them: the offset/count     *)
(* pairs of LC_SYMTAB and LC_DYSYMTAB.                                     *)
(***************************************************************************)
EXTENDS MachOSymbolTable, MachOReader

Op(op, n) == [op |-> op, n |-> n]

\* The widths of MachOWriteStream's Write32 and WriteOffsetCount.
Word32 == 4
OffsetCountSize == 2 * Word32

\* sizeof(segment_command::segname) and sizeof(section::sectname).
FixedNameLength == 16

\* sizeof(uuid_command::uuid).
UuidLength == 16

\* MachOCommand::WriteLoadCommand: cmd and cmdsize.
PrefixSize == 2 * Word32

\* MachOSection::WriteHeaderInfo: sectname, segname, addr and size as
\* words, offset, align, the (0, 0) relocation pair, flags and the
\* reserved fields (reserved3 only for 64-bit targets).
SectionHeaderSize ==
  2 * FixedNameLength + 2 * WordSize + 2 * Word32 + OffsetCountSize + Word32
  + (IF WordSize = 8 THEN 3 ELSE 2) * Word32

\* MachOSegment::WriteLoadCommand: segname, vmaddr, vmsize, fileoff and
\* filesize as words, the two protections, nsects and flags, then the
\* header information of each section.
SegmentCommandSize(seg) ==
  PrefixSize + FixedNameLength + 4 * WordSize + 4 * Word32
  + NumSections(seg) * SectionHeaderSize

\* LC_SYMTAB's (symoff, nsyms) and (stroff, strsize).
SymtabOffsetCounts(t) ==
  << << t.off, t.nsyms >>, << t.off + t.nsyms * Sizeof["nlist"], t.strsize >> >>

\* LC_DYSYMTAB: the local symbols, then the external ones, then no
\* undefined symbols, then kUnusedOffsetCountPairs zero pairs.
UnusedOffsetCountPairs == 6
DysymtabOffsetCounts(d) ==
  << << 0, d.nlocal >>, << d.nlocal, d.nexternal >>,
     << d.nlocal + d.nexternal, 0 >> >>
  \o [i \in 1..UnusedOffsetCountPairs |-> << 0, 0 >>]

\* MachODylib::WriteLoadCommand: name offset, timestamp and the two
\* versions, the NUL-terminated name, then Align(kLoadCommandAlignment)
\* of the stream position.
DylibOps(nameLength) ==
  << Op("write", PrefixSize + 4 * Word32 + nameLength + 1), Op("align", WordSize) >>

\* WriteLoadCommand of each kind of command.
LoadCommandOps(c) ==
  CASE c.kind = "segment" -> << Op("write", SegmentCommandSize(c)) >>
    [] c.kind = "uuid" -> << Op("write", PrefixSize + UuidLength) >>
    [] c.kind = "buildversion" -> << Op("write", PrefixSize + 4 * Word32) >>
    [] c.kind = "iddylib" -> DylibOps(IdentifierLength)
    [] c.kind = "loaddylib" -> DylibOps(SystemDylibNameLength)
    [] c.kind = "symtab" ->
         << Op("write", PrefixSize + Len(SymtabOffsetCounts(c)) * OffsetCountSize) >>
    [] c.kind = "dysymtab" ->
         << Op("write", PrefixSize + Len(DysymtabOffsetCounts(c)) * OffsetCountSize) >>
    [] c.kind = "codesig" -> << Op("write", PrefixSize + OffsetCountSize) >>

\* MachOSymbolTable::Symbol::Write: n_strx, n_type, n_sect, n_desc and
\* n_value as a target word; it asserts that this is sizeof(nlist).
NlistFieldsSize == Word32 + 1 + 1 + 2 + WordSize

\* MachOSymbolTable::WriteSelf at file offset t.off: each symbol, then
\* the string table's text. Every Symbol::Write writes the same fields, so
\* its per-symbol check is the check that the symbols end at
\* nsyms * sizeof(nlist).
SymtabWriteOps(t) ==
  << Op("write", t.nsyms * NlistFieldsSize),
     Op("at", t.off + t.nsyms * Sizeof["nlist"]),
     Op("write", t.strsize) >>

\* ComputeOffsets: header_offset of the i-th command, the header size
\* plus the cmdsize() of the commands before it.
HeaderOffset(cmds, i) ==
  Sizeof["mach_header"] + SumSeq([j \in 1..(i - 1) |-> CmdSize(cmds[j])])

\* MachOHeader::WriteSelf at file offset off: magic, cputype, cpusubtype,
\* filetype, ncmds, sizeofcmds, flags (and reserved for 64-bit targets),
\* then each load command, whose start and end it checks against
\* header_offset() and cmdsize().
HeaderWriteOps(off, cmds) ==
  << Op("write", (IF WordSize = 8 THEN 8 ELSE 7) * Word32) >>
  \o FlattenSeq([i \in DOMAIN cmds |->
       << Op("at", off + HeaderOffset(cmds, i)) >> \o LoadCommandOps(cmds[i])
       \o << Op("at", off + HeaderOffset(cmds, i) + CmdSize(cmds[i])) >>])

\* WriteSelf's magic: MH_MAGIC_64 for 64-bit targets.
HeaderMagic == IF WordSize = 8 THEN "MH_MAGIC_64" ELSE "MH_MAGIC"

\* WriteSelf's sizeofcmds: the sum of the commands' cmdsize().
SizeOfCmds(cmds) == SumSeq([i \in DOMAIN cmds |-> CmdSize(cmds[i])])

\* The header WriteSelf leaves in the file, as MachOReader reads it: the
\* magic, sizeofcmds, and at each command's header_offset the cmd and
\* cmdsize() that MachOCommand::WriteLoadCommand writes first.
WrittenHeader(cmds) ==
  [magic |-> HeaderMagic,
   sizeofcmds |-> SizeOfCmds(cmds),
   prefix |-> [o \in {HeaderOffset(cmds, i) : i \in DOMAIN cmds} |->
                LET i == CHOOSE i \in DOMAIN cmds : HeaderOffset(cmds, i) = o
                IN [cmd |-> cmds[i].kind, cmdsize |-> CmdSize(cmds[i])]]]
=============================================================================
