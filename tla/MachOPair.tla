------------------------------ MODULE MachOPair ------------------------------
(***************************************************************************)
(* A snapshot and its separate debugging information are written by two   *)
(* MachOWriters that receive the same AddText/AddROData calls from the     *)
(* image writer and are finalized independently. Relocations resolved in  *)
(* one must mean the same addresses in the other, which is what            *)
(* MachOWriter::AssertConsistency checks on the two full symbol tables.    *)
(***************************************************************************)
EXTENDS Integers

CONSTANTS
  SnapshotStripped,
  PageSize, WordSize, ChunkSize, Sizeof, IdentifierLength,
  SystemDylibNameLength, NameLength, Path, TargetMacOS, DwarfSizes,
  EhFrameSize(_), VmInstructions, IsolateInstructions, VmData, IsolateData,
  VmBss, IsolateBss, VmBssLabel, IsolateBssLabel, VmBssSize,
  IsolateBssSize, InitialCapacity, BufferIncrement, TextPortions,
  DataPortions,
  Labels,         \* the labels the image writer hands out
  BuildIdLabel    \* SharedObjectWriter::kBuildIdLabel

VARIABLES scmds, ssym, spc, sout, sends,   \* the snapshot writer
          dcmds, dsym, dpc, dout, dends    \* the debugging information writer

svars == <<scmds, ssym, spc, sout, sends>>
dvars == <<dcmds, dsym, dpc, dout, dends>>
vars == <<svars, dvars>>

S == INSTANCE MachOWriter
       WITH Type <- "Snapshot", Stripped <- SnapshotStripped,
            commands <- scmds, symtab <- ssym, pc <- spc, out <- sout,
            ends <- sends
D == INSTANCE MachOWriter
       WITH Type <- "DebugInfo", Stripped <- FALSE,
            commands <- dcmds, symtab <- dsym, pc <- dpc, out <- dout,
            ends <- dends

Init == S!Init /\ D!Init

\* The image writer adds each portion to the snapshot and to the debugging
\* information before writing the next one.
AddText(r) ==
  /\ r.name \notin S!AddedNames
  /\ S!AddText(r.name, r.label, r.size, r.syms)
  /\ D!AddText(r.name, r.label, r.size, r.syms)

AddROData(r) ==
  /\ r.name \notin S!AddedNames
  /\ S!AddROData(r.name, r.label, r.size, r.syms)
  /\ D!AddROData(r.name, r.label, r.size, r.syms)

Next ==
  \/ \E r \in TextPortions : AddText(r)
  \/ \E r \in DataPortions : AddROData(r)
  \/ S!Finalize /\ UNCHANGED dvars
  \/ D!Finalize /\ UNCHANGED svars

Spec == Init /\ [][Next]_vars

\* The debugging information written beside the snapshot is laid out and
\* written as its load commands say: every segment's offset plus its
\* FileSize() and address plus MemorySize() meet the cursor of
\* ContentOffsetsVisitor, and WriteVisitor writes every contents exactly
\* there. Its text is zerofill and it has __DWARF, so its segments are
\* sized differently from the snapshot's.
DebugInfoLayout == D!LayoutTiling /\ D!WriteMatchesLayout

\* max_label(): the largest label AddSymbol was given, 0 for none.
MaxLabel(t) ==
  IF DOMAIN t.byLabel = {} THEN 0
  ELSE CHOOSE l \in DOMAIN t.byLabel : \A o \in DOMAIN t.byLabel : o <= l

\* The labels label resolves the same way in both tables: in neither, or
\* in both to the same value.
SameSymbol(l) ==
  LET a == S!FindLabel(ssym, l)
      b == D!FindLabel(dsym, l)
  IN /\ (a = S!None) = (b = D!None)
     /\ a # S!None => a.value = b.value

\* MachOWriter::AssertConsistency(snapshot, debug_info): equal max_label()
\* and, for i from 1 while i < max_label, the same symbol for label i.
AssertConsistency ==
  /\ MaxLabel(ssym) = MaxLabel(dsym)
  /\ \A i \in 1..MaxLabel(ssym) - 1 : SameSymbol(i)

\* Once both are finalized, every label resolves in the snapshot's full
\* symbol table exactly when it resolves in the debugging information's,
\* and to the same memory address: AssertConsistency passes, and so does
\* the comparison of label max_label that its loop (i < max_label) leaves
\* out. The build ID label, which HasValueForLabel resolves to the
\* position of LC_UUID in the header and AssertConsistency does not look
\* at, also resolves alike in both. The two files have different load commands (so different header
\* sizes), different segments (__DWARF only in one) and zerofill text in
\* one; FinalizeCommands' segment order and the page alignment of __text
\* must absorb all of it.
CrossArtifactConsistency ==
  (spc = "done" /\ dpc = "done") =>
    /\ AssertConsistency
    /\ \A l \in Labels \cup {BuildIdLabel} :
         S!ValueForLabel(scmds, ssym, l, BuildIdLabel)
           = D!ValueForLabel(dcmds, dsym, l, BuildIdLabel)
=============================================================================
