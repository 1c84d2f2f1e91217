----------------------------- MODULE MCMachOData -----------------------------
(***************************************************************************)
(* Constant values shared by the model-checking instances of MachOWriter   *)
(* and MachOPair: the real struct sizes of platform/mach_o.h and the four  *)
(* portions the image writer adds (VM and isolate instructions and data),  *)
(* with sizes that fit in a page or span pages and chunks.                 *)
(***************************************************************************)
EXTENDS Integers

MCSizeof ==
  [mach_header |-> 32, segment_command |-> 72, section |-> 80,
   uuid |-> 24, buildversion |-> 24, dylib_command |-> 24, symtab |-> 24,
   dysymtab |-> 80, linkedit_data_command |-> 16, nlist |-> 16,
   cs_superblob |-> 12, cs_blob_index |-> 8, cs_code_directory |-> 88,
   hash |-> 32]

\* Symbol names (kVmSnapshotInstructionsAsmSymbol, ...) and their strlen.
MCVmInstructions == "_kDartVmSnapshotInstructions"
MCIsolateInstructions == "_kDartIsolateSnapshotInstructions"
MCVmData == "_kDartVmSnapshotData"
MCIsolateData == "_kDartIsolateSnapshotData"
MCVmBss == "_kDartVmSnapshotBss"
MCIsolateBss == "_kDartIsolateSnapshotBss"
MCPath == "/out/app.so"
MCNameLength ==
  [n \in {MCVmInstructions, MCIsolateInstructions, MCVmData, MCIsolateData,
          MCVmBss, MCIsolateBss, MCPath, "Foo.bar"} |->
     CASE n = MCVmInstructions -> 28 [] n = MCIsolateInstructions -> 33
       [] n = MCVmData -> 20 [] n = MCIsolateData -> 25
       [] n = MCVmBss -> 19 [] n = MCIsolateBss -> 24
       [] n = MCPath -> 11 [] OTHER -> 7]

\* One function symbol inside the isolate instructions, or none.
FunctionSyms ==
  { << >>, << [name |-> "Foo.bar", type |-> "Function", offset |-> 64,
               size |-> 48, label |-> 7] >> }

\* Portion labels 1-4; the BSS labels are 5 and 6.
MCTextPortions ==
  {[name |-> MCVmInstructions, label |-> 1, size |-> 4000, syms |-> << >>]}
  \cup {[name |-> MCIsolateInstructions, label |-> 2, size |-> sz, syms |-> f] :
          sz \in {200, 20000}, f \in FunctionSyms}
MCDataPortions ==
  {[name |-> MCVmData, label |-> 3, size |-> 6000, syms |-> << >>],
   [name |-> MCIsolateData, label |-> 4, size |-> 100, syms |-> << >>]}

\* Bytes of the abbreviation table, .debug_info and line program.
MCDwarfSizes == << 40, 3000, 1500 >>

\* Bytes of the CIE and one FDE per text portion in __eh_frame.
MCEhFrameSize(n) == 20 + 32 * n
=============================================================================
