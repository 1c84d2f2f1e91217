--------------------------- MODULE MachOSymbolTable ---------------------------
(***************************************************************************)
(* MachOSymbolTable and its StringTable (src/runtime/vm/mach_o.cc).        *)
(*                                                                         *)
(* A table is [symbols, strings, byLabel, nlocal, nexternal]:              *)
(*   symbols  the nlist entries [nidx, type, sect, desc, value]            *)
(*   strings  the string table: index maps an interned name to its offset, *)
(*            len is the text length                                       *)
(*   byLabel  by_label_index_: label -> 1-based index into symbols         *)
(*   nlocal, nexternal  the write-once counts (Unset until Initialize)     *)
(* Symbol types: "SECT" is N_SECT, "SECT_EXT" is N_SECT | N_EXT, the rest  *)
(* are symbolic debugging (N_STAB) types.                                  *)
(***************************************************************************)
EXTENDS MachOContents

CONSTANTS
  NameLength   \* strlen of each symbol name and of the path

SectText == "__text"
SectConst == "__const"

StabTypes == {"OSO", "BNSYM", "FUN", "ENSYM", "GSYM", "STSYM"}
IsStab(type) == type \in StabTypes
AltEntry == 512   \* mach_o::N_ALT_ENTRY

\* StringTable(zone): " " at offset 0 and "" at the offset of its NUL.
NewStringTable == [index |-> (" " :> 0) @@ ("" :> 1), len |-> 2]

\* StringTable::Add: an already interned name keeps its offset.
StringTableAdd(st, name) ==
  IF name \in DOMAIN st.index THEN st
  ELSE [index |-> st.index @@ (name :> st.len),
        len |-> st.len + NameLength[name] + 1]

NewSymbolTable ==
  [symbols |-> <<>>, strings |-> NewStringTable, byLabel |-> <<>>,
   nlocal |-> Unset, nexternal |-> Unset]

\* A request to AddSymbol, in the order Initialize issues them.
Req(name, type, sect, desc, value, label) ==
  [name |-> name, type |-> type, sect |-> sect, desc |-> desc,
   value |-> value, label |-> label]

\* AddSymbol(name, type, section_index, description, value, label).
AddSymbol(t, r) ==
  LET st == StringTableAdd(t.strings, r.name)
      idx == Len(t.symbols) + 1
  IN [t EXCEPT
        !.strings = st,
        !.symbols = Append(@, [nidx |-> st.index[r.name], type |-> r.type,
                               sect |-> r.sect, desc |-> r.desc,
                               value |-> r.value]),
        !.byLabel = IF r.label > 0 THEN (r.label :> idx) @@ @ ELSE @]

\* FindLabel(label): the symbol stored for label, or None.
None == [none |-> TRUE]
FindLabel(t, label) ==
  IF label \in DOMAIN t.byLabel THEN t.symbols[t.byLabel[label]] ELSE None

\* The add_symbolic_debugging_symbols lambda of Initialize.
StabReqs(name, type, sect, offset, size, global) ==
  IF type = "Function"
  THEN << Req("", "BNSYM", sect, 0, offset, 0),
          Req(name, "FUN", sect, 0, offset, 0),
          Req("", "FUN", 0, 0, size, 0),
          Req("", "ENSYM", sect, 0, offset + size, 0) >>
  ELSE IF global THEN << Req(name, "GSYM", 0, 0, 0, 0) >>
       ELSE << Req(name, "STSYM", sect, 0, offset, 0) >>

\* Concatenates F(i, p) over the portions p of the sections, in order.
OverPortions(sections, F(_, _)) ==
  FlattenSeq([i \in DOMAIN sections |->
    FlattenSeq([j \in DOMAIN sections[i].portions |->
                  F(i, sections[i].portions[j])])])

\* Initialize(path, sections, is_stripped): returns the requests for the
\* local symbols and for the external symbols. Section i has index i.
LocalReqs(path, sections, stripped) ==
  LET desc == IF stripped THEN 0 ELSE AltEntry
      sectionSyms(i, p) ==
        [k \in DOMAIN p.syms |->
           Req(p.syms[k].name, "SECT", i, desc, p.offset + p.syms[k].offset,
               p.syms[k].label)]
      oso == IF path # "" THEN << Req(path, "OSO", 0, 1, 0, 0) >> ELSE <<>>
      isText(i) == sections[i].name = SectText
      stabs(i, p) ==
        (IF p.name # ""
         THEN StabReqs(p.name, IF isText(i) THEN "Function" ELSE "Section", i,
                       p.offset,
                       IF isText(i) /\ p.syms # <<>> THEN p.syms[1].offset
                       ELSE p.size,
                       TRUE)
         ELSE <<>>)
        \o FlattenSeq([k \in DOMAIN p.syms |->
                         StabReqs(p.syms[k].name, p.syms[k].type, i,
                                  p.offset + p.syms[k].offset, p.syms[k].size,
                                  FALSE)])
  IN IF stripped THEN <<>>
     ELSE OverPortions(sections, sectionSyms) \o oso
          \o OverPortions(sections, stabs)

ExternalReqs(sections, stripped) ==
  LET desc == IF stripped THEN 0 ELSE AltEntry
      ext(i, p) == IF p.name # ""
                   THEN << Req(p.name, "SECT_EXT", i, desc, p.offset, p.label) >>
                   ELSE <<>>
  IN OverPortions(sections, ext)

\* set_num_local_symbols(num_symbols()).
LocalsCounted(t) == [t EXCEPT !.nlocal = Len(t.symbols)]

\* An external count that subtracts the wrong way round.
ExternalsCountedSwapped(t) == [t EXCEPT !.nexternal = t.nlocal - Len(t.symbols)]

\* set_num_external_symbols(num_symbols() - num_local_symbols()).
ExternalsCounted(t) == [t EXCEPT !.nexternal = Len(t.symbols) - t.nlocal]

\* An Initialize that counts the local symbols after adding the external
\* ones.
InitializeCountingLate(path, sections, stripped) ==
  ExternalsCounted(
    LocalsCounted(
      Foldl(AddSymbol,
            Foldl(AddSymbol, NewSymbolTable, LocalReqs(path, sections, stripped)),
            ExternalReqs(sections, stripped))))

\* Initialize(path, sections, is_stripped): the local symbols, their count,
\* the external symbols, their count.
Initialize(path, sections, stripped) ==
  ExternalsCounted(
    Foldl(AddSymbol,
          LocalsCounted(Foldl(AddSymbol, NewSymbolTable,
                              LocalReqs(path, sections, stripped))),
          ExternalReqs(sections, stripped)))

\* SymbolsSize() + strings_.FileSize(): SelfMemorySize of the command.
SymbolTableSize(t) == Len(t.symbols) * Sizeof["nlist"] + t.strings.len

\* UpdateSectionIndices(index_map).
UpdateSectionIndices(t, indexMap) ==
  LET upd(s) == [s EXCEPT !.sect = indexMap[s.sect]]
  IN [t EXCEPT !.symbols = [i \in DOMAIN t.symbols |-> upd(t.symbols[i])]]

\* Finalize(address_map): section-relative values become absolute.
FinalizeValues(t, addressMap) ==
  LET fin(s) == [s EXCEPT !.value = s.value + addressMap[s.sect]]
  IN [t EXCEPT !.symbols = [i \in DOMAIN t.symbols |-> fin(t.symbols[i])]]
=============================================================================
