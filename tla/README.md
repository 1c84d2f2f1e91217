# TLA+ models of parts of the Dart SDK runtime

These modules model the parts of the runtime in this extract that have
state and control worth model checking:
- the Mach-O writer (`src/runtime/vm/mach_o.cc`), which the precompiler uses to emit snapshots and their separate debugging information;
- the page cache and the remembered-card visitor of `src/runtime/vm/heap/page.cc`;
- the integer constant folding of `src/runtime/vm/compiler/backend/evaluator.cc`;
- the command-line and `DART_VM_OPTIONS` parsing of `src/runtime/bin/main_options.cc`;
- the runtime's lookup of the build ID in a loaded Mach-O snapshot (`OS::GetAppBuildId`, `src/runtime/vm/os_macos.cc`).

TLC checks them. Line numbers without a file name refer to `mach_o.cc`.

## The system

The repository extract has 17 source files under `src/`. Five of them hold
components with enough state and control for a model checker:

| Part | Source | What it does |
|---|---|---|
| Hashing write stream | `HashingMachOWriteStream`, L198-334 | Buffers output. While hashing is on, it SHA-256 hashes every complete 4 KiB chunk before flushing it to the wrapped stream. `FinalizeHashedContent` hashes the last partial chunk and turns hashing off. `NonHashingMachOWriteStream` (L159-196) is the same stream without hashing. |
| Content tree | `MachOContents`, `MachOSection`, `MachOSegment`, `MachOHeader` and the load commands, L336-1760 | Sections hold portions. Segments hold the header, sections and linkedit contents. Every node has write-once `file_offset`/`memory_address` fields and computes its file and memory sizes recursively. |
| Symbol tables | `MachOSymbolTable`, `StringTable`, L1092-1320 and `Initialize` L2533-2648 | An nlist table with interned names. It is keyed by label so that the writer can resolve relocations. Section indices are remapped and values made absolute at the end. |
| Code signature | `MachOCodeSignature`, L1380-1510 | An ad-hoc signature. It is the last contents of the file. Its size depends on its own offset, because it holds one hash per chunk before it. |
| Writer pipeline | `MachOWriter::AddText/AddROData/Finalize`, `MachOHeader::Finalize` and its phases, L1836-2530 | Collects text and read-only data, then finalizes: UUID, BSS, unwinding info, DWARF, symbol tables, misc commands, command reordering, offset computation. Then it writes everything through a `WriteVisitor`. |
| Snapshot/debug-info pair | `MachOWriter::AssertConsistency`, L1955-1983 | The image writer drives two writers, one for the snapshot and one for the debug info, with the same calls. Every label must get the same address in both. |
| Build-ID lookup | `os_macos.cc` `OS::GetAppBuildId`, L297-329 | At run time, reads the build ID from the loaded snapshot's Mach-O header by walking its load commands to `LC_UUID`. This is the reader of what the writer's `MachOHeader::WriteSelf` wrote. |
| Page cache | `page.cc` `Page::Allocate`, `Deallocate`, `ClearCache`, `WriteProtect` | Two caches of freed page memory (executable and not), guarded by `page_cache_mutex`, shared by every thread that allocates or frees pages. |
| Remembered cards | `page.cc` `Page::VisitRememberedCards`, `ResetProgressBar` | Parallel scavenger tasks claim words of a large array page's card table through the atomic `progress_bar_`, visit the marked cards and clear the cards that no longer point into new space. |
| Integer folding | `evaluator.cc` `BinaryIntegerEvaluate`, `UnaryIntegerEvaluate`, `BitLengthEvaluate`, `TruncateTo`, `ToIntegerConstant` | Pure functions: fold an integer operation on constants at a representation's width, or decline. |
| Option parsing | `main_options.cc` `Options::ParseArguments` (L528-825), `GetEnvArguments`/`DestroyEnvArgv` (L272-353) | Splits the command line into VM options, the script or DartDev command, and the script's arguments, handling the DartDev run, the VM service and snapshot options. In the AOT build, `DART_VM_OPTIONS` is split at commas into extra argv entries. |

The other files are not modelled; see the last section.

How the Mach-O parts interact (the other parts are independent of them and of
each other in this extract):
- The writer adds portions to sections of the content tree.
- `MachOHeader::Finalize` creates the symbol tables from the sections and reorders the commands. It then remaps the tables' section indices, computes every node's offset and address, and makes symbol values absolute.
- `MachOWriter::Finalize` then walks the tree and writes it through the hashing stream. When the walk reaches the code signature, the signature finalizes the stream's hashes and writes them.
- At run time, `OS::GetAppBuildId` reads the header that was written, to find the UUID.

## Modules

| Module | Models | State and actions |
|---|---|---|
| `MachOHashingStream` | the hashing stream | The stream is a record `[buf, cap, flushed, hashing, hashes]`: the buffered bytes, the capacity, `flushed_size_`, `hashing_`, and each digest as the file range it covers. There is one operator per method: `Hash`, `Flush`, `FlushBytes`, `Realloc`, `WriteBytes`, `Align`, `FinalizeHashedContent`, `Destroy`. `EnsureSpace` (`platform/datastream.h`, not in this extract) is modelled from its documented growth rule. |
| `MCMachOHashingStream` | the stream driven as `WriteVisitor` drives it | Actions `Write(n)`, `AlignTo(a)`, `Finalize` (the signature's `FinalizeHashedContent`) and `Close` (the destructor). |
| `MachOContents` | the content tree | Nodes are records. Sizes are kept exactly and bytes are abstracted away. Operators follow the methods of the same name: `SegmentFileSize`, `UnpaddedMemorySize`, `AddPortion`, `AddContents`, the code-signature directory layout, and so on. |
| `MachOSymbolTable` | symbol and string tables | `AddSymbol`, `StringTableAdd`, `FindLabel`, `Initialize`, `UpdateSectionIndices`, `FinalizeValues`. `Initialize` is a fold of `AddSymbol` over the request sequence the C++ loop issues, with the STAB expansion of `add_symbolic_debugging_symbols`. |
| `MachOLoadCommands` | `MachOHeader::WriteSelf` and each command's `WriteLoadCommand` | Each command is the sequence of stream operations its `WriteLoadCommand` issues, with field widths kept and values abstracted. The exception is the offset/count pairs of `LC_SYMTAB` and `LC_DYSYMTAB`, which a property reads. `HeaderWriteOps` places each command at the `header_offset` that `ComputeOffsets` gave it. It also checks that the command ends `cmdsize()` bytes later, as `WriteSelf` does. `SymtabWriteOps` is `MachOSymbolTable::WriteSelf`: one `nlist` per symbol, then the strings. `WrittenHeader` is what the file holds afterwards: the magic, `sizeofcmds`, and the (cmd, cmdsize) prefix at each command's offset. |
| `MachOReader` | `OS::GetAppBuildId` (`os_macos.cc`) | The runtime's reader of that header, for the case where the instructions image carries no build ID of its own. `GetAppBuildId` checks the magic and skips the header size the magic implies. `FindUuid`, a recursive operator, is the `while (it < end)` walk by `cmdsize`. Reading a load command where none begins gives `Unreadable`. |
| `MachOWriter` | one writer | Variables: `commands` (the header's `commands_`), `symtab` (`full_symtab_`), `pc`, `out` (the result of writing) and `ends` (the layout cursor at the end of each segment). The actions are `AddText`, `AddROData` and `Finalize`. `Finalize` is the whole `MachOWriter::Finalize`: `HeaderFinalize` composes the phases in the order `MachOHeader::Finalize` calls them, and `WriteResult` runs the `WriteVisitor` ops through the stream model. `ValueForLabel` is `MachOWriter::GetLabelValue` (the label's symbol value, or the build ID's address from the `LC_UUID` command's offset). |
| `MachOPair` | the snapshot and debug-info writers | Two `INSTANCE`s of `MachOWriter`. `AddText`/`AddROData` feed both in lockstep, as the image writer does, and each writer finalizes on its own. `AssertConsistency` is the debug check over the two finalized symbol tables, with its loop bound `i < max_label` (`MaxLabel` is `max_label_`). |
| `MCMachOData`, `MCMachOWriter`, `MCMachOPair` | model values | Struct sizes (`MCSizeof`), names, portion sets, DWARF and `__eh_frame` sizes. |
| `PageCache` (`MCPageCache`) | `page.cc` page cache | `mem` is what the OS knows of each region (mapped, executable, size, protection, zeroed). `held` counts live `Page*` handles. `page` holds each page's flags and size. `cache` holds the two `page_cache` arrays. Each call is one action, because it touches the cache only inside one `MutexLocker` scope: `Allocate` (from the cache or fresh), `Deallocate`, `ClearCache` and `WriteProtect`. |
| `PageAllocator` | what `Page` promises its callers | The abstract allocator, with no cache. `pages` maps each memory under a live handle to its size, executability, protection and mapping. `Allocate` takes a memory no live page has. `Deallocate` frees a live page. `WriteProtect` changes only the protection, to one the page's executability allows. `PageCache` maps `held` and `mem` onto `pages` (`LivePages`) and implements it. |
| `PageCards` (`MCPageCards`) | `VisitRememberedCards` | Per-task `pc`, `word_offset`, the local copy of the card word and `bit_offset`. Shared are the card table, `progress_bar_` and a visit count per card. A task's steps are `Start`, `FetchWord` (the `fetch_add` on `progress_bar_`), `VisitBit` (one iteration of the bit loop) and `StoreCell` (the write-back of the word). Which slots still point into new space is an oracle fixed for the pass. |
| `Evaluator` (`MCEvaluator`) | integer folding | A query and its answer. Each fold is one step: `FoldBinary`, `FoldUnary`, `FoldBitLength`, `FoldToInteger`. Widths are scaled (an 8-bit int64, a 6-bit Smi), and Dart's integer semantics (`ArithmeticOp`, `ShiftOp`, `BitOp`, not in this extract) are modelled from their definitions. `RefResult` is the reference: the mathematical result, wrapped modulo 2^w when truncating, and declined when it is not representable. |
| `OptionParsing` (`MCOptionParsing`) | `Options::ParseArguments`, JIT build | Variables follow the locals and outputs of the function: `i`, the option values `opts`, `vm_options`, `dart_options`, the script, the DartDev `run`/usage-error state and the result. Each loop iteration is one action: `VmOption`, `AfterVmOptions`, the `Record*` loop that records the DartDev command's position, `DartOption`, `Verify`. Arguments are model values, and `Info` says how each parses (form, name, value, whether it is a DartDev command). |
| `EnvArguments` | `GetEnvArguments`, `DestroyEnvArgv` | The text is a sequence over `{"a", ","}`. Each iteration of the comma count, the `strtok_r` loop and the freeing loop is one action. A slot `new char*[]` leaves unset holds the model value `Garbage`. `NextToken` is `strtok_r`'s search. `buf` is the string `getenv` returned: `Terminated` writes the NUL `strtok_r` puts over the separator ending a token, and `StrNDup` copies `rest - token` bytes but stops at a NUL. The recursive `SplitRef` is the reference split of the original text. |

## Runs

| Run | Expect | Shows |
|---|---|---|
| `hashing_stream` | pass | For every interleaving of writes, alignments and reallocations up to 100 bytes, three things hold. The digests tile the hashed prefix in whole chunks (`HashCoverage`). Everything handed to the wrapped stream while hashing is hashed. After `FinalizeHashedContent`, the count is ceil(limit/chunk) and the digests cover exactly `[0, limit)` (`HashCountLaw`). |
| `hashing_realloc` | violation | `ReallocGrowsOnlyWhenNeeded`: `Realloc` grows the buffer even when the flushed buffer has room. The finding explains why. |
| `writer_snapshot` | pass | An unstripped, signed snapshot, over every subset and order of the added portions. The segment sizes agree with the offsets (`LayoutTiling`). Every label resolves to its final address (`LabelResolution`). The write lands each node at its offset (`WriteMatchesLayout`). The signature is last and its hashes seal every byte before it (`SignatureSealsFile`). `WriteMatchesLayout` also covers the header: every load command fills exactly its `cmdsize()`. `DynamicSymbolRanges`: the `LC_DYSYMTAB` local and external ranges tile the written symbol table, and they split it exactly where the locals end. `AppBuildIdReadable`: `OS::GetAppBuildId`, walking the header the writer wrote, finds the LC_UUID command. It returns exactly the 16 UUID bytes at their place in the file. This checks the writer and the runtime reader against each other. |
| `writer_stripped` | violation | `StrippedTableHasNoLocals`: a stripped snapshot writes the full symbol table, because of a shadowed variable (finding 1). |
| `snapshot_debuginfo_pair` | pass | `CrossArtifactConsistency`: a stripped snapshot and its debug info, fed the same portions in any order, pass `AssertConsistency`, and also agree on the label that its loop skips (L1967). They also agree on the build-ID label, whose address comes from each writer's own `LC_UUID` header offset. `DebugInfoLayout`: the debug info, with zerofill text and `__DWARF`, has the layout and write properties of `writer_snapshot`. |
| `remembered_cards` | pass | Two tasks sharing one page's card table, over array lengths that end mid-card and mid-word. `CardsVisitedOnce`: no card is visited twice. `FinalCards`: at the end, exactly the remembered cards inside the array that still point into new space stay set. `Termination`: every task finishes. |
| `page_cache` | pass | Four memories, both caches and every flag kind. `NoSharedMemory`: no memory is held by two live pages, and a cached memory is mapped, unheld and cached once. `AllocationFits` (an action property): every allocation hands out memory of the requested size, executability and protection, zeroed for large pages. `TypeOK` includes the capacity bound. `ImplementsAllocator`: seen through the live handles, every step is a step of `PageAllocator`. A cache pop or clear never touches a live page, and protection follows executability. |
| `integer_folding` | pass | Every operation, at every representation, over the operands at the ends of the ranges. `FoldingCorrect`: the result is exactly `RefResult` folded to the representation, so a folded result is always representable. `ToIntegerComplete`: `ToIntegerConstant` finds every in-range integer constant through chains of unboxes. |
| `option_parsing` | pass | Every command line of up to three arguments over a 24-argument alphabet. `OneOutcome`: a successful parse gives exactly one of a script and a DartDev run. `DartDevArguments`: DartDev gets its arguments in order, with the forwarded options. `VmServiceRequested`: `--observe` and `--enable-vm-service` before the target enable the service. `ScriptRunOptionsConsistent`: the snapshot options of an accepted script run are consistent. |
| `script_arguments` | violation | `ScriptArgumentsPassedThrough`: a script's own arguments reach it unchanged. Violated by `script --disable-dart-dev` (finding 4). |
| `env_arguments` | pass | Every `DART_VM_OPTIONS` text of up to five characters. `WritesInBounds`: no token is stored past `env_argv_`. `TokensInOrder`: the stored copies, taken from the buffer `strtok_r` has NUL-terminated, are the text's fields, in order. |
| `env_argv_garbage` | violation | `EnvArgvInitialised`: every slot handed out as argv holds a token. Violated by the text `","` (finding 3). |

Each property of a passing run has a mutant in `PROJECT.json`: a plausible
bug in a mapped definition that TLC then reports. Examples are hashing a
partial chunk in `Flush`, skipping a child's alignment in `FileSize`,
forgetting the segment padding in `WriteVisitor`, and putting other
segments before the symbol segments in `FinalizeCommands`, unmapping memory
that `Deallocate` caches, a `fetch_add` on `progress_bar_` that does not
advance it, starting `GetEnvArguments`' count at zero, a tokenizer that leaves the separator after a token in place, one unused `LC_DYSYMTAB` pair too few, counting local symbols after the external ones are added, a `WriteProtect` that makes read-only data pages executable, and a `GetAppBuildId` that always skips a 32-bit `mach_header`.

## Findings

1. **Stripped output keeps every symbol** (`InitializeSymbolTables`, L2218). The `auto* const table` inside `if (is_stripped_)` shadows the outer `table`, so `full_symtab_` is added to the commands. The stripped table is built and then dropped. `IncludedSymbolTable()` later finds the full table, so `FinalizeCommands` never remaps the dropped one either.
2. **`Realloc` never reuses its buffer** (L314). `new_size` is the new total capacity requested by `EnsureSpace`, not the bytes needed. `new_size <= Remaining()` therefore never holds, and every call reallocates. Output is still correct; only memory is wasted.
3. **Empty `DART_VM_OPTIONS` fields leave `env_argv_` slots uninitialized** (`main_options.cc:321`). `GetEnvArguments` counts every comma except a final one, but `strtok_r` skips empty fields. A text such as `,` or `a,,b` therefore gives fewer tokens than slots. The unset slots of `new char*[arg_count]` are counted in `env_argc_` and `*argc`, read by `ParseArguments` as argv, and freed by `DestroyEnvArgv`.
4. **A script's own arguments are treated as DartDev's** (`main_options.cc:755`). The loop that collects `dart_options` strips `--observe` and `--enable-vm-service`, and exits on `--disable-dart-dev`. The comments say this is for `dart run` and Dart CLI commands, but it also happens for a script run directly: `dart app.dart --disable-dart-dev` exits with an error.

## Bounds

- The writer runs use the real constants: 16 KiB pages, 4 KiB hash chunks, 8-byte words, and the real `sizeof` of every Mach-O struct written.
  - The portion sizes (4000, 200 or 20000, 6000 and 100 bytes) put portions across chunk and page boundaries, both inside and between segments. The isolate's text is offered in two sizes.
  - The signature's offset is therefore not chunk-aligned, and the text segment spans several pages in some runs and one in others.
  - A 4 KiB initial stream capacity forces many `Realloc`s during the write.
  - Every subset and order of the four portions is explored, including with and without a function symbol in the isolate text.
- The stream run scales the chunk to 16 bytes and the page to 64. Writes of 3 and 20 bytes, alignments of 8 and 64 and a 24-byte initial buffer reach partial chunks, writes longer than a chunk and reallocations with a partial chunk pending, within a 100-byte file.

- `remembered_cards`: two tasks, 2-bit words, 2 slots per card and a 3-card table. The table's last word is partial, and the array (length 2 or 5, from slot 1) ends mid-card and mid-word. The tasks race on both the `progress_bar_` word claims and the word write-back.
- `page_cache`: capacity 2, the semi-space limit 1 and thresholds 0 and 3. These put the limit below, at and above the capacity. Four memories are enough to fill a cache and still allocate fresh.
- `integer_folding`: 8-bit ints and 6-bit Smis keep the shapes of 64 and 62. The operands are 0, ±1 and the ends of each range, which is where overflow, truncation and the `kMinInt64 / -1` case are.
- `option_parsing`: up to three arguments, which is enough for a VM option, a target and one argument after it. Each of the 24 argument kinds exercises one branch of `ParseArguments`.
- `env_arguments`: texts of up to five characters over `a` and `,`. These include leading, trailing, doubled and lone commas.

## Fairness and liveness

The Mach-O writer, the folding and the option parsing are sequential code
called by one thread, and every behaviour ends. Their runs assume no fairness
and set `CHECK_DEADLOCK FALSE`, because the final state (after `Finalize`,
`Close`, the answer, `Verify` or `DestroyEnvArgv`) is where the program
really stops. The page cache assumes no fairness either, since a thread may
stop calling it. Its run checks deadlock, and some call is always enabled.

`remembered_cards` assumes weak fairness of each task. A scavenger task runs
`VisitRememberedCards` to completion without waiting on anything, so once it
can take a step it keeps taking steps. `Termination` checks that the
`fetch_add` loop ends for every interleaving.

## Not modelled

- The bytes themselves (SHA-256, the nlist encoding, most load-command field values) are not modelled. Only sizes and positions are kept, plus the symbol-table offset/count pairs. The properties are about layout, hashing coverage and symbol values.
- `platform/datastream.h` `EnsureSpace`, `Utils::RoundUp/Minimum/Maximum` and the `mach_o.h` constants are not in this extract. They are modelled from their definitions and marked `spec_modelled`.
- The image snapshot writer that calls `AddText`/`AddROData` is not in this extract either. Its calls are modelled as any order of adding each portion at most once.
- `page.cc`: `VisitObjects*` only walk objects and change no page state. Image pages come from the snapshot loader, which is not in this extract.
- `evaluator.cc`: the double folding is IEEE arithmetic and is not modelled. `SafeDoubleToInt`'s behaviour at 2^63 is not in this extract.
- `main_options.cc`: `PrintUsage`/`PrintVersion` only print. `OptionProcessor` (`bin/options.cc`) is not in this extract and is modelled as a dispatch on the option tables. The AOT build's `ParseArguments` differs only in the `DART_VM_OPTIONS` prefix, which `EnvArguments` models.
- `os_macos.cc`: only `GetAppBuildId` is modelled, from its header walk on. Its first branch reads the build ID recorded in the instructions image through the `Image` class, which is not in this extract. The Android `GetAppBuildId` walks ELF program headers, written by an ELF writer that is not in this extract either. `SleepMicros`' retry on `EINTR` keeps only the remaining time and is left out. The other OS functions wrap libc or the OS.
- The natives, service glue, flag lists, constant tables and tests have no state transitions to explore.

## Hazards

`PROJECT.json` lists the hazards of each modelled file with the properties
that cover them. The uncovered ones in `mach_o.cc` have a note there:
- `symbols->At(0)` on a possibly empty array (L2616);
- the debug loop at L2420 that stops one short.

The zerofill assert at L558 can never fire, because its condition ANDs two different section types. This is not listed as a hazard. Nor is the `uint8_t` section index at L1249: `nlist.n_sect` is a byte in the format itself, and the writer creates a handful of sections, so it cannot wrap. Nor is the file size 0 that L838 reports for a segment holding only the header: the source comment says it is intended, and the debug info (zerofill text) does reach it.

The loop at L1967 also stops one short. `CrossArtifactConsistency` covers it
by checking the label that `AssertConsistency` skips. In `main_options.cc`,
`strtok_r` writes NULs into the string `getenv` returned (L332). The copy
`StrNDup(token, rest - token)` takes one byte past the token whenever a
separator ended it, and is right only because that byte is now the NUL.
`TokensInOrder` covers this: `buf` is the mutable string, and a tokenizer
that leaves the separator in place (`Unterminated`) breaks the property.
Later `getenv` readers of the truncated variable are not in this extract.

Two hazards have no covering property. `SafeDoubleToInt` is not in this
extract, so whether the double 2^63 passes `ToIntegerConstant` (evaluator.cc
L301) is left open. The kind check at main_options.cc L812 runs before the
kind is defaulted; `ScriptRunOptionsConsistent` leaves that check out,
because whether `main.cc` rejects the combination later is not in this
extract.
