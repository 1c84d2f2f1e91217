------------------------------ MODULE PageCache ------------------------------
(***************************************************************************)
(* The page cache of src/runtime/vm/heap/page.cc: Page::Allocate,          *)
(* Page::Deallocate, Page::ClearCache and Page::WriteProtect.             *)
(*                                                                         *)
(* Threads allocate and free pages concurrently. The cache, page_cache and *)
(* page_cache_size, is guarded by page_cache_mutex. Every step below reads *)
(* or writes the cache only inside one MutexLocker scope, and what it does *)
(* outside that scope touches only its own page, so each call is one       *)
(* atomic step.                                                            *)
(*                                                                         *)
(* A page lives at the start of its VirtualMemory (Page* is               *)
(* memory->address()), so pages are identified by their memory. mem[m] is *)
(* what the OS and VirtualMemory know of m; held[m] counts the Page*       *)
(* handles Allocate has returned for m and Deallocate has not taken back.  *)
(***************************************************************************)
EXTENDS Integers, Sequences, SequencesExt

CONSTANTS
  Mem,              \* the VirtualMemory regions the OS can map
  PageSize,         \* kPageSize, the unit of sizes here
  LargeSizes,       \* the sizes of large pages, kPageSize among them
  Capacity,         \* kPageCacheCapacity
  SemiMaxPages,     \* FLAG_new_gen_semi_max_size * MB / kPageSize
  Thresholds,       \* new_space()->ThresholdInWords() / kPageSizeInWords
  FlagChoices,      \* the flag sets pages are allocated with
  WriteProtectCode  \* FLAG_write_protect_code

NoGroup == -1   \* IsolateGroup::Current() is nullptr

VARIABLES
  mem,     \* m -> [mapped, exec, size, prot, zeroed]
  held,    \* m -> the number of live Page* handles for m
  page,    \* m -> [flags, size] of the page last allocated in m
  cache    \* index -> page_cache[index][0 .. page_cache_size[index] - 1]

vars == << mem, held, page, cache >>

Prots == {"rw", "ro", "rx"}

\* CanUseCache(flags): image, large and VM-isolate pages bypass the cache.
CanUseCache(flags) == flags \cap {"image", "large", "vmisolate"} = {}

\* A CacheIndex that ignores kExecutable.
CacheIndexIgnoringExec(flags) == 0

\* CacheIndex(flags): executable pages have a cache of their own.
CacheIndex(flags) == IF "exec" \in flags THEN 1 ELSE 0

\* The cache bound test page_cache_size[index] <= limit.
HasRoomAtLimit(size, limit) == size <= limit

\* The cache bound test page_cache_size[index] < limit.
HasRoom(size, limit) == size < limit

\* The limit Deallocate computes for a page with the given flags, when the
\* current isolate group has the given new-space threshold.
Limit(flags, threshold) ==
  LET fromGroup == IF threshold # NoGroup /\ "new" \in flags THEN threshold
                   ELSE 0
      atLeast == IF fromGroup > SemiMaxPages THEN fromGroup ELSE SemiMaxPages
  IN IF atLeast < Capacity THEN atLeast ELSE Capacity

Init ==
  /\ mem = [m \in Mem |-> [mapped |-> FALSE, exec |-> FALSE, size |-> PageSize,
                           prot |-> "rw", zeroed |-> TRUE]]
  /\ held = [m \in Mem |-> 0]
  /\ page = [m \in Mem |-> [flags |-> {}, size |-> PageSize]]
  /\ cache = [i \in {0, 1} |-> << >>]

\* Page::Allocate(size, flags) served from the cache: the last cached
\* memory of the page's index is popped.
AllocateCached(size, flags) ==
  LET idx == CacheIndex(flags) IN
  /\ CanUseCache(flags)
  /\ cache[idx] # << >>
  /\ cache' = [cache EXCEPT ![idx] = Front(@)]
  /\ held' = [held EXCEPT ![Last(cache[idx])] = @ + 1]
  /\ page' = [page EXCEPT ![Last(cache[idx])] = [flags |-> flags, size |-> size]]
  /\ UNCHANGED mem

\* Page::Allocate(size, flags) when the cache is not used or is empty:
\* VirtualMemory::AllocateAligned maps fresh, zeroed, read-write memory.
\* When the OS has none, Allocate returns nullptr and nothing changes.
AllocateFresh(size, flags) ==
  /\ ~CanUseCache(flags) \/ cache[CacheIndex(flags)] = << >>
  /\ \E m \in Mem :
       /\ ~mem[m].mapped
       /\ mem' = [mem EXCEPT ![m] = [mapped |-> TRUE, exec |-> "exec" \in flags,
                                     size |-> size, prot |-> "rw",
                                     zeroed |-> TRUE]]
       /\ held' = [held EXCEPT ![m] = @ + 1]
       /\ page' = [page EXCEPT ![m] = [flags |-> flags, size |-> size]]
  /\ UNCHANGED cache

\* The sizes Page::Allocate is called with for the given flags: kPageSize,
\* except for large pages.
SizesFor(flags) == IF "large" \in flags THEN LargeSizes ELSE {PageSize}

Allocate(flags) ==
  \E size \in SizesFor(flags) :
    AllocateCached(size, flags) \/ AllocateFresh(size, flags)

\* A caching tail that leaves memory set, so it is deleted as well.
CachedAndDeleted(m, idx) ==
  /\ mem' = [mem EXCEPT ![m].mapped = FALSE, ![m].zeroed = FALSE]
  /\ cache' = [cache EXCEPT ![idx] = Append(@, m)]

\* The tail of Page::Deallocate that caches the memory: executable memory
\* is reset to read-write, the contents are zapped, and memory is set to
\* nullptr so that it is not deleted.
Cached(m, idx) ==
  /\ mem' = [mem EXCEPT ![m].prot = IF mem[m].exec /\ WriteProtectCode
                                    THEN "rw" ELSE @,
                        ![m].zeroed = FALSE]
  /\ cache' = [cache EXCEPT ![idx] = Append(@, m)]

\* delete memory: the region is unmapped.
Deleted(m) ==
  /\ mem' = [mem EXCEPT ![m].mapped = FALSE]
  /\ UNCHANGED cache

\* Page::Deallocate() of the page in m, when the current isolate group has
\* the given threshold. (Image pages are not allocated by Page::Allocate
\* and are not modelled.)
Deallocate(m, threshold) ==
  LET flags == page[m].flags
      idx == CacheIndex(flags)
  IN /\ held[m] > 0
     /\ held' = [held EXCEPT ![m] = @ - 1]
     /\ IF CanUseCache(flags) /\ HasRoom(Len(cache[idx]), Limit(flags, threshold))
        THEN Cached(m, idx)
        ELSE Deleted(m)
     /\ UNCHANGED page

\* Page::ClearCache(): every cached memory is deleted.
ClearCache ==
  /\ mem' = [m \in Mem |->
               IF \E i \in {0, 1} : \E k \in DOMAIN cache[i] : cache[i][k] = m
               THEN [mem[m] EXCEPT !.mapped = FALSE]
               ELSE mem[m]]
  /\ cache' = [i \in {0, 1} |-> << >>]
  /\ UNCHANGED << held, page >>

\* A WriteProtect that maps every read-only page read-execute.
WriteProtectIgnoringExec(m, readOnly) ==
  /\ held[m] > 0
  /\ "image" \notin page[m].flags
  /\ page[m].flags \cap {"exec", "vmisolate"} # {}
  /\ mem' = [mem EXCEPT ![m].prot = IF readOnly THEN "rx" ELSE "rw"]
  /\ UNCHANGED << held, page, cache >>

\* Page::WriteProtect(read_only) of the page in m: code becomes
\* executable, other pages read-only or read-write. Its callers, outside
\* this file, protect code pages (FLAG_write_protect_code) and the VM
\* isolate's pages, and no others.
WriteProtect(m, readOnly) ==
  /\ held[m] > 0
  /\ "image" \notin page[m].flags
  /\ page[m].flags \cap {"exec", "vmisolate"} # {}
  /\ mem' = [mem EXCEPT ![m].prot =
               IF mem[m].exec /\ readOnly THEN "rx"
               ELSE IF readOnly THEN "ro" ELSE "rw"]
  /\ UNCHANGED << held, page, cache >>

Next ==
  \/ \E flags \in FlagChoices : Allocate(flags)
  \/ \E m \in Mem, t \in Thresholds \cup {NoGroup} : Deallocate(m, t)
  \/ ClearCache
  \/ \E m \in Mem, ro \in BOOLEAN : WriteProtect(m, ro)

Spec == Init /\ [][Next]_vars

-----------------------------------------------------------------------------
\* Each cache holds at most kPageCacheCapacity memories, as the ASSERTs of
\* Allocate, Deallocate and ClearCache demand and the page_cache arrays
\* require.
TypeOK ==
  /\ mem \in [Mem -> [mapped : BOOLEAN, exec : BOOLEAN, size : LargeSizes \cup {PageSize},
                      prot : Prots, zeroed : BOOLEAN]]
  /\ held \in [Mem -> Nat]
  /\ cache \in [{0, 1} -> Seq(Mem)]
  /\ \A i \in {0, 1} : Len(cache[i]) <= Capacity

\* Whatever order threads allocate, free, protect and clear in, no memory
\* is handed out to two live pages, and a cached memory is still mapped,
\* held by no page and in one cache slot only: the cache never gives out
\* memory that is in use or was deleted.
NoSharedMemory ==
  /\ \A m \in Mem : held[m] <= 1
  /\ \A i \in {0, 1} : \A k \in DOMAIN cache[i] :
       LET m == cache[i][k] IN
       /\ mem[m].mapped /\ held[m] = 0
       /\ \A j \in {0, 1} : \A l \in DOMAIN cache[j] :
            cache[j][l] = m => i = j /\ k = l

\* The page memory Allocate hands out, from the cache or fresh, always
\* fits the request: mapped, of the requested size, executable exactly for
\* kExecutable pages, read-write (code a page write-protected is reset
\* before it is cached), and zeroed for large pages, which expect zeroed
\* memory.
AllocationFits ==
  [][\A m \in Mem :
       held'[m] > held[m] =>
         /\ mem'[m].mapped
         /\ mem'[m].size = page'[m].size
         /\ mem'[m].exec = ("exec" \in page'[m].flags)
         /\ mem'[m].prot = "rw"
         /\ ("large" \in page'[m].flags => mem'[m].zeroed)]_vars

\* What a caller may rely on of the memory under each live Page* handle.
LivePages ==
  [m \in {n \in Mem : held[n] > 0} |->
     [size |-> mem[m].size, exec |-> mem[m].exec, prot |-> mem[m].prot,
      mapped |-> mem[m].mapped]]

Allocator == INSTANCE PageAllocator WITH pages <- LivePages,
                                          Sizes <- LargeSizes \cup {PageSize}

\* The cache is invisible to the callers of Page: seen through the live
\* handles, every Allocate, Deallocate, WriteProtect and ClearCache step
\* is a step of PageAllocator. A cache pop hands out a memory no live page
\* has, a free or a cache clear never unmaps, resizes or reprotects a live
\* page, and WriteProtect gives a page only a protection its
\* executability allows.
ImplementsAllocator == Allocator!Spec
=============================================================================
