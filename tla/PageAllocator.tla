---------------------------- MODULE PageAllocator ----------------------------
(***************************************************************************)
(* What Page::Allocate, Page::Deallocate and Page::WriteProtect promise    *)
(* their callers, with the cache left out: pages maps each memory that a  *)
(* live Page* handle stands on to what the caller may rely on, namely its  *)
(* size, whether it is executable, its protection and that it is mapped.  *)
(* A page comes into existence only on a memory no live page has, keeps   *)
(* its size, executability and mapping for as long as it lives, changes    *)
(* protection only to one its executability allows, and goes away only by  *)
(* being freed. PageCache implements this specification.                   *)
(***************************************************************************)
EXTENDS Functions, TLC

CONSTANTS
  Mem,     \* the memory regions pages can stand on
  Sizes    \* the sizes pages can have

VARIABLE pages

\* Executable pages are read-write or read-execute, other pages read-write
\* or read-only.
ProtsFor(exec) == IF exec THEN {"rw", "rx"} ELSE {"rw", "ro"}

Init == DOMAIN pages = {}

\* A new page, read-write and mapped, on a memory no live page has.
Allocate(m, size, exec) ==
  /\ m \in Mem \ DOMAIN pages
  /\ pages' = pages @@ (m :> [size |-> size, exec |-> exec, prot |-> "rw",
                              mapped |-> TRUE])

\* A live page is freed.
Deallocate(m) ==
  /\ m \in DOMAIN pages
  /\ pages' = Restrict(pages, DOMAIN pages \ {m})

\* A live page changes protection.
WriteProtect(m, prot) ==
  /\ m \in DOMAIN pages
  /\ prot \in ProtsFor(pages[m].exec)
  /\ pages' = [pages EXCEPT ![m].prot = prot]

Next ==
  \/ \E m \in Mem, size \in Sizes, exec \in BOOLEAN : Allocate(m, size, exec)
  \/ \E m \in Mem : Deallocate(m)
  \/ \E m \in Mem, prot \in {"rw", "ro", "rx"} : WriteProtect(m, prot)

Spec == Init /\ [][Next]_pages
=============================================================================
