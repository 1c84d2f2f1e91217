------------------------------ MODULE MachOReader ------------------------------
(***************************************************************************)
(* The runtime's reader of a Mach-O header: OS::GetAppBuildId              *)
(* (src/runtime/vm/os_macos.cc) when the instructions image carries no     *)
(* build ID of its own. It walks the load commands from the end of the     *)
(* mach_header, stepping by each command's cmdsize, until sizeofcmds       *)
(* bytes are consumed or an LC_UUID command is found. The first branch of *)
(* GetAppBuildId, a build ID recorded in the instructions image itself,    *)
(* reads the Image class, which is not in this extract; this module is the *)
(* fallback taken when the image has none.                                 *)
(*                                                                         *)
(* A header h is what the file holds: h.magic, h.sizeofcmds, and          *)
(* h.prefix, the load_command (cmd, cmdsize) found at each offset from    *)
(* the start of the header where a command begins. Reading a              *)
(* load_command at any other offset reads the middle of some field; the   *)
(* result is then Unreadable.                                              *)
(***************************************************************************)
EXTENDS Integers

\* sizeof(struct mach_header) and sizeof(struct mach_header_64).
MachHeader32Size == 28
MachHeader64Size == 32

\* sizeof(struct load_command): cmd and cmdsize.
LoadCommandSize == 8

\* The result {0, nullptr}.
NoBuildId == [length |-> 0, at |-> 0]

\* A walk that read a load_command where none begins.
Unreadable == [length |-> 0, at |-> -1]

\* A header size that takes every header for a 32-bit one.
MachHeaderSizeIgnoringMagic(magic) == MachHeader32Size

\* The header size the reader skips, chosen by the magic.
MachHeaderSize(magic) ==
  IF magic = "MH_MAGIC" THEN MachHeader32Size ELSE MachHeader64Size

\* The loop `while (it < end)`: the build ID is the bytes after the
\* LC_UUID command's prefix, cmdsize - sizeof(load_command) of them.
RECURSIVE FindUuid(_, _, _)
FindUuid(h, it, end) ==
  IF it >= end THEN NoBuildId
  ELSE IF it \notin DOMAIN h.prefix THEN Unreadable
  ELSE IF h.prefix[it].cmd = "uuid"
       THEN [length |-> h.prefix[it].cmdsize - LoadCommandSize,
             at |-> it + LoadCommandSize]
       ELSE FindUuid(h, it + h.prefix[it].cmdsize, end)

\* OS::GetAppBuildId from the DSO's header: nothing for a header that is
\* not host-endian Mach-O, else the walk over [header size,
\* header size + sizeofcmds).
GetAppBuildId(h) ==
  IF h.magic \notin {"MH_MAGIC", "MH_MAGIC_64"} THEN NoBuildId
  ELSE FindUuid(h, MachHeaderSize(h.magic),
                MachHeaderSize(h.magic) + h.sizeofcmds)
=============================================================================
