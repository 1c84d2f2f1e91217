------------------------- MODULE MCMachOHashingStream -------------------------
(***************************************************************************)
(* The hashing stream driven the way WriteVisitor drives it: any sequence  *)
(* of WriteBytes and Align calls, one FinalizeHashedContent (issued by     *)
(* MachOCodeSignature::WriteSelf), more writes (the signature), and the    *)
(* destructor.                                                             *)
(***************************************************************************)
EXTENDS MachOHashingStream

CONSTANTS
  WriteLengths,   \* lengths of single WriteBytes calls
  Alignments,     \* alignments passed to Align (powers of two <= PageSize)
  MaxFileSize     \* bound on the file position

VARIABLES
  ws,       \* the HashingMachOWriteStream
  phase,    \* "hashing", "signature" (after FinalizeHashedContent), "done"
  limit,    \* file position at FinalizeHashedContent, -1 before
  lastLen   \* length of the most recent write request, 0 for none

vars == <<ws, phase, limit, lastLen>>

Init ==
  /\ ws = NewStream
  /\ phase = "hashing"
  /\ limit = -1
  /\ lastLen = 0

Write(n) ==
  /\ phase \in {"hashing", "signature"}
  /\ Position(ws) + n <= MaxFileSize
  /\ ws' = WriteBytes(ws, n)
  /\ lastLen' = n
  /\ UNCHANGED <<phase, limit>>

AlignTo(a) ==
  /\ phase \in {"hashing", "signature"}
  /\ RoundUp(Position(ws), a) <= MaxFileSize
  /\ ws' = Align(ws, a)
  /\ lastLen' = RoundUp(Position(ws), a) - Position(ws)
  /\ UNCHANGED <<phase, limit>>

Finalize ==
  /\ phase = "hashing"
  /\ ws' = FinalizeHashedContent(ws)
  /\ limit' = Position(ws)
  /\ phase' = "signature"
  /\ UNCHANGED lastLen

Close ==
  /\ phase = "signature"
  /\ ws' = Destroy(ws)
  /\ phase' = "done"
  /\ UNCHANGED <<limit, lastLen>>

Next ==
  \/ \E n \in WriteLengths : Write(n)
  \/ \E a \in Alignments : AlignTo(a)
  \/ Finalize
  \/ Close

Spec == Init /\ [][Next]_vars

TypeOK ==
  /\ ws \in StreamType
  /\ phase \in {"hashing", "signature", "done"}
  /\ limit \in {-1} \cup 0..MaxFileSize
  /\ lastLen \in 0..MaxFileSize

(* Digests are taken over whole chunks at chunk boundaries: the digests    *)
(* tile the hashed prefix of the file, and while hashing every byte handed *)
(* to the wrapped stream has been digested. Flush(chunks_only) called from *)
(* Realloc at arbitrary write boundaries must keep this.                   *)
HashCoverage ==
  /\ IsChunkTiling(ws.hashes, HashedEnd(ws))
  /\ ws.hashing => HashedEnd(ws) = ws.flushed

(* The hash-count law: once FinalizeHashedContent has run, num_hashes() is *)
(* ceil(limit / ChunkSize) and the digests cover exactly [0, limit), which *)
(* is what MachOCodeSignature::ExpectedNumHashes asserts.                  *)
HashCountLaw ==
  phase # "hashing" =>
    /\ NumHashes(ws) = (limit + ChunkSize - 1) \div ChunkSize
    /\ HashedEnd(ws) = limit

(* Realloc's comment: "Check whether there's enough space after flushing"; *)
(* the buffer should grow only when the pending write does not fit in the  *)
(* space that flushing whole chunks leaves.                                *)
ReallocGrowsOnlyWhenNeeded ==
  [][ ws'.cap > ws.cap =>
        LET f == Flush(ws, TRUE) IN f.cap - f.buf < lastLen' ]_vars
=============================================================================
