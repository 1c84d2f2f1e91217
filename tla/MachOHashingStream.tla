-------------------------- MODULE MachOHashingStream --------------------------
(***************************************************************************)
(* HashingMachOWriteStream (src/runtime/vm/mach_o.cc): a write stream that *)
(* buffers the bytes written to it and, while hashing is on, hashes every  *)
(* complete ChunkSize chunk before flushing it to the wrapped stream.      *)
(* FinalizeHashedContent hashes the last partial chunk and turns hashing   *)
(* off; later writes (the code signature itself) are flushed unhashed.     *)
(*                                                                         *)
(* Bytes are abstracted to positions: a hash is recorded as the range      *)
(* <<start, length>> of the file it digests, which is all the properties   *)
(* about chunk boundaries need.                                            *)
(***************************************************************************)
EXTENDS Integers, Sequences, SequencesExt

CONSTANTS
  ChunkSize,        \* MachOWriteStream::kChunkSize (1 << 12)
  PageSize,         \* MachOWriter::kPageSize, the largest alignment used
  InitialCapacity,  \* stream->initial_size() of the wrapped stream
  BufferIncrement   \* growth quantum of BaseWriteStream::EnsureSpace

ASSUME ChunkSize > 0 /\ PageSize % ChunkSize = 0
ASSUME InitialCapacity > 0 /\ BufferIncrement > 0

RoundUp(x, a) == ((x + a - 1) \div a) * a
MinOf(a, b) == IF a < b THEN a ELSE b
MaxOf(a, b) == IF a > b THEN a ELSE b

(***************************************************************************)
(* Stream state, one record so that composing modules can hold several.    *)
(*   buf      BaseWriteStream::Position(): bytes in the internal buffer    *)
(*   cap      capacity_ of the internal buffer                             *)
(*   flushed  flushed_size_: bytes already given to the wrapped stream     *)
(*   hashing  hashing_                                                     *)
(*   hashes   the digests in hashes_, each as the file range it covers     *)
(***************************************************************************)
StreamType ==
  [buf: Nat, cap: Nat, flushed: Nat, hashing: BOOLEAN,
   hashes: Seq(Nat \X Nat)]

\* The constructor: an empty buffer of the wrapped stream's initial size.
NewStream ==
  [buf |-> 0, cap |-> InitialCapacity, flushed |-> 0, hashing |-> TRUE,
   hashes |-> <<>>]

\* Position() override: flushed bytes plus buffered bytes.
Position(s) == s.flushed + s.buf

\* A Hash whose chunk lengths are computed from the chunk's end instead of
\* its start (off by one chunk).
HashChunkOffByOne(s, count) ==
  LET n == (count + ChunkSize - 1) \div ChunkSize
      chunk(i) == << s.flushed + (i - 1) * ChunkSize,
                     MinOf(count - i * ChunkSize, ChunkSize) >>
  IN [s EXCEPT !.hashes = @ \o [i \in 1..n |-> chunk(i)]]

\* Hash(count): digests buffer bytes [0, count) in ChunkSize pieces, the
\* last one possibly shorter; the buffer starts at file offset flushed.
Hash(s, count) ==
  LET n == (count + ChunkSize - 1) \div ChunkSize
      chunk(i) == << s.flushed + (i - 1) * ChunkSize,
                     MinOf(count - (i - 1) * ChunkSize, ChunkSize) >>
  IN [s EXCEPT !.hashes = @ \o [i \in 1..n |-> chunk(i)]]

\* FlushBytes(count): hands the first count buffered bytes to the wrapped
\* stream and moves the rest to the front of the buffer.
FlushBytes(s, count) ==
  IF count = 0 THEN s
  ELSE [s EXCEPT !.flushed = @ + count, !.buf = @ - count]

\* A Flush that hashes everything buffered even when only whole chunks
\* were asked for (the remainder is not subtracted).
FlushHashingPartial(s, chunksOnly) ==
  IF s.hashing THEN FlushBytes(Hash(s, s.buf), s.buf)
  ELSE FlushBytes(s, s.buf)

\* Flush(chunks_only): while hashing, hashes and flushes all complete
\* chunks and, unless chunks_only, the final partial chunk too; when not
\* hashing, flushes everything.
Flush(s, chunksOnly) ==
  IF s.hashing
  THEN LET toHash == IF chunksOnly THEN s.buf - (s.buf % ChunkSize)
                     ELSE s.buf
       IN FlushBytes(Hash(s, toHash), toHash)
  ELSE FlushBytes(s, s.buf)

\* A Realloc that flushes (and hashes) the whole buffer, partial chunk
\* included.
ReallocFlushAll(s, newSize) ==
  LET f == Flush(s, FALSE)
  IN IF newSize <= f.cap - f.buf THEN f ELSE [f EXCEPT !.cap = newSize]

\* Realloc(new_size): flushes whole chunks, then keeps the buffer only if
\* new_size fits in the space that remains, else grows it to new_size.
Realloc(s, newSize) ==
  LET f == Flush(s, TRUE)
  IN IF newSize <= f.cap - f.buf THEN f ELSE [f EXCEPT !.cap = newSize]

\* BaseWriteStream::EnsureSpace(needed) (datastream.h): when the buffer has
\* no room, grows the capacity by at least its own size through Realloc.
EnsureSpace(s, needed) ==
  IF s.cap - s.buf >= needed THEN s
  ELSE Realloc(s, s.cap + MaxOf(s.cap, RoundUp(needed, BufferIncrement)))

\* WriteBytes(bytes, len): make room, then append len bytes to the buffer.
WriteBytes(s, len) ==
  LET e == EnsureSpace(s, len) IN [e EXCEPT !.buf = @ + len]

\* Align(alignment): pads with zero bytes up to the next multiple of
\* alignment of the file position (Position() is the overridden one).
Align(s, alignment) ==
  LET pad == RoundUp(Position(s), alignment) - Position(s)
  IN IF pad = 0 THEN s ELSE WriteBytes(s, pad)

\* A finalization that flushes only whole chunks, leaving the tail unhashed.
FinalizeWholeChunks(s) ==
  [Flush(s, TRUE) EXCEPT !.hashing = FALSE]

\* FinalizeHashedContent(): hash and flush everything buffered, then stop
\* hashing.
FinalizeHashedContent(s) ==
  [Flush(s, FALSE) EXCEPT !.hashing = FALSE]

\* ~HashingMachOWriteStream(): flushes the remaining bytes.
Destroy(s) == Flush(s, FALSE)

\* num_hashes().
NumHashes(s) == Len(s.hashes)

\* Number of file bytes covered by the digests so far.
HashedEnd(s) == IF s.hashes = <<>> THEN 0
                ELSE Last(s.hashes)[1] + Last(s.hashes)[2]

(***************************************************************************)
(* The digests tile [0, end) in ChunkSize pieces: digest i covers          *)
(* [(i-1)*ChunkSize, ...) and only the last may be short.                  *)
(***************************************************************************)
IsChunkTiling(hs, end) ==
  /\ Len(hs) = (end + ChunkSize - 1) \div ChunkSize
  /\ \A i \in 1..Len(hs) :
       hs[i] = << (i - 1) * ChunkSize, MinOf(end - (i - 1) * ChunkSize,
                                             ChunkSize) >>
=============================================================================
