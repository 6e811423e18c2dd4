----------------------------- MODULE ChunkSplit -----------------------------
(***************************************************************************)
(* How a file is cut into chunks, on both sides of an upload.              *)
(*                                                                         *)
(* The server cuts a file in a loop (ChunkManager::splitFile); the page    *)
(* computes the number of chunks and the place of each (uploadChunked of   *)
(* receive.html).  Both must agree: the server refuses an index that it    *)
(* did not count and a chunk that has not the size it noted, and the       *)
(* merged file is the chunks one after the other.                          *)
(***************************************************************************)
EXTENDS Integers, Sequences

MB == 1024 * 1024
GB == 1024 * MB

\* The size of the chunks, by the size of the file.
calculateChunkSize(fileSize) ==
  IF fileSize < 100 * MB THEN MB
  ELSE IF fileSize < GB THEN 4 * MB
  ELSE IF fileSize < 5 * GB THEN 8 * MB
  ELSE 16 * MB

\* The server's chunks: every round of the loop adds one at the offset.
splitFile(fileSize, chunkSize) ==
  LET Rounds[offset \in Nat] ==
        IF offset >= fileSize
        THEN <<>>
        ELSE LET size == IF chunkSize < fileSize - offset THEN chunkSize ELSE fileSize - offset
             IN  <<[offset |-> offset, size |-> size]>> \o Rounds[offset + size]
  IN  Rounds[0]

\* The page's chunks.  (Math.ceil of a quotient is exact here: the sizes of
\* chunks are powers of two.)
totalChunks(fileSize, chunkSize) == (fileSize + chunkSize - 1) \div chunkSize
SliceStart(i, chunkSize) == i * chunkSize
SliceEnd(i, fileSize, chunkSize) ==
  IF SliceStart(i, chunkSize) + chunkSize < fileSize
  THEN SliceStart(i, chunkSize) + chunkSize ELSE fileSize
Slices(fileSize, chunkSize) ==
  [n \in 1 .. totalChunks(fileSize, chunkSize) |->
     [offset |-> SliceStart(n - 1, chunkSize),
      size   |-> SliceEnd(n - 1, fileSize, chunkSize) - SliceStart(n - 1, chunkSize)]]

-----------------------------------------------------------------------------
(* What both sides rely on; UploadServerProofs proves it for files and      *)
(* chunks of every size.                                                    *)

\* The slice of the page with index i has the place and the size that the
\* server noted for its chunk i, and there are as many of them.
SidesAgree(fileSize, chunkSize) ==
  splitFile(fileSize, chunkSize) = Slices(fileSize, chunkSize)

\* The byte at position b of a file is in slice i.
Contains(i, b, fileSize, chunkSize) ==
  SliceStart(i, chunkSize) <= b /\ b < SliceEnd(i, fileSize, chunkSize)
=============================================================================
