---------------------------- MODULE MCUploadServer ----------------------------
(* Instances of UploadServer for TLC. *)
EXTENDS UploadServer, TLC

OneFile == {1}
Alone   == {{1}}  \* every check is for the same single file

\* Ids, connections and contents are interchangeable (files are ordered).
Symmetric ==
  Permutations(Sids) \cup Permutations(Tasks) \cup Permutations(Conns)
    \cup Permutations(Merges) \cup Permutations(Data)

\* A size of a file, in chunks, means the same to the server and to the page.
Split == INSTANCE ChunkSplit
ASSUME SplitAssumption ==
  \A fileSize \in 0 .. 40, chunkSize \in 1 .. 9 : Split!SidesAgree(fileSize, chunkSize)
=============================================================================
