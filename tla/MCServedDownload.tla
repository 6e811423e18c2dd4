--------------------------- MODULE MCServedDownload ---------------------------
(* Instances of ServedDownload for TLC. *)
EXTENDS ServedDownload, TLC

NoRanges == {}
SomeRanges == {<<1, 2>>}

Symmetric == Permutations(Requests) \cup Permutations(TaskIds)
=============================================================================
