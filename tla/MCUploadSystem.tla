---------------------------- MODULE MCUploadSystem ----------------------------
(* Instances of UploadSystem for TLC. *)
EXTENDS UploadSystem, TLC

OneFile  == {1}
TwoFiles == {1, 2}

Alone    == {{1}}
Together == {{1, 2}, {1}, {2}}  \* retries may be for a part of the selection
Singles  == {{1}, {2}}

\* Every user may select what any check may list, or each has a file of its own.
Anything == [b \in Browsers |-> Selections]
Both     == [b \in Browsers |-> {Files}]
OwnFile  == CHOOSE p \in [Browsers -> Selections] : \A b, c \in Browsers : p[b] = p[c] => b = c
Own      == [b \in Browsers |-> {OwnFile[b]}]

\* All files have n chunks.
Equal(n) == [b \in Browsers |-> [f \in Files |-> n]]
OneChunk  == Equal(1)
TwoChunks == Equal(2)

\* Every page uploads the same content.
SameContent == [b \in Browsers |-> CHOOSE d \in Data : TRUE]

Symmetric ==
  Permutations(Sids) \cup Permutations(Tasks) \cup Permutations(Conns)
    \cup Permutations(Merges) \cup Permutations(Browsers)
=============================================================================
