---------------------------- MODULE MCUploadChecks ----------------------------
(* Instances of UploadChecks for TLC. *)
EXTENDS UploadChecks, TLC

TwoFiles == {1, 2}

\* A crash that the first resumption of an upload meets.
EarlyCrash ==
  /\ Cardinality(created) = 1
  /\ \E k \in Checkers : At(k, "save") /\ Same(checks[k])
  /\ RestartAmidChecks
  /\ UNCHANGED state

\* Uploads that may expire, but are not paused or deleted in the list.
TransferNext ==
  \/ CheckStep
  \/ Between(Upload)
  \/ Between(Finalize)
  \/ \E w \in Merges : Between(MergeStep(w))
  \/ \E s \in Sids : Between(ExpireSession(s))
  \/ EarlyCrash
TransferSpec == ChecksInit /\ [][TransferNext]_checkVars

\* Ids, workers, connections and contents are interchangeable.
Symmetric ==
  Permutations(Sids) \cup Permutations(Tasks) \cup Permutations(Conns)
    \cup Permutations(Merges) \cup Permutations(Data) \cup Permutations(Checkers)
=============================================================================
