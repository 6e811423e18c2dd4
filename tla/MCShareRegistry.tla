--------------------------- MODULE MCShareRegistry ---------------------------
(* An instance of ShareRegistry for TLC. *)
EXTENDS ShareRegistry, TLC

\* A bound: one token has a limit, and the pages are those of this share; the
\* others are received files and what they are shared as.
Limited(t) == made[t] # None /\ made[t] > 0

OneLimited ==
  /\ Cardinality({t \in Tokens : Limited(t)}) <= 1
  /\ \A v \in Viewers : views[v] # None => Limited(views[v])

Symmetric == Permutations(Tokens) \cup Permutations(Viewers)
=============================================================================
