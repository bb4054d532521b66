----------------------- MODULE MCQueryEmbeddingGuard -----------------------
(***************************************************************************)
(* Instances of QueryEmbeddingGuard for TLC.                               *)
(***************************************************************************)
EXTENDS QueryEmbeddingGuard, TLC

Symmetry == Permutations(Callers) \cup Permutations(Queries)
=============================================================================
