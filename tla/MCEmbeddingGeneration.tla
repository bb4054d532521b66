----------------------- MODULE MCEmbeddingGeneration -----------------------
(***************************************************************************)
(* Instances of EmbeddingGeneration for TLC.                               *)
(***************************************************************************)
EXTENDS EmbeddingGeneration, Sequences

(* A release, and one that changes an article and splits the shards anew.   *)
TwoReleases == <<<<{1, 2}>>, <<{1}, {2, 3}>>>>
=============================================================================
