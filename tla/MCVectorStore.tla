--------------------------- MODULE MCVectorStore ---------------------------
(***************************************************************************)
(* An instance of VectorStore for TLC: one document grows with its new     *)
(* revision, the other shrinks and so leaves stale chunks.                 *)
(***************************************************************************)
EXTENDS VectorStore, TLC

CONSTANTS d1, d2

Sizes == d1 :> [old |-> 1, new |-> 2] @@ d2 :> [old |-> 2, new |-> 1]
=============================================================================
