------------------------ MODULE MCConsumerSession -------------------------
(***************************************************************************)
(* Instances of ConsumerSession for TLC.                                    *)
(***************************************************************************)
EXTENDS ConsumerSession, TLC

Symmetry == Permutations(MessageIds)
=============================================================================
