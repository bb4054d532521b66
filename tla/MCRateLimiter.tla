-------------------------- MODULE MCRateLimiter ---------------------------
(***************************************************************************)
(* An instance of RateLimiter for TLC: one more client than tracked keys,   *)
(* one or two threads.                                                      *)
(***************************************************************************)
EXTENDS RateLimiter, TLC

Symmetry == Permutations(Threads) \cup Permutations(Keys)
=============================================================================
