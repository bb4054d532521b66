------------------------------ MODULE Ordered ------------------------------
(***************************************************************************)
(* Sequences drawn from finite sets by position: a place is the number of   *)
(* those that come before.  The library sorts and selects with operators as *)
(* parameters; here an order is a set of pairs, so that what these return   *)
(* can be stated and proved once for every order.                           *)
(***************************************************************************)
EXTENDS Integers, Sequences, FiniteSets

(* The members of S, first to last.                                         *)
InOrder(S, before) ==
    [k \in 1 .. Cardinality(S) |->
        CHOOSE x \in S : Cardinality({y \in S : <<y, x>> \in before}) = k - 1]

Ascending(S) == {p \in S \X S : p[1] < p[2]}

Listed(numbers) == InOrder(numbers, Ascending(numbers))

(* Pairs of numbers, by their first and then by their second.               *)
Lexicographic(S) ==
    {p \in S \X S : p[1][1] < p[2][1] \/ (p[1][1] = p[2][1] /\ p[1][2] < p[2][2])}

(* The places of several sequences: which of them, and where in it.         *)
Positions(seqs) == UNION {{<<p, i>> : i \in DOMAIN seqs[p]} : p \in DOMAIN seqs}

(* What stands at the given positions of a sequence, in its order.          *)
Those(seq, positions) ==
    LET order == Listed(positions)
    IN  [k \in DOMAIN order |-> seq[order[k]]]

FirstK(seq, k) == SubSeq(seq, 1, IF k < Len(seq) THEN k ELSE Len(seq))

(* Where each value stands first.                                           *)
Firsts(seq) == {k \in DOMAIN seq : \A i \in 1 .. k - 1 : seq[i] # seq[k]}

Unrepeated(seq) == Those(seq, Firsts(seq))
=============================================================================
