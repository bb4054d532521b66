------------------------- MODULE MCEvidenceVectors -------------------------
(***************************************************************************)
(* Instances of EvidenceVectors for TLC.                                   *)
(***************************************************************************)
EXTENDS EvidenceVectors, TLC

CONSTANTS c1, c2, t1, t2

OwnTexts == c1 :> {t1} @@ c2 :> {t2}

(* Exchanging the two cases together with their texts changes nothing.      *)
Exchange ==
    {p \in Permutations({c1, c2, t1, t2}) : p[c1] \in {c1, c2} /\ (p[c1] = c1 <=> p[t1] = t1)
                                            /\ p[t1] \in {t1, t2}}
=============================================================================
