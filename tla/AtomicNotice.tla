---------------------------- MODULE AtomicNotice ----------------------------
(***************************************************************************)
(* What a case promises its consumer: a notice is drawn, in one instant,   *)
(* from the facts and the accepted evidence the case holds, a case notice  *)
(* only while the consumer's confirmation stands, and any later change of  *)
(* that material withdraws it.  ConsumerCase implements this with uploads  *)
(* and generations that take many steps.                                   *)
(***************************************************************************)
CONSTANTS FactsValues, Files, None

VARIABLES facts, evidence, confirmed, notice

vars == <<facts, evidence, confirmed, notice>>

Drawn(mode) == [mode |-> mode, facts |-> {facts}, evidence |-> evidence]

Init ==
    /\ facts \in FactsValues
    /\ evidence \in SUBSET Files
    /\ confirmed = FALSE
    /\ notice \in {None, Drawn("prompt")}

(* A change of the material; the same request may confirm the result.       *)
Change ==
    /\ facts' \in FactsValues
    /\ evidence' \in SUBSET Files
    /\ evidence \subseteq evidence'
    /\ confirmed' \in BOOLEAN
    /\ evidence' # evidence => confirmed' = FALSE
    /\ notice' = None

(* The consumer confirms the material as it stands, or takes that back.     *)
Review ==
    /\ confirmed' \in BOOLEAN
    /\ UNCHANGED <<facts, evidence, notice>>

DrawNotice ==
    /\ confirmed
    /\ evidence # {}
    /\ notice' = Drawn("case")
    /\ UNCHANGED <<facts, evidence, confirmed>>

Next == Change \/ Review \/ DrawNotice

Spec == Init /\ [][Next]_vars
=============================================================================
