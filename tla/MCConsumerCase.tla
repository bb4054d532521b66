--------------------------- MODULE MCConsumerCase ---------------------------
(* A small case for TLC: two requests in flight, three uploads of which one *)
(* carries a monetary candidate, a complaint in scope and one out of it.    *)
(* LossValues vary the direct loss, among them an amount the upload does    *)
(* not state; JourneyValues vary what the notice is about.                  *)
EXTENDS ConsumerCase, TLC

CONSTANTS r1, r2, f1, f2, f3, fair, rent, some, full, more, a1, a2

MCTasks == {r1, r2}
MCFiles == {f1, f2, f3}
MCComplaints == {fair, rent}
MCInScope == {fair}
MCOthers == {some, full, more}
MCComplete == {full, more}
MCAmounts == {a1, a2}
MCCandidateOf == [f \in MCFiles |-> IF f = f1 THEN a1 ELSE None]

With(c, o, a, f) == [complaint |-> c, others |-> o, amount |-> a, reference |-> f]

LossValues ==
    {With(None, some, None, None), With(fair, some, None, None),
     With(fair, full, a1, f1), With(fair, full, a2, f1), With(fair, full, a1, None)}

JourneyValues ==
    {With(None, some, None, None), With(fair, some, None, None), With(fair, full, None, None),
     With(fair, more, None, None), With(fair, full, a1, f1), With(rent, full, None, None)}

Requests == Permutations(MCTasks)
=============================================================================
