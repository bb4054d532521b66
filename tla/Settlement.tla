----------------------------- MODULE Settlement -----------------------------
(***************************************************************************)
(* The settlement of a notice (app/consumer/settlement.py, service.py):     *)
(* amounts are in tenths of a cent, 0 for none.                             *)
(***************************************************************************)
EXTENDS Integers, Sequences

(* To the cent, half up.                                                    *)
Money(amount) == 10 * ((amount + 5) \div 10)

Confirmed(amount) == IF amount > 0 THEN {[from |-> "consumer", states |-> amount]} ELSE {}

(* A value found in a document and chosen by the consumer.                  *)
LossSources(facts) ==
    IF facts.reference = 0 THEN Confirmed(facts.loss)
    ELSE {[from |-> "document", states |-> facts.reference]}

ImproperSourcesOfLoss(facts) ==
    IF facts.reference # 0 THEN LossSources(facts) ELSE Confirmed(facts.improper)

(* The document backs the payment where it is the whole loss.               *)
ImproperSources(facts) ==
    IF facts.reference # 0 /\ facts.improper = facts.loss THEN LossSources(facts)
    ELSE Confirmed(facts.improper)

(* SettlementInputs refuses a payment above the loss: the facts may name a  *)
(* payment and no loss.                                                     *)
Computable(facts) == facts.improper <= facts.loss

(* Article 42 adds the payment once more where the consumer asks for it.    *)
Increment(facts) == IF facts.doubled THEN Money(facts.improper) ELSE 0

Components(facts) ==
    {c \in {[kind |-> "direct_loss", amount |-> Money(facts.loss), offered |-> TRUE,
             sources |-> LossSources(facts)],
            [kind |-> "conditional_article_42", amount |-> Increment(facts), offered |-> TRUE,
             sources |-> ImproperSources(facts)],
            [kind |-> "downside_cost", amount |-> Money(facts.cost), offered |-> FALSE,
             sources |-> Confirmed(facts.cost)]} : c.amount > 0}

ProposalWithCost(facts) == Money(facts.loss) + Increment(facts) + Money(facts.cost)

(* The public proposal, 0 for one without money.                            *)
PublicProposal(facts) == Money(facts.loss) + Increment(facts)

(* What the consumer would settle for, never shown to the supplier.         *)
Reservation(facts) == Money(facts.loss)
=============================================================================
