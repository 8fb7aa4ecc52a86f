--------------------------- MODULE MCReviewQueue ---------------------------
(* Small instances of the review queue; the policy's days are scaled down,  *)
(* in the order the code's have.                                            *)
EXTENDS ReviewQueue, TLC

CONSTANTS i1, i2

OneDecision == i1 :> "unresolved"

OverdueAndProposal == i1 :> "overdue" @@ i2 :> "pending_human_review"

FewDays == [t \in ItemTypes |->
              IF t \in {"overdue", "blocker"} THEN 1 ELSE 2]

OneDay == [t \in ItemTypes |-> 1]

SeverityDays == <<2, 2, 2, 1>>

ReviewerSymmetry == Permutations(Reviewers)
=============================================================================
