-------------------------- MODULE MCKnowledgeGaps --------------------------
(* A question, a follow-up of it, and one that would go too deep.          *)
EXTENDS KnowledgeGaps, TLC

CONSTANTS g1, g2, g3

MCGaps == {g1, g2, g3}

MCDepthOf == g1 :> 0 @@ g2 :> 1 @@ g3 :> 2
=============================================================================
