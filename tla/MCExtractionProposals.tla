----------------------- MODULE MCExtractionProposals -----------------------
(* Small instances of the extraction proposals.                             *)
EXTENDS ExtractionProposals, TLC

CONSTANTS p1, p2

ActionsOnly == p1 :> "action" @@ p2 :> "action"

TwoTypes == p1 :> "action" @@ p2 :> "decision"

ClientSymmetry == Permutations(Clients)
=============================================================================
