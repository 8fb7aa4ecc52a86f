--------------------------- MODULE ProposalReview ---------------------------
(***************************************************************************)
(* What the extraction proposals promise: a proposal waits for a human,    *)
(* who promotes it into one canonical record or rejects it, once and for   *)
(* all, and an accepted proposal gets a record of its own.                 *)
(***************************************************************************)
CONSTANTS Proposals, Records, NoRecord

VARIABLES
    verdict,    \* what became of each proposal
    promoted    \* the canonical record it was promoted into

reviewVars == <<verdict, promoted>>

ReviewInit ==
    /\ verdict = [p \in Proposals |-> "absent"]
    /\ promoted = [p \in Proposals |-> NoRecord]

Submit(p) ==
    /\ verdict[p] = "absent"
    /\ verdict' = [verdict EXCEPT ![p] = "pending"]
    /\ UNCHANGED promoted

Promote(p) ==
    /\ verdict[p] = "pending"
    /\ \E r \in Records, v \in {"accepted", "merged"} :
         /\ v = "accepted" => \A q \in Proposals : promoted[q] # r
         /\ verdict' = [verdict EXCEPT ![p] = v]
         /\ promoted' = [promoted EXCEPT ![p] = r]

Dismiss(p) ==
    /\ verdict[p] = "pending"
    /\ verdict' = [verdict EXCEPT ![p] = "rejected"]
    /\ UNCHANGED promoted

ReviewNext == \E p \in Proposals : Submit(p) \/ Promote(p) \/ Dismiss(p)

ReviewSpec == ReviewInit /\ [][ReviewNext]_reviewVars
=============================================================================
