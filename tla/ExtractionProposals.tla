------------------------ MODULE ExtractionProposals ------------------------
(***************************************************************************)
(* ExtractionProposalService                                               *)
(* (core/services/extraction_proposal_service.py): uncertain extractions   *)
(* wait as proposals until a reviewer accepts, merges or rejects them.     *)
(*                                                                         *)
(* A review reads the proposal, checks that it is pending, and then makes  *)
(* one committed write after another: the canonical record first, then the *)
(* verdict, the provenance edge and the event. Reviewers are coroutines of *)
(* the web console, so any step of another may come between two of theirs. *)
(*                                                                         *)
(* Of a record the model keeps its type and which proposals its payload    *)
(* names: the one it was created from and those merged into it. The audit  *)
(* events, appended along the way, are left out.                           *)
(***************************************************************************)
EXTENDS Naturals, FiniteSets

CONSTANTS
    Proposals,
    Type,           \* record_type of each proposal
    Records,        \* row ids of operational_records
    NoRecord,       \* canonical_record_id IS NULL
    NoProposal,     \* the origin of a record created by other means
    Clients,        \* extraction jobs and reviewers
    MaxReviews,     \* bound: reviews begun in a run
    MayFail,        \* whether an operation may be cut off (error, crash)
    MayRefuse,      \* whether reviewers ask for states a record cannot take
    MayEditTasks    \* whether tasks behind records are edited meanwhile

Types == {Type[p] : p \in Proposals}

ASSUME ProposalAssumption ==
    /\ NoRecord \notin Records
    /\ NoProposal \notin Proposals
    /\ DOMAIN Type = Proposals
    /\ "none" \notin Types
    /\ MaxReviews \in Nat
    /\ {MayFail, MayRefuse, MayEditTasks} \subseteq BOOLEAN

VARIABLES
    status,     \* status of each proposal
    home,       \* canonical_record_id of each proposal
    record,     \* operational_records
    edges,      \* provenance edges from a proposal's source to a record
    told,       \* new_status of each proposal's latest event
    penalty,    \* unhelpful_retrievals charged to each proposal's source
    op,         \* what each client is in the middle of
    torn,       \* history: proposals whose review was cut off or refused
    reviews     \* reviews that may still begin

vars == <<status, home, record, edges, told, penalty, op, torn, reviews>>

Verdicts == {"accepted", "merged", "rejected"}

Statuses == {"absent", "pending"} \cup Verdicts

\* A row of operational_records: "none" as type where there is no row.
Record == [type : Types \cup {"none"}, origin : Proposals \cup {NoProposal},
           merged : SUBSET Proposals]

NoRow == [type |-> "none", origin |-> NoProposal, merged |-> {}]

Stored == {r \in Records : record[r].type # "none"}

Carriers(p) == {r \in Stored : record[r].origin = p \/ p \in record[r].merged}

\* verdict is the status an operation is about to write or has written; seen
\* are the merged proposals it read in the record it merges into.
Op == [verdict : Verdicts \cup {"pending"}, prop : Proposals,
       stage : {"read", "seen", "backed", "decided", "tell", "learn"},
       rec : Records \cup {NoRecord}, seen : SUBSET Proposals]

Idle == [stage |-> "idle"]

\* The shape of the tables and the operations; a promoted proposal names a
\* record of its own type.
TypeOK ==
    /\ status \in [Proposals -> Statuses]
    /\ home \in [Proposals -> Records \cup {NoRecord}]
    /\ record \in [Records -> Record]
    /\ \A p \in Proposals :
         status[p] \in {"accepted", "merged"}
           => home[p] \in Stored /\ record[home[p]].type = Type[p]
    /\ edges \subseteq Proposals \X Records
    /\ told \in [Proposals -> Statuses]
    /\ penalty \in [Proposals -> Nat]
    /\ op \in [Clients -> Op \cup {Idle}]
    /\ torn \subseteq Proposals
    /\ reviews \in Nat

\* Some records are there already, created from tasks and meetings.
Init ==
    /\ status = [p \in Proposals |-> "absent"]
    /\ home = [p \in Proposals |-> NoRecord]
    /\ \E old \in SUBSET Records, t \in Types :
         record = [r \in Records |->
                     IF r \in old THEN [NoRow EXCEPT !.type = t] ELSE NoRow]
    /\ edges = {}
    /\ told = [p \in Proposals |-> "absent"]
    /\ penalty = [p \in Proposals |-> 0]
    /\ op = [c \in Clients |-> Idle]
    /\ torn = {}
    /\ reviews = MaxReviews

At(c, stage) == op[c] # Idle /\ op[c].stage = stage

Advance(c, stage) == op' = [op EXCEPT ![c].stage = stage]

Done(c) == op' = [op EXCEPT ![c] = Idle]

-----------------------------------------------------------------------------
(* create_proposal                                                         *)

Propose(c, p) ==
    /\ op[c] = Idle
    /\ status[p] = "absent"
    /\ status' = [status EXCEPT ![p] = "pending"]
    /\ op' = [op EXCEPT ![c] = [verdict |-> "pending", prop |-> p,
                                stage |-> "tell", rec |-> NoRecord, seen |-> {}]]
    /\ UNCHANGED <<home, record, edges, told, penalty, torn, reviews>>

-----------------------------------------------------------------------------
(* accept_proposal and reject_proposal read the proposal first, and raise  *)
(* unless it is pending.                                                   *)

Read(c, p, v, r) ==
    /\ op[c] = Idle
    /\ reviews > 0
    /\ reviews' = reviews - 1
    /\ op' = [op EXCEPT ![c] = [verdict |-> v, prop |-> p, stage |-> "read",
                                rec |-> r, seen |-> {}]]
    /\ UNCHANGED <<status, home, record, edges, told, penalty, torn>>

\* Mutant: a review does not look at the status.
ReadWhateverStatus(c, p, v) ==
    /\ status[p] # "absent"
    /\ v # "merged"
    /\ Read(c, p, v, NoRecord)

ReadForVerdict(c, p, v) ==
    /\ status[p] = "pending"
    /\ v # "merged"
    /\ Read(c, p, v, NoRecord)

\* A merge names an existing record of the proposal's type; rows are never
\* deleted and never change type, so it is refused here or not at all.
ReadForMerge(c, p, r) ==
    /\ status[p] = "pending"
    /\ r \in Stored
    /\ record[r].type = Type[p]
    /\ Read(c, p, "merged", r)

-----------------------------------------------------------------------------
(* The canonical record.                                                   *)

\* Mutant: the payload does not name the proposal.
RowUnsigned(p) == [NoRow EXCEPT !.type = Type[p]]

RowFrom(p) == [type |-> Type[p], origin |-> p, merged |-> {}]

\* _create_record_from_fields
CreateRecord(c) ==
    /\ At(c, "read")
    /\ op[c].verdict = "accepted"
    /\ \E r \in Records \ Stored :
         /\ record' = [record EXCEPT ![r] = RowFrom(op[c].prop)]
         /\ op' = [op EXCEPT ![c].rec = r, ![c].stage = "backed"]
    /\ UNCHANGED <<status, home, edges, told, penalty, torn, reviews>>

\* _merge_into_record reads the payload ...
GetRecord(c) ==
    /\ At(c, "read")
    /\ op[c].verdict = "merged"
    /\ op' = [op EXCEPT ![c].seen = record[op[c].rec].merged,
                        ![c].stage = "seen"]
    /\ UNCHANGED <<status, home, record, edges, told, penalty, torn, reviews>>

\* ... and writes it back with the proposal added. When the reviewer asked for
\* another state the record is then moved there.
WriteMerge(c) ==
    /\ At(c, "seen")
    /\ record' = [record EXCEPT
                    ![op[c].rec].merged = op[c].seen \cup {op[c].prop}]
    /\ Advance(c, "backed")
    /\ UNCHANGED <<status, home, edges, told, penalty, torn, reviews>>

\* The state asked for is refused: create_record raises before it has written
\* anything, transition_record after the merge was written.
RefuseState(c) ==
    /\ MayRefuse
    /\ \/ At(c, "read") /\ op[c].verdict = "accepted"
       \/ At(c, "backed") /\ op[c].verdict = "merged"
    /\ Done(c)
    /\ torn' = IF At(c, "backed") THEN torn \cup {op[c].prop} ELSE torn
    /\ UNCHANGED <<status, home, record, edges, told, penalty, reviews>>

-----------------------------------------------------------------------------
(* The verdict, by id.                                                     *)

Decide(c) ==
    /\ At(c, "backed")
    /\ status' = [status EXCEPT ![op[c].prop] = op[c].verdict]
    /\ home' = [home EXCEPT ![op[c].prop] = op[c].rec]
    /\ Advance(c, "decided")
    /\ UNCHANGED <<record, edges, told, penalty, torn, reviews>>

Reject(c) ==
    /\ At(c, "read")
    /\ op[c].verdict = "rejected"
    /\ status' = [status EXCEPT ![op[c].prop] = "rejected"]
    /\ Advance(c, "tell")
    /\ UNCHANGED <<home, record, edges, told, penalty, torn, reviews>>

\* Mutant: only a new record is linked to its source.
EdgesOfNewRecords(o) ==
    IF o.verdict = "accepted" THEN edges \cup {<<o.prop, o.rec>>} ELSE edges

EdgesWith(o) == edges \cup {<<o.prop, o.rec>>}

\* create_edge
AddEdge(c) ==
    /\ At(c, "decided")
    /\ edges' = EdgesWith(op[c])
    /\ Advance(c, "tell")
    /\ UNCHANGED <<status, home, record, told, penalty, torn, reviews>>

\* Mutant: the event names the status that was checked.
StatusRead(o) == "pending"

StatusTold(o) == o.verdict

\* _append_event, the last step of a promotion.
Tell(c) ==
    /\ At(c, "tell")
    /\ told' = [told EXCEPT ![op[c].prop] = StatusTold(op[c])]
    /\ IF op[c].verdict = "rejected" THEN Advance(c, "learn") ELSE Done(c)
    /\ UNCHANGED <<status, home, record, edges, penalty, torn, reviews>>

\* A rejection counts against the quality of the source.
Learn(c) ==
    /\ At(c, "learn")
    /\ penalty' = [penalty EXCEPT ![op[c].prop] = @ + 1]
    /\ Done(c)
    /\ UNCHANGED <<status, home, record, edges, told, torn, reviews>>

\* A database call raises, the request is cancelled or the process dies.
Fail(c) ==
    /\ MayFail
    /\ op[c] # Idle
    /\ Done(c)
    /\ torn' = torn \cup {op[c].prop}
    /\ UNCHANGED <<status, home, record, edges, told, penalty, reviews>>

\* The web console edits the task behind a record and replaces the record's
\* payload by the task's (admin/routers/artifacts.py:499-510).
EditTask(r) ==
    /\ MayEditTasks
    /\ r \in Stored
    /\ record[r].origin = NoProposal
    /\ record[r].type = "action"
    /\ record' = [record EXCEPT ![r].merged = {}]
    /\ UNCHANGED <<status, home, edges, told, penalty, op, torn, reviews>>

Next ==
    \/ \E c \in Clients, p \in Proposals :
         \/ Propose(c, p)
         \/ \E v \in Verdicts : ReadForVerdict(c, p, v)
         \/ \E r \in Records : ReadForMerge(c, p, r)
    \/ \E c \in Clients :
         \/ CreateRecord(c) \/ GetRecord(c) \/ WriteMerge(c) \/ RefuseState(c)
         \/ Decide(c) \/ Reject(c) \/ AddEdge(c) \/ Tell(c) \/ Learn(c)
         \/ Fail(c)
    \/ \E r \in Records : EditTask(r)

Spec == Init /\ [][Next]_vars

-----------------------------------------------------------------------------
Quiet(p) == \A c \in Clients : op[c] # Idle => op[c].prop # p

Promoted(p) == status[p] \in {"accepted", "merged"}

\* Whatever races and failures there are, an accepted proposal names the record
\* that was created from it, and no other proposal claims that record as its
\* own creation (extraction_proposal_service.py:331-367).
AcceptedBacked ==
    \A p, q \in Proposals :
        status[p] = "accepted" =>
            /\ record[home[p]].origin = p
            /\ status[q] = "accepted" /\ home[q] = home[p] => p = q

\* Between reviews no canonical record carries a proposal that was not promoted,
\* and none but the one it names carries one that was, unless a review of that
\* very proposal was cut off or refused half way: then the record may carry it
\* already (extraction_proposal_service.py:550-567).
PromotedOnce ==
    \A p \in Proposals \ torn :
        Quiet(p) => Carriers(p) \subseteq IF Promoted(p) THEN {home[p]} ELSE {}

\* Between reviews the latest event of a proposal names its status, and its
\* source has been charged once if it was rejected and never otherwise
\* (extraction_proposal_service.py:433-470).
VerdictTold ==
    \A p \in Proposals \ torn :
        Quiet(p) => /\ told[p] = status[p]
                    /\ penalty[p] = IF status[p] = "rejected" THEN 1 ELSE 0

\* Review "writes the canonical record and provenance edge"
\* (docs/internal/review_queue_architecture.md:139): once nobody works on a
\* promoted proposal, its source is linked to the record it names.
Traced ==
    \A p \in Proposals \ torn :
        Quiet(p) /\ Promoted(p) => <<p, home[p]>> \in edges

Review == INSTANCE ProposalReview WITH verdict <- status, promoted <- home

\* The service implements the review: one verdict, once, and a record of its
\* own for an accepted proposal.
ReviewHonoured == Review!ReviewSpec

\* "Only pending extraction proposals can be accepted"
\* (extraction_proposal_service.py:323) or rejected (418): a verdict is never
\* written over another.
DecidedOnce ==
    [][\A p \in Proposals :
         status[p] \in Verdicts => status'[p] = status[p] /\ home'[p] = home[p]]_vars

\* Proposals can be merged "into canonical operational records"
\* (migrations/022_operational_extraction_proposals.sqlite.sql:3): a merged
\* proposal stays in the record it was merged into.
MergesKept ==
    \A p \in Proposals : status[p] = "merged" => p \in record[home[p]].merged
=============================================================================
