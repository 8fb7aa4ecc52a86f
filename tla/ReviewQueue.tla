---------------------------- MODULE ReviewQueue ----------------------------
(***************************************************************************)
(* ReviewQueueService (core/services/review_queue_service.py): one queue   *)
(* of everything that waits for a human.                                   *)
(*                                                                         *)
(* The items are derived: from pending proposals and from the conditions   *)
(* the continuity sweep shows. What reviewers do with an item (put it off, *)
(* escalate it, settle it) is kept beside it, in one overlay row per item. *)
(* An action reads the item, changes what the item is derived from if it   *)
(* settles it, reads the overlay twice and writes it: each of these is     *)
(* awaited, so another reviewer may come in between. The rows that record  *)
(* the action afterwards are read by nobody and left out.                  *)
(*                                                                         *)
(* Severities are their ranks (57-63). Time is kept as the days a deferral *)
(* has left. The scope filters, the review sessions (snapshots of the      *)
(* list) are left out too.                                                 *)
(***************************************************************************)
EXTENDS Naturals

CONSTANTS
    Items,
    Type,           \* item_type of each item
    Reviewers,
    DaysByType,     \* max_defer_days_by_item_type
    DaysBySeverity, \* max_defer_days_by_severity
    BumpAfter,      \* repeated_deferral_bump_after
    EscalateAfter,  \* repeated_deferral_escalate_after
    MaxActions,     \* bound: actions begun in a run
    MayFail         \* whether an action may be cut off (error, crash)

Low == 1
Medium == 2
High == 3
Critical == 4

Severities == Low..Critical

ProposalTypes == {"low_confidence", "pending_human_review"}

ItemTypes == ProposalTypes \cup {"overdue", "unowned", "unresolved", "blocker"}

\* The severities _build_proposal_items and _build_continuity_items give.
SeveritiesOf(t) ==
    CASE t = "low_confidence"       -> {Medium, High}
      [] t = "pending_human_review" -> {Low}
      [] t = "unowned"              -> {Medium}
      [] t = "unresolved"           -> {Medium, High}
      [] OTHER                      -> {High, Critical}

ASSUME QueueAssumption ==
    /\ Type \in [Items -> ItemTypes]
    /\ DaysByType \in [ItemTypes -> Nat]
    /\ DaysBySeverity \in [Severities -> Nat]
    /\ BumpAfter \in Nat
    /\ EscalateAfter \in Nat
    /\ BumpAfter <= EscalateAfter
    /\ 0 < EscalateAfter
    /\ MaxActions \in Nat
    /\ MayFail \in BOOLEAN

VARIABLES
    base,       \* severity an item is derived with, 0 when it is not derived
    overlay,    \* operational_review_queue_state
    op,         \* what each reviewer is in the middle of
    deferrals,  \* history: deferrals written for each item
    actions     \* actions that may still begin

vars == <<base, overlay, op, deferrals, actions>>

Acts == {"defer", "escalate", "resolve", "assign_owner", "decide"}

Routes == {"nowhere", "weekly_review", "named"}

\* left is the number of days deferred_until lies ahead, 0 when it is NULL or
\* past; override is 0 when severity_override is NULL; route stands for
\* escalation_destination_json and flagged for escalated_at.
Overlay == [left : Nat, count : Nat, override : Severities \cup {0},
            route : Routes, flagged : BOOLEAN, resolved : BOOLEAN,
            last : Acts \cup {"none"}]

Blank == [left |-> 0, count |-> 0, override |-> 0, route |-> "nowhere",
          flagged |-> FALSE, resolved |-> FALSE, last |-> "none"]

NoOverlay == [last |-> "absent"]

\* severity is that of the item as it was read; days, target and route are
\* what was asked for; row is the overlay as it was read first (Blank when
\* there was none), exists whether there was one when it was looked up again.
Op == [act : Acts, item : Items, stage : {"settle", "look", "check", "write"},
       severity : Severities, days : Nat, target : Severities \cup {0},
       route : Routes, row : Overlay, exists : BOOLEAN]

Idle == [stage |-> "idle"]

\* The shape of the items, the overlay rows and the actions.
TypeOK ==
    /\ base \in [Items -> Severities \cup {0}]
    /\ \A i \in Items : base[i] \in SeveritiesOf(Type[i]) \cup {0}
    /\ overlay \in [Items -> Overlay \cup {NoOverlay}]
    /\ op \in [Reviewers -> Op \cup {Idle}]
    /\ deferrals \in [Items -> Nat]
    /\ actions \in Nat

Init ==
    /\ base \in [Items -> Severities]
    /\ \A i \in Items : base[i] \in SeveritiesOf(Type[i])
    /\ overlay = [i \in Items |-> NoOverlay]
    /\ op = [r \in Reviewers |-> Idle]
    /\ deferrals = [i \in Items |-> 0]
    /\ actions = MaxActions

-----------------------------------------------------------------------------
(* The list.                                                               *)

RowOf(i) == IF overlay[i] = NoOverlay THEN Blank ELSE overlay[i]

\* _apply_overlay_state: an override counts when it is worse.
Severity(i) ==
    IF RowOf(i).override > base[i] THEN RowOf(i).override ELSE base[i]

Deferred(i) == RowOf(i).left > 0 /\ ~RowOf(i).resolved

\* Whether an item enters the weekly review although it is deferred.
MustSurface(i) == Severity(i) >= High

\* Mutant: a medium item stays as it is.
BumpStuck(s) == IF s = Low THEN Medium ELSE IF s = High THEN Critical ELSE s

Bump(s) == IF s = Low THEN Medium ELSE IF s = Medium THEN High ELSE Critical

Smaller(m, n) == IF m < n THEN m ELSE n

DeferLimit(i) == Smaller(DaysByType[Type[i]], DaysBySeverity[Severity(i)])

-----------------------------------------------------------------------------
(* An action reads its item from the list, and raises when it is gone.     *)

Begin(r, i, o) ==
    /\ op[r] = Idle
    /\ actions > 0
    /\ base[i] # 0
    /\ actions' = actions - 1
    /\ op' = [op EXCEPT ![r] = o]
    /\ UNCHANGED <<base, overlay, deferrals>>

Asked(act, i, stage, days, target, route) ==
    [act |-> act, item |-> i, stage |-> stage, severity |-> Severity(i),
     days |-> days, target |-> target, route |-> route,
     row |-> Blank, exists |-> FALSE]

BeginDefer(r, i) ==
    /\ base[i] # 0
    /\ \E days \in 1..DeferLimit(i) :
         Begin(r, i, Asked("defer", i, "look", days, 0, "nowhere"))

\* The reviewer names a severity and a destination, or leaves them out.
BeginEscalate(r, i) ==
    \E target \in Severities, route \in {"nowhere", "named"} :
        Begin(r, i, Asked("escalate", i, "look", 0, target, route))

SettlingActs(i) ==
    IF Type[i] \in ProposalTypes THEN {"decide"} ELSE {"resolve", "assign_owner"}

BeginSettle(r, i) ==
    \E act \in SettlingActs(i) :
        Begin(r, i, Asked(act, i, "settle", 0, 0, "nowhere"))

-----------------------------------------------------------------------------
(* What the item is derived from changes first: the proposal is decided,   *)
(* or the record is transitioned or given an owner and a sweep is run. The *)
(* item of a decided proposal is gone, and that of an unowned action with  *)
(* an owner; other conditions may well last. Two reviewers may both get to *)
(* decide a proposal (ExtractionProposals), or the later one is refused.   *)

At(r, stage) == op[r] # Idle /\ op[r].stage = stage

Advance(r, stage) == op' = [op EXCEPT ![r].stage = stage]

Done(r) == op' = [op EXCEPT ![r] = Idle]

Outcomes(i, act) ==
    IF act = "decide" \/ (act = "assign_owner" /\ Type[i] = "unowned")
    THEN {0} ELSE {0, base[i]}

Settle(r) ==
    /\ At(r, "settle")
    /\ \E s \in Outcomes(op[r].item, op[r].act) :
         base' = [base EXCEPT ![op[r].item] = s]
    /\ Advance(r, "look")
    /\ UNCHANGED <<overlay, deferrals, actions>>

\* The proposal was decided meanwhile, or the transition is refused.
Refuse(r) ==
    /\ At(r, "settle")
    /\ Done(r)
    /\ UNCHANGED <<base, overlay, deferrals, actions>>

-----------------------------------------------------------------------------
(* The overlay row.                                                        *)

Look(r) ==
    /\ At(r, "look")
    /\ op' = [op EXCEPT ![r].row = RowOf(op[r].item), ![r].stage = "check"]
    /\ UNCHANGED <<base, overlay, deferrals, actions>>

\* _upsert_overlay_state looks again before it decides on INSERT or UPDATE.
Check(r) ==
    /\ At(r, "check")
    /\ op' = [op EXCEPT ![r].exists = overlay[op[r].item] # NoOverlay,
                        ![r].stage = "write"]
    /\ UNCHANGED <<base, overlay, deferrals, actions>>

\* defer_count as a deferral writes it.
Count(o) == o.row.count + 1

\* Mutant: the threshold itself does not count.
RoutePastThreshold(o) ==
    IF Count(o) > EscalateAfter /\ o.row.route = "nowhere"
    THEN "weekly_review" ELSE o.row.route

\* The third deferral is routed to the weekly review.
RouteAfter(o) ==
    IF Count(o) >= EscalateAfter /\ o.row.route = "nowhere"
    THEN "weekly_review" ELSE o.row.route

\* All columns but resolved_at are written; the first deferral writes NULL as
\* the override.
Deferral(o, was) ==
    [left |-> o.days, count |-> Count(o),
     override |-> IF Count(o) >= BumpAfter THEN Bump(o.severity) ELSE 0,
     route |-> RouteAfter(o),
     flagged |-> IF RouteAfter(o) # "nowhere" THEN TRUE ELSE o.row.flagged,
     resolved |-> was.resolved, last |-> "defer"]

\* Mutant: an escalation counts as a deferral too.
EscalationCounted(o, was) ==
    [was EXCEPT !.override = o.target, !.route = o.route, !.flagged = TRUE,
                !.count = @ + 1, !.last = "escalate"]

Escalation(o, was) ==
    [was EXCEPT !.override = o.target, !.route = o.route, !.flagged = TRUE,
                !.last = "escalate"]

\* Resolving a record or assigning its owner ends a deferral as well.
Settlement(o, was) ==
    [was EXCEPT !.resolved = TRUE, !.last = o.act,
                !.left = IF o.act = "decide" THEN @ ELSE 0]

NewRow(o, was) ==
    CASE o.act = "defer"    -> Deferral(o, was)
      [] o.act = "escalate" -> Escalation(o, was)
      [] OTHER              -> Settlement(o, was)

Write(r) ==
    LET i == op[r].item IN
    /\ At(r, "write")
    /\ op[r].exists \/ overlay[i] = NoOverlay
    /\ overlay' = [overlay EXCEPT ![i] = NewRow(op[r], RowOf(i))]
    /\ deferrals' = [deferrals EXCEPT
                       ![i] = IF op[r].act = "defer" THEN @ + 1 ELSE @]
    /\ Done(r)
    /\ UNCHANGED <<base, actions>>

\* UNIQUE(review_item_id): somebody else inserted the row meanwhile.
Collide(r) ==
    /\ At(r, "write")
    /\ ~op[r].exists
    /\ overlay[op[r].item] # NoOverlay
    /\ Done(r)
    /\ UNCHANGED <<base, overlay, deferrals, actions>>

\* A database call raises (the sweep too), the request is cancelled or the
\* process dies.
Fail(r) ==
    /\ MayFail
    /\ op[r] # Idle
    /\ Done(r)
    /\ UNCHANGED <<base, overlay, deferrals, actions>>

-----------------------------------------------------------------------------
(* What happens to the items meanwhile.                                    *)

Before(n) == IF n = 0 THEN 0 ELSE n - 1

\* A day passes.
Tick ==
    /\ overlay' = [i \in Items |->
                     IF overlay[i] = NoOverlay THEN NoOverlay
                     ELSE [overlay[i] EXCEPT !.left = Before(@)]]
    /\ op' = [r \in Reviewers |->
                IF op[r] = Idle THEN Idle
                ELSE [op[r] EXCEPT !.days = Before(@)]]
    /\ UNCHANGED <<base, deferrals, actions>>

\* A sweep finds the condition of a record better, worse or gone, or back: a
\* row cleared by one sweep is activated again by another that overlaps it.
Rederive(i) ==
    /\ Type[i] \notin ProposalTypes
    /\ \E s \in SeveritiesOf(Type[i]) \cup {0} : base' = [base EXCEPT ![i] = s]
    /\ UNCHANGED <<overlay, op, deferrals, actions>>

Next ==
    \/ \E r \in Reviewers, i \in Items :
         BeginDefer(r, i) \/ BeginEscalate(r, i) \/ BeginSettle(r, i)
    \/ \E r \in Reviewers :
         \/ Settle(r) \/ Refuse(r)
         \/ Look(r) \/ Check(r) \/ Write(r) \/ Collide(r) \/ Fail(r)
    \/ Tick
    \/ \E i \in Items : Rederive(i)

Spec == Init /\ [][Next]_vars

-----------------------------------------------------------------------------
\* "escalation flag after the third defer"
\* (docs/internal/review_queue_architecture.md:126), although reviewers may
\* overwrite each other's deferrals and escalations with what they read.
RepeatedFlagged ==
    \A i \in Items : RowOf(i).count >= EscalateAfter => RowOf(i).flagged

\* An item that never was of low severity and has been put off three times
\* enters the weekly review, however reviewers race and whatever severity they
\* escalated it to before (review_queue_service.py:356-362, 1181-1184).
RepeatedSurface ==
    \A i \in Items :
        /\ base[i] # 0
        /\ Type[i] # "pending_human_review"
        /\ RowOf(i).last = "defer"
        /\ RowOf(i).count >= EscalateAfter
        => MustSurface(i)

\* However reviewers race, an item is never treated as put off more often than
\* it was (review_queue_service.py:353).
NeverOvercounted == \A i \in Items : RowOf(i).count <= deferrals[i]

\* "Stores durable review-control metadata for each queue item: deferral
\* timestamp and rationale" (docs/internal/review_queue_architecture.md:71-73):
\* an item that was put off last, until a day yet to come, is deferred.
DeferralHides ==
    \A i \in Items :
        RowOf(i).last = "defer" /\ RowOf(i).left > 0 => Deferred(i)
=============================================================================
