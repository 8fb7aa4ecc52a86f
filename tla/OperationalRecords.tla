------------------------- MODULE OperationalRecords -------------------------
(***************************************************************************)
(* The canonical record types of core/operational_records.py: their        *)
(* states, the edges of their state machines, and the validation of a new  *)
(* record. Everything here is constant; the services that act on records   *)
(* extend this module.                                                     *)
(***************************************************************************)
EXTENDS Integers

CONSTANTS
    Owners,     \* actors a record may be assigned to
    NoOwner     \* owner_id IS NULL

ASSUME OwnerAssumption == NoOwner \notin Owners

RecordTypes == {"action", "decision", "blocker", "source_link"}

ActionStates == {"open", "in_progress", "blocked", "done", "canceled",
                 "overdue", "stale", "unowned", "escalated"}

DecisionStates == {"proposed", "accepted", "rejected", "superseded",
                   "unresolved"}

BlockerStates == {"open", "mitigated", "resolved", "escalated"}

SourceLinkStates == {"active", "stale", "broken", "archived"}

RecordStates ==
    ActionStates \cup DecisionStates \cup BlockerStates \cup SourceLinkStates

StatesOf(type) ==
    CASE type = "action"      -> ActionStates
      [] type = "decision"    -> DecisionStates
      [] type = "blocker"     -> BlockerStates
      [] type = "source_link" -> SourceLinkStates
      [] OTHER                -> {}

ResolvedStates(type) ==
    CASE type = "action"   -> {"done", "canceled"}
      [] type = "decision" -> {"accepted", "rejected", "superseded"}
      [] type = "blocker"  -> {"resolved"}
      [] OTHER             -> {}

ArchivedStates(type) == IF type = "source_link" THEN {"archived"} ELSE {}

-----------------------------------------------------------------------------
\* The state machines, as the set of states that may follow a state.

ActionNext(s) ==
    CASE s = "open"        -> ActionStates \ {"open"}
      [] s = "in_progress" -> ActionStates \ {"in_progress", "unowned"}
      [] s = "blocked"     -> {"open", "in_progress", "canceled", "escalated"}
      [] s = "overdue"     -> ActionStates \ {"overdue", "open", "unowned"}
      [] s = "stale"       -> ActionStates \ {"stale", "unowned"}
      [] s = "unowned"     -> {"open", "in_progress", "blocked", "canceled",
                               "escalated"}
      [] s = "escalated"   -> {"open", "in_progress", "blocked", "done",
                               "canceled"}
      [] OTHER             -> {}

DecisionNext(s) ==
    CASE s = "proposed"   -> {"accepted", "rejected", "unresolved"}
      [] s = "accepted"   -> {"superseded"}
      [] s = "unresolved" -> {"accepted", "rejected"}
      [] OTHER            -> {}

BlockerNext(s) ==
    IF s \in BlockerStates \ {"resolved"} THEN BlockerStates \ {s} ELSE {}

SourceLinkNext(s) ==
    CASE s = "active" -> {"stale", "broken", "archived"}
      [] s = "stale"  -> {"active", "broken", "archived"}
      [] s = "broken" -> {"active", "archived"}
      [] OTHER        -> {}

NextStates(type, s) ==
    CASE type = "action"      -> ActionNext(s)
      [] type = "decision"    -> DecisionNext(s)
      [] type = "blocker"     -> BlockerNext(s)
      [] type = "source_link" -> SourceLinkNext(s)
      [] OTHER                -> {}

\* validate_transition: staying put is always allowed.
ValidTransition(type, s, target) ==
    /\ s \in StatesOf(type)
    /\ target \in StatesOf(type)
    /\ target = s \/ target \in NextStates(type, s)

\* validate_operational_record_input, as far as type, state and owner go.
ValidInput(type, s, owner) ==
    /\ type \in RecordTypes
    /\ s \in StatesOf(type)
    /\ type = "source_link" => owner = NoOwner
    /\ type = "action" => (owner = NoOwner <=> s = "unowned")
=============================================================================
