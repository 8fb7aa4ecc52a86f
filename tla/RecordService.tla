---------------------------- MODULE RecordService ----------------------------
(***************************************************************************)
(* OperationalRecordService (core/services/operational_record_service.py): *)
(* coroutines that create, update, transition and archive records.         *)
(*                                                                         *)
(* Every database call is awaited, so between two calls of one operation   *)
(* any other operation may run. An operation reads the record, validates   *)
(* against what it read, writes, reads the record again, appends an audit  *)
(* event and appends a record event; each of these is a step here. An      *)
(* UPDATE names the row by id alone: it does not check that the row still  *)
(* is what the operation read.                                             *)
(***************************************************************************)
EXTENDS OperationalRecords

CONSTANTS
    Clients,    \* coroutines of the console, the bot and the scheduled jobs
    Records,    \* row ids of operational_records
    Types,      \* bound: the record types a run creates
    MaxOps,     \* bound: operations started in a run
    MayFail     \* whether an operation may be cut off (error, crash)

ASSUME ServiceAssumption ==
    /\ Types \subseteq RecordTypes
    /\ MaxOps \in Nat
    /\ MayFail \in BOOLEAN

VARIABLES
    row,        \* operational_records
    op,         \* what each client is in the middle of
    trail,      \* new_state of each record's latest operational_record_event
    audited,    \* state in each record's latest audit after-snapshot
    torn,       \* history: records an operation on which was cut off
    opsLeft     \* operations that may still start

vars == <<row, op, trail, audited, torn, opsLeft>>

MaybeOwner == Owners \cup {NoOwner}

MaybeState == RecordStates \cup {"none"}

Row == [type : RecordTypes \cup {"none"}, state : MaybeState,
        owner : MaybeOwner, resolved : BOOLEAN, archived : BOOLEAN]

NoRow == [type |-> "none", state |-> "none", owner |-> NoOwner,
          resolved |-> FALSE, archived |-> FALSE]

Kinds == {"create", "update", "transition", "archive"}

Stages == {"read", "written", "reread", "audited"}

\* seen is the row an operation read first, after the state it read back,
\* target and owner what it was asked to write.
Op == [kind : Kinds, rec : Records, stage : Stages, seen : Row,
       after : MaybeState, target : MaybeState, owner : MaybeOwner]

Idle == [stage |-> "idle"]

\* The shape of the rows, the operations and the logs; a record is in a state
\* of its own type.
TypeOK ==
    /\ row \in [Records -> Row]
    /\ op \in [Clients -> Op \cup {Idle}]
    /\ \A r \in Records :
         row[r] # NoRow => row[r].state \in StatesOf(row[r].type)
    /\ trail \in [Records -> MaybeState]
    /\ audited \in [Records -> MaybeState]
    /\ torn \subseteq Records
    /\ opsLeft \in Nat

Init ==
    /\ row = [r \in Records |-> NoRow]
    /\ op = [c \in Clients |-> Idle]
    /\ trail = [r \in Records |-> "none"]
    /\ audited = [r \in Records |-> "none"]
    /\ torn = {}
    /\ opsLeft = MaxOps

Start(c, o) ==
    /\ opsLeft > 0
    /\ op[c] = Idle
    /\ op' = [op EXCEPT ![c] = o]
    /\ opsLeft' = opsLeft - 1

Advance(c, stage) == op' = [op EXCEPT ![c].stage = stage]

-----------------------------------------------------------------------------
(* create_record: validation and INSERT, before anything is awaited.       *)

Create(c, r) ==
    /\ row[r] = NoRow
    /\ \E t \in Types, s \in RecordStates, o \in MaybeOwner :
         /\ ValidInput(t, s, o)
         /\ row' = [row EXCEPT ![r] =
                      [type |-> t, state |-> s, owner |-> o,
                       resolved |-> s \in ResolvedStates(t),
                       archived |-> s \in ArchivedStates(t)]]
         /\ Start(c, [kind |-> "create", rec |-> r, stage |-> "written",
                      seen |-> NoRow, after |-> "none",
                      target |-> s, owner |-> o])
    /\ UNCHANGED <<trail, audited, torn>>

-----------------------------------------------------------------------------
(* The other operations start with get_record(); an unknown record or a    *)
(* transition the state machine refuses raises, and nothing has happened.  *)

Reading(r, k, s, o) ==
    [kind |-> k, rec |-> r, stage |-> "read", seen |-> row[r],
     after |-> "none", target |-> s, owner |-> o]

ReadForUpdate(c, r) ==
    /\ row[r] # NoRow
    /\ \E o \in MaybeOwner : Start(c, Reading(r, "update", "none", o))
    /\ UNCHANGED <<row, trail, audited, torn>>

ReadForTransition(c, r) ==
    /\ row[r] # NoRow
    /\ \E s \in RecordStates :
         /\ ValidTransition(row[r].type, row[r].state, s)
         /\ Start(c, Reading(r, "transition", s, NoOwner))
    /\ UNCHANGED <<row, trail, audited, torn>>

ReadForArchive(c, r) ==
    /\ row[r] # NoRow
    /\ Start(c, Reading(r, "archive", "none", NoOwner))
    /\ UNCHANGED <<row, trail, audited, torn>>

-----------------------------------------------------------------------------
(* The UPDATE, by id.                                                      *)

\* Mutant: entering a state that carries the timestamp does not set it.
StampNeverSet(was, states, from, to) ==
    IF to \in states THEN was ELSE IF from \in states THEN FALSE ELSE was

\* Mutant: the timestamp follows the target state alone.
StampOfTarget(was, states, from, to) == to \in states

\* A timestamp after a transition: set on entering the states that carry it,
\* cleared on leaving them, otherwise as it was read.
Stamp(was, states, from, to) ==
    IF to \in states THEN TRUE ELSE IF from \in states THEN FALSE ELSE was

TransitionedRow(r, o) ==
    LET t == o.seen.type IN
    [row[r] EXCEPT
       !.state = o.target,
       !.resolved = Stamp(o.seen.resolved, ResolvedStates(t),
                          o.seen.state, o.target),
       !.archived = Stamp(o.seen.archived, ArchivedStates(t),
                          o.seen.state, o.target)]

Write(c, k, newRow) ==
    /\ op[c].stage = "read"
    /\ op[c].kind = k
    /\ row' = [row EXCEPT ![op[c].rec] = newRow]
    /\ Advance(c, "written")
    /\ UNCHANGED <<trail, audited, torn, opsLeft>>

WriteUpdate(c) ==
    Write(c, "update", [row[op[c].rec] EXCEPT !.owner = op[c].owner])

WriteTransition(c) ==
    Write(c, "transition", TransitionedRow(op[c].rec, op[c]))

WriteArchive(c) ==
    Write(c, "archive", [row[op[c].rec] EXCEPT !.archived = TRUE])

-----------------------------------------------------------------------------
(* The row is read back, then the two logs are appended to.                *)

Reread(c) ==
    /\ op[c].stage = "written"
    /\ op' = [op EXCEPT ![c].after = row[op[c].rec].state, ![c].stage = "reread"]
    /\ UNCHANGED <<row, trail, audited, torn, opsLeft>>

Audit(c) ==
    /\ op[c].stage = "reread"
    /\ audited' = [audited EXCEPT ![op[c].rec] = op[c].after]
    /\ Advance(c, "audited")
    /\ UNCHANGED <<row, trail, torn, opsLeft>>

\* Mutant: the event takes the previous state from the row read back.
PreviousStateReadBack(o) == o.after

PreviousState(o) == o.seen.state

\* Mutant: the event takes the new state from the row read first.
NewStateReadFirst(o) == IF o.kind = "create" THEN o.target ELSE o.seen.state

\* previous_state and new_state of the event an operation appends.
NewState(o) ==
    CASE o.kind \in {"create", "transition"} -> o.target
      [] o.kind = "update"                   -> o.after
      [] OTHER                               -> o.seen.state

AppendEvent(c) ==
    /\ op[c].stage = "audited"
    /\ trail' = [trail EXCEPT ![op[c].rec] = NewState(op[c])]
    /\ op' = [op EXCEPT ![c] = Idle]
    /\ UNCHANGED <<row, audited, torn, opsLeft>>

\* A database call raises, the request is cancelled or the process dies:
\* what was written stays, the rest of the operation never runs.
Fail(c) ==
    /\ MayFail
    /\ op[c] # Idle
    /\ op' = [op EXCEPT ![c] = Idle]
    /\ torn' = torn \cup {op[c].rec}
    /\ UNCHANGED <<row, trail, audited, opsLeft>>

Next ==
    \E c \in Clients :
        \/ \E r \in Records : \/ Create(c, r)
                              \/ ReadForUpdate(c, r)
                              \/ ReadForTransition(c, r)
                              \/ ReadForArchive(c, r)
        \/ WriteUpdate(c)
        \/ WriteTransition(c)
        \/ WriteArchive(c)
        \/ Reread(c)
        \/ Audit(c)
        \/ AppendEvent(c)
        \/ Fail(c)

Spec == Init /\ [][Next]_vars

-----------------------------------------------------------------------------
\* A resolved record carries resolved_at and no other record does, and a
\* record in an archived state carries archived_at, although every transition
\* writes back timestamps it read earlier (operational_record_service.py:
\* 429-448).
StampsAgree ==
    \A r \in Records :
        /\ row[r].resolved <=> row[r].state \in ResolvedStates(row[r].type)
        /\ row[r].state \in ArchivedStates(row[r].type) => row[r].archived

Quiet(r) == \A c \in Clients : op[c] # Idle => op[c].rec # r

\* When nobody is working on a record, its two logs end with its state: no
\* mutation is missing from them ("restart-safe mutation attribution",
\* docs/internal/canonical_operational_schema.md:113). One cut off in between
\* breaks this for its own record alone.
QuietLogs ==
    \A r \in Records \ torn :
        Quiet(r) => trail[r] = row[r].state /\ audited[r] = row[r].state

\* The events of a record form a chain: each starts in the state the one
\* before it ended in (operational_record_service.py:464-473).
EventChain ==
    [][\A c \in Clients :
         AppendEvent(c) /\ op[c].rec \notin torn
            => PreviousState(op[c]) = trail[op[c].rec]]_vars

\* The rows behave as the abstract lifecycle of records.
Lifecycle ==
    INSTANCE RecordLifecycle
    WITH kind <- [r \in Records |-> row[r].type],
         status <- [r \in Records |-> row[r].state],
         shelved <- [r \in Records |-> row[r].archived]

\* The service implements the lifecycle: valid creation, one edge of the
\* state machine at a time, archived for good.
LifecycleHonoured == Lifecycle!LifecycleSpec

\* "enforce per-type transition rules" (canonical_operational_schema.md:141):
\* a record's state only ever changes along an edge of its state machine.
LawfulTransitions ==
    [][\A r \in Records :
         row[r] # NoRow =>
           ValidTransition(row[r].type, row[r].state, row'[r].state)]_vars
=============================================================================
