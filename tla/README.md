# Verification of Magic Key Assistant

Magic Key Assistant is a local-first operations assistant: a Discord bot, a
FastAPI console and a set of scheduled jobs in one asyncio process, over one
SQLite database. It extracts actions, decisions and blockers from documents and
meetings, has a person confirm the uncertain ones, keeps them as canonical
operational records, and keeps asking about those that go overdue, stale or
unowned. This directory holds TLA+ models of that core, TLC runs over small
instances and TLAPS proofs about every instance.

Paths below are relative to `src/LeisureLLM/` unless they start with `docs/`.

- [1. The system](#1-the-system): components, state, interactions, hard behaviours
- [2. How the code is modelled](#2-how-the-code-is-modelled)
- [3. The modules](#3-the-modules), one section each, with runs, bounds and proofs
- [4. What disagrees with the docs](#4-what-disagrees-with-the-docs)
- [5. What is proved and what is only checked](#5-what-is-proved-and-what-is-only-checked)
- [6. What is not modelled, and the plan](#6-what-is-not-modelled-and-the-plan)
- [7. Running it](#7-running-it)

## 1. The system

### 1.1 The core loop

```
 documents, meetings, chat
        |  extraction                        people (console, Discord)
        v                                       |
 extraction proposals --- accept / merge --> operational records <--- tasks
        |  reject -> chunk quality              |        ^
        |                                       v        | transition, assign
        |                                continuity sweep|
        |                                       |        |
        +-----------> review queue <------------+        |
                      (derived items + overlay) ---------+
```

| Component | Code | State it keeps | Operations |
|---|---|---|---|
| Operational records | `core/operational_records.py`, `core/services/operational_record_service.py` | one row per record (type, state, owner, `resolved_at`, `archived_at`), its event log, audit log | create, update, transition, archive |
| Extraction proposals | `core/services/extraction_proposal_service.py` | proposal rows (status, `canonical_record_id`), events, provenance edges, chunk penalties | create, accept, merge, reject |
| Continuity sweep | `core/services/operational_continuity_service.py`, `core/operational_continuity_runner.py` | one row per record and condition (active, cleared), state events | `run_sweep`, started every quarter of an hour and after some review actions |
| Review queue | `core/services/review_queue_service.py` | overlay row per item (deferral, count, override, escalation), actions, sessions | list, defer, escalate, resolve, assign owner, decide, sessions |
| Circuit breaker | `services/circuit_breaker.py`, used by `services/model_router.py` | state, counts, time of the last failure, in memory | `allow_request`, `record_success`, `record_failure`, `reset`, `status` |
| Inbox threads | `admin/routers/inbox.py`, `core/inbox_recovery_runner.py`, `core/services/work_packet_service.py` | threads with messages, status and heartbeat, a work packet each; background tasks and streams in memory | ask, follow up, save, requeue, recover, read, archive, rate |
| Knowledge gaps and interviews | `cogs/KnowledgeGapTracker.py`, `admin/routers/inbox.py`, `admin/routers/knowledge.py` | gap rows (status, curation, depth); Discord views and cards in memory, inbox interviews in rows | log, choose, take, answer, skip, give back, curate, tidy |
| Tasks and their records | `admin/routers/artifacts.py`, `cogs/ActionItems.py` | `action_items` rows and, linked to each, an operational record | create, edit, complete, cancel, assign, complete by command with a successor, stale sweep |
| Job runs and scheduled jobs | `database.py`, `core/job_registry.py`, `cogs/AutonomousOps.py` and its mixins, the other cogs | one row per job, key and run; what a job has marked as posted | `record_job_run`, `complete_job_run`, the loops |
| Shared connection | `database.py` | one aiosqlite connection, one implicit transaction | execute, commit, `transaction()` |
| Response cache | `services/response_cache.py` | LRU of answers with a time to live, keyed by question and retrieved context | get, put, invalidate |
| Migrations | `migrations/runner.py` | applied versions | run pending |

`PROJECT.json` lists these and every other part of the repository (chat and
retrieval, tools, learning, Discord cogs, backup, configuration, launcher ...),
each with its status and, where it is not modelled, the reason.

### 1.2 How they interact

* Everything is a coroutine of one event loop. Code between two `await`s is
  atomic; every database call is an `await`, so between any two database calls
  of one operation another operation may run.
* They meet in the database. Services call each other directly: accepting a
  proposal creates a record through the record service; resolving a review item
  transitions a record and then runs a whole sweep; the queue derives its items
  from pending proposals and active continuity rows each time it is listed.
* Nothing holds a lock across operations, and an UPDATE names its row by id: it
  does not test that the row still is what the operation read.
* Every service commits after each statement, so an operation is a chain of
  commits, and whatever stops it (an exception, a cancelled request, the end of
  the process) leaves a prefix of the chain behind.
* The breaker is shared by all callers of a backend, which await their answers
  between asking for permission and recording the outcome.

### 1.3 What is hard

1. **Check, then act, with an await between**: records, proposals and overlay
   rows are validated as read and written later (two reviewers, a reviewer and a
   job, one who clicks twice).
2. **Chains of commits**: a row and its logs, a record and a verdict, a row and
   its event are separate commits; a restart may come between any two.
3. **Overlapping sweeps**, each with its own snapshot of the records and rows,
   while people edit the records.
4. **Uniqueness constraints as the only guard**: two actors insert the same row;
   one of them raises in the middle of its chain.
5. **Life cycles that come around again**: a condition that returns, an item
   that was settled and is deferred again, a task set back to todo.
6. **Late answers**: a model call asked in one state of the breaker, or of an
   inbox thread, is recorded in another.
7. **Work in memory, state in rows**: answers, interviews and jobs die with the
   process and leave rows that say they are at work; whoever recovers them must
   tell a dead worker from a slow one.
8. **Two tables for one thing**: a task and the record behind it are written by
   different people through different code.
9. **One connection for everybody**: a statement that is not committed yet is
   committed, or rolled back, by whoever does either next; a handler that fails
   between two statements rolls nothing back.
10. **A user who waits**: Discord wants its first answer within three seconds and
    only one of them; what a handler says and what it has stored part as soon as
    something on the way swallows an exception.

`PROJECT.json` lists such hazards at the line where each bites, with the
properties that watch it or the reason why none does yet.

### 1.4 What would make each component correct

* *Records*: a state changes along an edge of its type's state machine;
  timestamps agree with states; the logs end in the state and form a chain.
* *Proposals*: one verdict, once; an accepted proposal has a record of its own; a
  merged one stays in its record; provenance, event and penalty tell the verdict.
* *Sweep*: a sweep leaves active exactly what it found; a lasting condition is
  shown in the end; the events of a row tell its status.
* *Queue*: a deferral hides an item until its day; repeated deferral is counted,
  flagged and surfaces, whoever overtakes whom.
* *Breaker*: only consecutive failures trip it; once tripped it closes only on
  successes that follow a whole quiet cooldown; one probe; no count survives an
  episode.
* *Inbox*: nobody waits for ever, and every answer too many is accounted for by a
  silent worker or a broken save; the work packet tells what was last done with the
  thread.
* *Gaps*: a gap that was taken is with somebody or is given back; follow-ups end;
  what a person discarded stays out.
* *Tasks*: a success means that task and record agree; no record is left that no
  task leads to; one successor per completion of a recurring task.
* *Jobs*: one run per key, and a key is not blocked for good; marks and posts
  agree in the order the job keeps; what is due is taken up.
* *Handlers on the connection*: each user is answered once, in time and truly;
  what he asked for is stored as a whole or not at all; nothing is left open for
  others to commit, or while a model or Discord is waited for.
* *Migrations* (planned): each applied once, whole.

## 2. How the code is modelled

* **One step per database call.** An operation is a record in a variable `op`
  (or `sweep`, `call`) indexed by the coroutine, with a `stage` that says which
  call comes next and fields that hold what it has read so far. What an
  operation does before its first await and its first call are one step. A
  statement and the commit that follows it are one step too; what other
  coroutines could do to the shared transaction between these is left to
  `SharedConnection`, except in `KnowledgeGaps`, where a write that
  nobody commits is part of the story (`gap` and `disk`).
* **A stale read is a field.** `op[c].seen`, `op[r].row`, `sweep[s].listed` are
  what the code holds in local variables across awaits; writes are computed from
  them exactly as in the code.
* **Being cut off is an action.** `Fail` ends an operation at any stage and keeps
  what it wrote: it stands for an exception, a cancelled request and a crash with
  restart, which differ in nothing the database can tell. History variables
  (`torn`, `disturbed`, `streak`, `deferrals`) record what a property must know
  of the past and are read by no action.
* **Raising is an action as well**, when the code raises: `Collide` (a UNIQUE
  constraint), `Refuse`, `RefuseState`. An operation that is refused before it
  has written anything and changes nothing is a guard.
* **Data is abstracted to what the rules compare**: a date is the number of days
  by which it is past or ahead, a payload the set of proposals it names, a
  severity its rank, a timestamp whether it is set, an audit snapshot the state
  in it. Texts, titles, rationales and JSON layout are left out.
* **Bounds are constants** with a name that starts with `Max`, or sets (`Types`),
  and appear in guards only; flags that start with `May` switch a kind of
  disturbance on.

## 3. The modules

| Module | Stands for | Extended by |
|---|---|---|
| `OperationalRecords` | types, states and state machines of records; constant | `RecordLifecycle`, `RecordService` |
| `RecordLifecycle` | abstract: what a record may go through | instantiated by `RecordService` |
| `RecordService` | `OperationalRecordService` | `MCRecordService`, `RecordServiceProofs` |
| `ProposalReview` | abstract: one verdict, once | instantiated by `ExtractionProposals` |
| `ExtractionProposals` | `ExtractionProposalService` | `MCExtractionProposals`, `ExtractionProposalsProofs` |
| `ContinuitySweep` | `OperationalContinuityService.run_sweep` and its scheduler | `MCContinuitySweep`, `SweepAndHandlersProofs` |
| `ReviewQueue` | `ReviewQueueService.apply_action` and the overlay | `MCReviewQueue`, `ReviewQueueProofs` |
| `CircuitBreaker` | `CircuitBreaker` and its callers in `ModelRouter` | `MCCircuitBreaker`, `JobsAndBreakerProofs` |
| `InboxThreads` | question threads, their background answers, recovery and work packets | `MCInboxThreads`, `InboxThreadsProofs` |
| `KnowledgeGaps` | gaps and the interviews that ask them, in Discord and in the inbox | `MCKnowledgeGaps`, `KnowledgeGapsProofs` |
| `ScheduledJobs` | the jobs of the registry and their rows in `job_runs` | `MCScheduledJobs`, `JobsAndBreakerProofs` |
| `TaskBoard` | tasks, the record behind each, and everybody who writes either; extends `OperationalRecords` | `MCTaskBoard`, `TaskBoardProofs` |
| `HandlerScripts` | how handlers are put together (branch, loop, try, transaction, call), and what all of them share; constant | the modules of scripts |
| `TaskHandlers`, `GapHandlers`, `ChatHandlers`, `MeetingHandlers`, `JobHandlers` | commands, buttons, modals, listeners and jobs of the Discord cogs; constant | each other and `Handlers` |
| `ToolHandlers`, `StreamHandlers`, `WebHandlers` | tools of the models, the streamed chat, the other requests of the console; constant | each other and `Handlers` |
| `Handlers` | all of them by name, and those known to go wrong; constant | `SharedConnection`, `HandlerRules` |
| `SharedConnection` | any of these handlers, step by step, on the one connection | `MCSharedConnection`, `SweepAndHandlersProofs` |
| `HandlerRules` | rules that a script can be read for, and which handlers keep them; constant | `MCCircuitBreaker` (for TLC to evaluate), `SweepAndHandlersProofs` |

The `map` of `PROJECT.json` gives the lines behind each definition. Definitions
that a comment calls *Mutant* are altered copies of the definition after them:
each property of a passing run has one under which TLC finds it violated.

### 3.1 RecordService

*State.* `row` is `operational_records`; `trail` and `audited` are the state
named last in the record's event log and audit log; `op` is what each client is
in the middle of.

| Code | Actions |
|---|---|
| `create_record` (validate, INSERT) | `Create` |
| `update_record` | `ReadForUpdate`, `WriteUpdate` |
| `transition_record` | `ReadForTransition` (validated as read), `WriteTransition` (state and both timestamps computed from the row as read) |
| `archive_record` | `ReadForArchive`, `WriteArchive` |
| the rest of all four: read back, audit event, record event | `Reread`, `Audit`, `AppendEvent` |

*Left out.* `ensure_actor` (owners are known actors), listing and searching,
titles, summaries and payloads, which no rule here reads.

*Properties.* `StampsAgree`: `resolved_at` and `archived_at` agree with the state
although transitions write back stale ones. `QuietLogs`: when nobody works on a
record both logs end in its state, except where an operation on that very record
was cut off. `EventChain`: each event starts where the last one ended.
`LifecycleHonoured`: refinement of `RecordLifecycle` (valid creation, one edge at
a time, archived for good). `LawfulTransitions`: the state machine alone, with
any number of clients.

*Runs.* `records` (one client, all four types, one record, one owner, four
operations, `Fail` allowed): every property holds. One client at a time is what
the code guarantees only when requests do not overlap, and the two refinements
and the logs need it; four operations are enough to create, move, archive and
move again, in and out of resolved and archived states, and a record's rows do
not depend on other records. `LawfulTransitions` has no run: it is false with two
clients, see section 4.

*Proved* for any clients, records, owners and number of operations, with
failures: `TypesHold` and `StampsAlwaysAgree`; and, as long as no two operations on
one record overlap (`OneAtATime`, for any number of clients),
`SerialHonoursLifecycle`, `SerialTransitionsLawful`, `SerialLogsTell` and
`SerialEventsChain`. The timestamps are not inductive alone: a write
takes them from what was read, not from the row. `RecordInv` adds `ReadsSound`:
an operation about to write has read a row that itself satisfied the agreement,
asked for a lawful edge, and the row still has the type it read, because no
operation changes a type. For the refinement `OneAtATime` makes
"what was read is what is there" (`ReadFresh`) inductive too, and the facts about
the state machines are lemmas (`ArchivedIsFinal`: no edge leaves an archived
state), so that the proof never enumerates them. For the logs `LogsInv` says of an operation
at each stage which of its two logs already has the row's state and which still
ends in the state it read (`Logged`).

### 3.2 ExtractionProposals

*State.* `status` and `home` are the proposal's `status` and
`canonical_record_id`; `record` keeps type, origin and merged proposals of each
record; `edges`, `told` and `penalty` are the provenance edges, the latest event
and the unhelpful retrievals charged to the source's chunk.

| Code | Actions |
|---|---|
| `create_proposal` | `Propose`, `Tell` |
| `accept_proposal`, new record | `ReadForVerdict`, `CreateRecord`, `Decide`, `AddEdge`, `Tell` |
| `accept_proposal`, merge | `ReadForMerge`, `GetRecord`, `WriteMerge`, `Decide`, `AddEdge`, `Tell` |
| `reject_proposal` | `ReadForVerdict`, `Reject`, `Tell`, `Learn` |
| a state the record cannot take | `RefuseState`: nothing is written yet for a new record, the merge is written already |
| the console edits the task behind a record (`admin/routers/artifacts.py:499-510`) | `EditTask`: replaces the payload |

*Properties.* `AcceptedBacked`: an accepted proposal names the record created
from it and shares it with no other. `PromotedOnce`: no record carries a proposal
that was not promoted, and only the named one carries one that was. `VerdictTold`:
event and penalty tell the verdict. `Traced`: source and record are linked.
`ReviewHonoured`: refinement of `ProposalReview`. The three that speak of several
commits except proposals whose own review was cut off or refused half way
(`torn`) and those somebody works on (`Quiet`); a retry by another reviewer is
still covered for all other proposals. `DecidedOnce` and `MergesKept` are what
the code's error messages and a migration promise with any number of reviewers.

*Runs.* `proposals` (one client, two proposals of different types, three records
of which any may exist before, three reviews; cut-offs, refusals and task edits):
all hold. Two proposals and three records allow a merge into a record made from a
proposal, into an older one, and a wrong type; three reviews allow a review cut
off, its retry and another proposal's. `DecidedOnce` and `MergesKept` have no run:
both are false, see section 4.

*Proved* for any proposals, types, records and clients, with failures, refusals
and edits: `ProposalTypesHold` (a promoted proposal names a record of its own
type), `AcceptedAlwaysBacked` and `AlwaysTraced`, even while reviewers overwrite each
other's verdicts; as long as no two reviews of one proposal overlap (`OneAtATime`, for any
number of clients, who may promote into the same record), `SerialPromotedOnce` and
`SerialVerdictTold`; and, if nobody merges into a record between its creation and the
verdict that names it either (`NoMergeAhead`), `SerialHonoursReview`. Without the second
premise the refinement is false: TLC, with two reviewers and both proposals actions,
lets one merge into the record the other has created for his proposal, which is
then accepted with a record that is somebody's already. The invariant `IInv`
says what each stage of an operation knows: the record it made has its proposal
as origin, the record it merges into has the right type, rows keep type and
origin. The refinement adds that a client in the middle of a review still sees
its proposal pending (`Turns`) and that what a proposal names exists
(`HomesStored`): so a fresh record is nobody's. `PromotedOnce` and `VerdictTold` rest on
what each stage has already written of verdict, event and penalty (`InStep`), and
what all stages together leave (`Over`); `Traced` on the review that decided last,
which either has linked its record or is about to (`LinkedOrComing`).

Of two promises the code breaks, the proofs name what has to be kept apart for it to
keep them. No verdict is written over another as long as no two reviews of one
proposal overlap (`SerialDecidedOnce`): a review that has not decided finds its
proposal pending (`StillPending`). A merge lasts as long as nobody reads a record for a
merge while another merge into it has been read and not written (`OneMergeAtATime`),
whatever else overlaps or breaks off, in every record but those of tasks that people
may edit (`SerialMergesLast`; in all of them, where nobody edits, `SerialMergesKept`):
what a merge is about to write holds all there is in the record (`MergesSound`).

### 3.3 ContinuitySweep

*State.* `fact` is what the rules look at in each record: whether it counts, has
an owner, days late, days stale. `status` and `told` are the condition's row and
its latest state event; `sweep` is where each sweeper is, with what it found and
listed.

| Code | Actions |
|---|---|
| candidate query and `_evaluate_record` | `Begin`; `Rule`, `Holds` are the rules, `Before` their order |
| the active rows | `ListActive` |
| `_upsert_state`, row listed | `Refresh`, `AppendStateEvent` when something changed |
| `_upsert_state`, row not listed | `Insert`, `AppendStateEvent`; `Collide` when UNIQUE refuses it |
| clearing of what was not seen | `Clear`, `AppendStateEvent` |
| the end | `Finish`; `Fail` anywhere |
| people and time | `Edit`, `Age` |

*Properties.* `SweepExact`: a sweep during whose writing no other wrote leaves
active exactly what it found, whatever was in the table and whatever earlier,
overlapping or broken sweeps left. `EventsTellStatus`: the latest event of a row
tells its status. `SurfacesAtFirst`: a condition that holds for good is shown for
good as long as no row was ever cleared. `ConditionsSurface`: the same without
that premise, as the docs have it.

*Fairness.* Weak fairness of `SweepStep(s)` for each sweeper, nothing else. The
runner (`core/operational_continuity_runner.py:76-96`) starts a sweep every
quarter of an hour, also after one that raised, and a started sweep is a
coroutine the event loop keeps running. `Age` and `Edit` have none: nobody is
bound to edit, and a condition "holds for good" when they stop undoing it.
`Begin` reads the records in one step and a later `Begin` is always enabled, so
weak fairness is enough.

*Runs.* `sweep` (two sweepers, a blocker, cut-offs): `SweepExact`. A
blocker has two conditions, stale and escalated, in an order; two sweepers are
enough for each to clear or insert what the other works from. Thresholds of two
days and at most two days counted let each rule be off, on and past its
threshold. `sweep_live` (one sweeper, an action, with its four conditions):
`EventsTellStatus`, which two sweepers that overtake each other between row and
event break, and a cut-off there too, so the run has neither; and
`SurfacesAtFirst`, which likewise needs a sweep that is not cut off for good. `sweep_recurring` violates `ConditionsSurface`.

*Proved*: `UndisturbedSweepIsExact`, for any records, rules, thresholds and number
of overlapping sweeps. `SweepInv` says of each undisturbed sweeper in its writing
that the active rows are those it has activated so far, those listed that it
found again, and those it has still to clear (`OnCourse`): each of its own
writes keeps the equation, and any other's write marks it disturbed. And
`SerialEventsTellStatus`, for any conditions and number of sweeps that write one at a
time (`OneWriter`) and are not cut off (`MayFail` off): what a sweep has written and
not told yet is one row, and the event in hand is the one for the row's status. And
`SweepsSurface`: `SurfacesAtFirst`, if time and again some sweep comes to its end
(`SweepsEnd`; `SurfacesAtFirst` speaks of tables whose rows were never cleared). Once a
condition holds for good, a sweep that begins finds it, lists its row or inserts it,
and has activated it by its end (`OnTo`); two ends of one sweeper suffice, since the
first may be that of a sweep that began before. No row is cleared, so what is shown
stays shown (`ShownStays`).

### 3.4 ReviewQueue

*State.* `base` is the severity an item is derived with, 0 when it is not
derived; `overlay` the row of `operational_review_queue_state`; `op` the action
each reviewer is in, with the item's severity and the overlay as it read them.

| Code | Actions |
|---|---|
| `apply_action`: `get_item`, validation of the days asked for | `BeginDefer` (within `DeferLimit`), `BeginEscalate`, `BeginSettle` |
| accept, merge, reject of a proposal; resolve; assign owner (with the sweep) | `Settle`, `Refuse` |
| the overlay is read for its old values | `Look` |
| `_upsert_overlay_state` looks again, then INSERT or UPDATE | `Check`, `Write`, `Collide` |
| `_apply_overlay_state` | `Severity`, `Deferred`, `MustSurface` |
| days, later sweeps | `Tick`, `Rederive` |

`Rederive` is a sweep, as seen from the queue: an item is found or not, at any
severity. One that is gone may come back, although a later sweep dies on its cleared
row: where sweeps overlap, the UPDATE of one reactivates what the other cleared.
`Settle` does not use the proposal or record modules
but their outcome as seen from the queue; composing them is planned.

*Left out.* Scope filters and paging, the action log (nobody reads it), bulk
actions (a loop over `apply_action`) and review sessions (stored snapshots).

*Properties.* `RepeatedFlagged`: the third deferral leaves the escalation flag,
`RepeatedSurface`: from then on the item enters the weekly review, unless it was
of low severity, `NeverOvercounted`: no deferral is counted that was not written.
All three with reviewers who overwrite each other with what they read. A deferral
can be lost that way (the count may be short, never long). `DeferralHides`: an
item put off last, until a day to come, is deferred.

*Runs.* `queue` (two reviewers, one decision item, four actions, cut-offs): four
actions let a third deferral race an escalation or a settlement; one item
suffices since an overlay row depends on its own item only. Days are scaled down
in the order of the policy's. `DeferralHides` has no run: it is false, see section 4.

*Proved* for any items, reviewers, policy (with `BumpAfter <= EscalateAfter`, as
shipped: 2 and 3) and number of actions: `QueueTypes`, `RepeatedAlwaysFlagged`,
`RepeatedAlwaysSurface`, `NeverCountedTwice`. None is inductive alone, since a
write copies what was read long before. `QueueInv` is about both ends: every
stored row is sound (counted to the threshold implies flagged; count at most the
deferrals; deferred past the threshold implies an override of at least high,
unless the type is the low one) and every action in flight carries a sound row
whose count is not ahead of the deferrals and a severity of at least medium
unless the type is the low one. The last part is what makes the bump reach high.
`DeferredProposalsHide` says whom the falsehood of `DeferralHides` cannot hit: a proposal
on the list is hidden by its deferral, however reviewers race, since what is decided
never comes back to the list (`ListedUnsettled`). Only items of the sweep can meet the
`resolved_at` of an earlier settlement.

### 3.5 CircuitBreaker

*State.* `state`, `failureCount`, `successCount` as in the code;
`sinceFailure`, the time since the last failure up to the cooldown; `call`, what
each caller waits for. `streak`, `quiet` and `wins` are history: failures since the
last success, ticks since any call failed, and successes recorded after a whole
cooldown without a failure.

| Code | Actions |
|---|---|
| `state` property (moves open to half open) | `ReadState`, in `AllowRequest` and `Status` |
| `allow_request`, `record_success`, `record_failure`, `reset`, `status` | `AllowRequest`, `RecordSuccess`, `RecordFailure`, `Reset`, `Status` |
| a caller cancelled while it waits | `Cancel`: neither outcome is recorded |
| the clock | `Tick` |

*Properties.* `CountsBelowThresholds`: a closed breaker is short of tripping, a
half-open one short of closing, whatever late answers were counted on the way.
`TripsOnConsecutiveFailures`: a breaker trips on failures that no success
separates, in the order they are recorded. `RecoveryIsEarned`: a breaker that probes
closes by itself only on `SuccessThreshold` successes, each recorded after a whole
cooldown in which no call failed. A call let through before the trip may fail
while the breaker is open or probes; it then restarts both the wait and the
count. `SingleProbe` is what the module's docstring states.

*Runs.* `breaker` (three callers, thresholds 3 and 2, cooldown 2, at most seven
failures counted): the first three. Three callers allow an answer from
before, in and after a change of state at once; seven failures are two full trips
with a late failure that restarts the cooldown. `SingleProbe` is false, see section 4.

*Proved* for any callers, thresholds and cooldown: `CountsStayBelowThresholds`,
`OnlyConsecutiveFailuresTrip`, `OnlyEarnedRecovery`. `BreakerInv` adds that what a
closed breaker has counted never exceeds the streak of failures recorded since the
last success; while it is open or half open late successes may break that, and the
count is reset before it closes again. And `ClockIsQuiet`: the breaker's clock is the
time since anybody's call failed, in every state, and a half-open breaker has seen a
whole cooldown and counts only what came after it.

### 3.6 InboxThreads

*State.* `status` and `packet` are `inbox_threads.status` and the status of the
thread's work packet; `age` the time since `updated_at`; `run` the background
tasks and browser streams that answer; `op` what a handler still has to do after
it has written the thread; `listed` the stale threads the recovery has yet to
requeue. `owed` is history: the answers that a thread may still get, those asked for
and those accounted for by a failure, less those stored. `hurried` are the threads
that somebody touched while they were processing, or that the recovery took from a
worker that was alive.

| Code | Actions |
|---|---|
| `api_create_thread`, `api_reply`, `api_create_completed_thread`, `api_reply_completed`, `api_patch_thread`, `api_feedback` | `CreateThread`, `Reply`, `CreateCompleted`, `ReplyCompleted`, `PatchThread` and `Star`, `Feedback` |
| `requeue_inbox_thread` from the retry button and the page's watchdog | `Reprocess` |
| packet helpers, `WorkPacketService.transition` | `MovePacket`, `SkipPacket` (what they raise is logged) |
| `create_task` at the end of a handler, or the stream that the browser opens | `Start` |
| `_process_question` and `_update_thread_status` | `Progress` (its heartbeat may be lost), `SaveAnswer`, `FailAnswer` (also when the save broke off after its INSERT), `GiveUp` (the failure cannot be stored either) |
| `api_save_response`, a page that is closed | `SaveResponse` (sent twice where the first got no answer), `LeaveStream` (also when save-response fails, which the page only logs) |
| `recover_stale_inbox_threads`, every ten minutes | `Scan`, `Recover` |
| the end of the process, the clock | `Crash`, `Tick` |

*Left out.* Texts, sources and the web search itself; the batch limit and the
order of the recovery (one thread is requeued after another, any of them); the
case that the process has no database.

*Properties.* Nothing bounds a stage of an answer: it may be several calls of models
with no heartbeat between them, and a heartbeat that fails is logged and forgotten.
So the recovery may take a living task for dead, and its question is answered
twice (section 4). `NoStrayAnswer` says that this is all: every answer too many is
accounted for, by a worker that had been silent for as long as the recovery waits when it
was taken for dead, by a save that broke off between its INSERT and its UPDATE, or by
one that was sent twice. `PacketTellsThread`: when the
handlers are done, the packet tells what was last done with the thread, unless a
transition was lost or two handlers met (`torn`). `WaitingEnds`: no thread waits
for ever. `EveryQuestionAnswered`: where people leave a waiting thread alone,
every question gets its answer, after crashes too, unless a worker of it was taken
for dead.

*Fairness.* Weak fairness of each handler's and worker's steps (the event loop
runs every coroutine on), of the recovery job (its loop, every ten minutes) and
of time. None of people, and the process ends, and the database fails an answer and
the note of its failure, finitely often (`MaxFaults`): otherwise no answer need ever
be finished.

*Run.* `inbox` (one thread, one request at a time, two workers, three requests, one end
of the process or answer given up, recovery after one tick). Two workers are a
follow-up next to the first answer, a stream next to a task, or the task that the
recovery starts next to a silent one; three requests are a question, a follow-up or a
retry, and a change of status. One tick makes a thread stale, and any action may
come before it, between two ticks and after. Threads do not share anything but the
recovery's list.

*Proved* for any threads, clients, workers, times and numbers: `InboxTypes`,
`AnswersAccountedFor` and `PacketsTell`. `NoStrayAnswer` is not inductive: the recovery
must not find a thread for whose worker nothing accounts. `InboxInv` adds a budget
(`Credit`): workers on the thread, handlers about to start one and a place on the
recovery's list together never exceed the answers owed; and `RunsSound`: a worker has
been silent for at least as long as its thread. The workers of a stale thread have
then all been silent that long (`StaleIsSilent`), and starting one more is what
`Overtaken` accounts for; a worker that has been heard of since is never overtaken.
For the packets `PacketFollows` speaks of threads that handlers are still at, too:
unless the thread is torn, every move in hand suits the thread as it now is, and
the packet does or such a move is on its way. A worker at its answer has no move in
hand (`WorkersRest`).

### 3.7 KnowledgeGaps

*State.* `gap` are the rows as every statement sees them, `disk` as last committed;
`on`, `cur`, `taking` and `cards` are the views and answer cards of interviews in
Discord; `held` the gap an inbox interview's row names; `req` a console request
that has chosen and not yet taken; `listed` what the hygiene sweep will defer.

| Code | Actions |
|---|---|
| `/interview`, `_seed_preemptive_gaps` | `Interview`, `Seed` |
| `_present_next_question`, up to its query and after it | `Choose`, `Mark` |
| `InterviewModal.on_submit`, a memo that leaves nothing open and any other | `AnswerWell`, `AnswerShort` |
| `AnswerButtonView` | `DiscardButton`, `Expire` |
| `end_session`, `on_timeout` | `GiveBack`; `TimeoutFails`, whose error is only logged while the view is gone; either is `ViewEnds` |
| `api_start_interview`, `api_interview_answer`, `api_interview_skip`, each up to `_pick_next_gap` | `WebStart`, `WebAnswer`, `WebSkip` |
| the same, when a statement of `_pick_next_gap` fails: it logs that and offers nothing | `Pick(FALSE)` for `Pick(TRUE)` |
| the rest of these | `Take` |
| `log_knowledge_gap`, `maybe_auto_close_gap`, `gaps_bulk`, the routes of `knowledge.py` | `Log`, `AutoClose`, `Curate`, `Recurate`, `Resolve`, `Delete`; `Restate`: `api_update_gap` takes any status the table knows, and asks nobody |
| `_run_gap_hygiene_sweep` | `Scan`, `Hygiene` |
| a restart | `Crash`: views, cards, requests and what nobody committed are gone |

*Left out.* The wording of questions and how alike two are; who is asked; bounties
and reminders (their jobs are in ScheduledJobs). Errors of the database are modelled
where the code catches them and goes on. What the hygiene sweep makes of a question
depends on its text, which does not change: `LowSignal` are those it finds wanting.

*Properties.* `NobodysGap`: a gap in progress is asked by an inbox interview, or some
Discord view is alive whose end gives it back, or it is `lost`: the process ended, a
timeout failed, a card outlived its interview, two requests of one inbox interview
met, or a person gave it that status in the console.
`DepthBounded`: follow-ups of follow-ups end. `DiscardedStaysOut`: what a person
discarded is not asked again, whatever sweep or interview had read it before.
`SessionsGiveBack`: as long as a view is alive, a moment comes at which every gap
not lost has been given back. `GapsComeBack`: even a lost gap is given back, as
long as people go on with interviews in the inbox and the database works for them.

*Fairness.* Weak fairness of `ViewEnds` (a view times out, and its timeout may fail)
and `Age` (days go by). That people pick up interviews time and again, and find a
database that works (`PickSome`), is the premise of `GapsComeBack` and no fairness.

*Run.* `gaps` (a question, a follow-up and one that would be too deep; one Discord
interview with its cards, one inbox interview, one request; the question is of low
signal; people keep or discard, while deferral comes from logging, follow-ups and
tidying). The two interviews race for the same gap, and each races curation, tidying,
failing statements and the crash.

*Proved* for any gaps, Discord and inbox interviews, requests and crashes:
`GapTypes`, `FollowUpsEnd`, `DiscardedForGood`, `SomebodyHasIt`. What is stored has to
be right twice, as everybody sees it and as last committed, since a crash puts the
second in place of the first: `Stored` states depth and discards of both, and every
commit is covered by one lemma (`CommitStores`). For `NobodysGap`, `Watched` adds to
the inbox interview that asks a gap that no request is about to replace it. And
`ViewsGiveBack`: `SessionsGiveBack`, if views end time and again or there is none
(`ViewsEnd`). A view goes in two ways only (`ViewsLast`), by its end or with the
process, and either leaves no gap in progress that is not lost (`ViewsEndings`): a
timeout that fails makes every gap lost that it leaves in progress.

### 3.8 ScheduledJobs

*State.* `job` is the job a behaviour is about (jobs share only the database);
`row` its rows in `job_runs` for the current key; `run` what its loop, a start by
hand and the health check's start are in the middle of; `item` what there is to
post about, with its marks and how often it was posted; `up`, `alive`, `due`,
`triggered` the process, the loop, its time and the health check's trigger.

Each of 36 jobs is a definition of its own, a *script* of the looks, posts and
marks its source makes in their order, each with the ways it may end early (`quit`,
`done`, `over`, `cut`, `fail`) and with what its `except` does. The actions
interpret a script:

| Code | Actions |
|---|---|
| `record_job_run`: SELECT, then INSERT; both fail soft in `_job_already_ran` | `Refused`, `Look`, `Claim`, `ClaimFails` |
| `complete_job_run` | `Complete`, `CompleteFails` |
| a start that claims nothing; asking whether the refresh ran | `StartFree`, `AskRefresh` |
| the steps of a job | `DoWork`, `DoLook`, `DoEach`, `DoPost`, `PostCut`, `DoMark`, `DoMarkEach`, `GoOver`, `Quit`, `NothingToDo`, `Raise` |
| the next period, the end of the process, its restart | `NewPeriod`, `Crash`, `Restart` |

*Left out.* What posts say; limits on how many items a job takes (except where a
message has no room for what is marked, `cut`); guards on the weekday inside a
loop; `wait_until_ready`; the fallback for old schemas in `record_job_run`; the week's
dashboard that can no longer be fetched, or whose row cannot be read, and is sent a
second time (`AutonomousOps.py:1125-1147`).

*Properties.* `SaidOnce`: one key is spoken for once, by loop and people together
and through crashes, but for the four ways the code leaves open, which the
comment on it names. `NeverTwice`: a job that marks before it posts never posts about an
item twice unless two of its runs overlap. `NeverLost`: a job that posts before
it marks has posted about what it marked, unless there was no channel or no room.
`TakenUp`: whatever there is to post about is taken up in the end, however many
runs quit, fail or stay *running*, by every job whose loop survives exceptions.

*Fairness.* The process is started again; while it is up, time and again, the job's
time comes; a loop whose time came starts, time and again before anybody else;
and each step of a script, which waits for a model, a channel or the web,
succeeds if it is tried again and again (strong fairness of the successful
outcome). `TakenUp` is then about what the code makes of these chances.

*Runs.* `jobs` (one item; every job; rows, marks and posts counted as far as they
matter).

*Proved* for every job and any items: `JobTypes`, `SaidOnceEach`, `NothingLost`,
`NeverToldTwice`. The steps of a script are not looked at one script after another:
the proofs rest on shapes, that the only way to a mark is the post right before it
(`MarksAfterPosting`), that look, mark and post follow each other
(`PostsAfterMarking`), that most jobs are some work and one message (`Announces`);
`ScriptShapes` and the lemmas before it show for each script which it has.
`KeyHeld`: until there is a reason for a second one, one run at most has the key,
its row says so, and whoever has the key when something was said has said it.
`AllAccounted`: an item was posted about as often as it is marked or is about to be
marked by the runs at the step after a post (`Owed`). `OneCarries`: as long as no two
runs met, the one there is has nothing in hand before its look, then only what
nobody posted about, and by its post only what is marked.

### 3.9 TaskBoard

*State.* `task` are the rows of `action_items` (status, web account, member, idle),
`link` and `record` the legacy links and the records they name; `op` what each
console request is in the middle of, with the row and the record's state as it read
them; `command` each `/action done`; `listed` what the stale sweep will cancel;
`spawned` the successors of a task.

| Code | Actions |
|---|---|
| `api_create_action`, `api_update_action`, `api_mark_action_done`, `api_cancel_action`, up to the commit on the task | `CreateAction`, `UpdateAction`, `MarkActionDone`, `CancelAction` |
| provenance and meeting links, which want the record | `LookUpAction` |
| `SELECT *`; `_ensure_action_record` | `ReadRow`; `FindRecord`, `CreateRecord`, `LinkRecord` |
| `update_record`, `transition_record` | `UpdateRecord`, `CheckTransition`, `MoveRecord` |
| the answer | `Succeed`; `Refuse`, `Fail`; `CutOff` |
| `/action done` by id and by word, `_update_action_status`, `_spawn_next_recurrence` | `ActionDone`, `ActionDoneByWord`, `CompleteByCommand`, `SpawnNextRecurrence`, `CommandEnds` |
| other writers of a task: Discord lists, closeout, pulse, tools, cleanup; assignment; the bot's inserts | `UpdateActionStatus`, `Assign`, `AutoAssign`, `ActionAdd` |
| `daily_stale_sweep` | `ListStale`, `CancelStale` |
| the review queue and the record routes | `RecordAlone` |

It extends `OperationalRecords`, so records obey the same validation and state
machine as in `RecordService`; of that service's operations it keeps the
commits on the row itself and leaves out logs and timestamps, which
`RecordService` covers.

*Left out.* Due dates, notes, points, escalations and gaps that a task resolves; the
successor is counted and not created (it is a task like any other), and every task
recurs.

*Properties.* `SuccessMeansAgreement`: a request that nobody overtook and that
reports success leaves a linked record with the state and owner the task has,
until somebody writes one of them alone. `NoOrphans`: a record no task is
linked to was made by a request that is still under way, broke off or met
another. `SuccessorOnce`: a recurring task has no more successors than
completions, unless two commands overlapped or one was picked from an old list.

*Run.* `tasks` (one task, two records, two requests, one command, two writes of
others): two requests are a create and an edit, or an edit and a look-up, that
both make a record; the two writes come between any two steps of either.
One owner suffices for owned and unowned.

*Proved* for any tasks, records, owners, requests and commands and any number of
writes: `BoardTypes`, `NothingOrphaned`, `SuccessIsAgreement`, `OneSuccessorEach`.
Each has an invariant of its own over `BoardInv` (which knows at each stage what a
request holds and that a linked record is one of that task). `Traceable`: a record
that is not linked belongs to the one request between insert and link, or its task
is torn. `Agrees`: a request that is still alone holds the row as the task has it
and, from each stage on, one more part of the record is as the row wants it.
`Spends`: a command between completing and creating the successor holds a
completion that no successor has used.

### 3.10 Handlers on the shared connection

Some 190 handlers answer commands, buttons, modals, messages and web requests or run
as jobs. Most are one long function with a few awaits, and go wrong in the same
few ways; they are modelled alike. A handler is a *script*: the sequence of what
it does that others can see, with the branches in between. The modules of scripts
define one operator per function of the code, with the function's name, out of the
calls it makes; `HandlerScripts` holds Python's own forms.

| Code | Script |
|---|---|
| `await conn.execute("SELECT ...")`; an INSERT or UPDATE; `await conn.commit()` | `Read`; `Write`, or `Want` when the user is told of it; `Commit` |
| a model, the index, the web; a file; `channel.send` | `Slow`; `File`; `Post` |
| `response.defer`, `send_message`; `followup.send` | `Ack`; `Tell` (`AckOk`, `TellOk`, `ReplyOk` when they say that it was done) |
| `if`, `for`, `try`, `raise`, `return`, a call | `Maybe`, `Either`; `Many`; `Try`, `TryElse`, `Attempt`; `Raise`; `Return`; `Call` |
| `async with db.transaction()`, a service's `_transaction()` | `Transaction`: what raises inside rolls the connection back |
| `tree.error`, a view's `on_error` | `Command`, `InView`, around the script |
| the session every web request looks up first | `Request` |

A condition is a free choice: it depends on texts and rows that no property here
reads. A loop runs any number of times. Only a choice that the code bases on what
has been answered already (`response.is_done()`) is kept (`IfAnswered`).

*State.* `handler` and `script`, `at` and `over`: which, and how far it has come;
`answered`: the interaction has had its first response; `open`: kinds of its
own statements that wait for a commit; `failed`, `missed`, `early` and `torn`: what
the properties must know of the past.

| What happens | Action |
|---|---|
| a statement, a commit, the beginning of a transaction | `DoWrite`, `DoCommit`, `BeginTransaction` |
| a read, a model, a file, a message | `DoWait` |
| a first response; a follow-up | `Acknowledge`; `FollowUp` |
| any of these but a commit fails, or Discord refuses a second first response or a follow-up to none | `Throw`: on to the handler of the exception, or out |
| control | `Branch`, `Leave` |
| others use the connection, the process dies | `OthersCommitOrRollBack`, `Crash` |

One handler runs at a time, among others that do to it what others can: commit or
roll back what it has open. Since no handler sees another in any other way here
(each row's own races are the subject of the other modules), this is every
interleaving of them.

*Left out.* The cancellation of a request or of a job in the middle of an await:
`db.transaction` rolls back for it, `_sqlite_service._transaction` does not, and a
stream that is closed leaves its last statement open. Gathered reads are read one
after another. A commit does not fail. That what somebody was told of is rolled
back by another handler between his statement and his commit is possible for
every handler, so that `ToldIsStored` cannot speak of it.

*Properties.* `AnsweredOnce`: one first response and follow-ups only after it, on
every path through exceptions and their handlers. `AnsweredInTime`: nothing slow
before the first response, and no end without it. `ToldIsStored`: who is told of
success has it, every statement of it, committed. `NothingHalfDone`: no commit and no
end leaves a part of what was asked for without the rest, and no transaction is
rolled back after a commit inside it. `LockIsBrief`: nothing is left open while a
model or Discord is waited for, or for good.

Each property excepts handlers by name: those the code gets wrong. These sets are
the result of the run as much as the properties are, and nobody outside them is
excepted; section 4 tells what is wrong with them.

*Run.* `handlers`: every handler, every path; there is nothing to bound, as the
state does not grow in a loop. Deadlock is checked: a handler always has a next
step until it is over.

*Proved*: `EveryHandlerAnswersOnce`, `EveryHandlerAnswersInTime`,
`EveryHandlerTellsOfStored`, `NoHandlerLeavesHalf` and `NoHandlerHoldsTheLock`, the five
invariants, from rules about scripts. A rule is what a reviewer reads a handler for:
`AnswersOnce`, for instance, asks that no follow-up stand where the interaction may
not have been answered yet, and no first response where it may. Those places are
a region of the script, computed by following its steps (`Unanswered`, `Answered`;
`Pending` and `AfterFailure` for a write its user is told of; `Open` and `AfterCommit`
for the connection), and the proofs show that a handler is where the regions say
whatever raises, whoever catches it and whatever others commit or roll back
(`AnswersWhereItMay`, `WritesWhereItMay`, `WritesSound`). They never look at a script:
all they need of one is that its regions are closed under its steps
(`RegionsClosed`) and that it keeps the rules, unless it is one of the exceptions.
TLC evaluates both for each script: `ScriptsAreSound` and `RulesAreKept` are
assumptions of `HandlerRules`. The second is an equivalence: the handlers that break
a rule are exactly the exceptions of the property, so that no handler in order is
suspected by a rule, and none is excepted without need. A new handler has to keep
the rules to be covered by the theorems; nobody need run it.

The assumptions are evaluated in the run `breaker`, which is not about handlers and
whose variations leave the scripts alone; the run `handlers` is repeated with altered
scripts, for which the assumptions would rightly be false.

## 4. What disagrees with the docs

One run ends with a counterexample, and is an entry of `findings`:

| Run | What happens |
|---|---|
| `sweep_recurring` | A condition that comes back meets its cleared row, which the sweep does not list; the INSERT breaks UNIQUE and this and all later sweeps die there. |

These properties are stated in the modules and are false of the code; the
instance under which TLC shows it is given, to be put into the `.cfg` named.

| Property | Instance | What happens |
|---|---|---|
| `RecordService!LawfulTransitions` | `MCRecordsSequential.cfg`, two clients, `Types = {"action"}`, `MaxOps = 3` | Two transitions validated against the same row; the second UPDATE (`operational_record_service.py:441`) takes the record from done back to open, an edge that does not exist. `canonical_operational_schema.md` asks to "enforce per-type transition rules". |
| `ExtractionProposals!DecidedOnce` | `MCProposalsOneReviewer.cfg`, two clients | Two reviewers read a proposal as pending; the second verdict replaces the first. |
| `ExtractionProposals!MergesKept` | `MCProposalsOneReviewer.cfg`, `Type <- ActionsOnly` | A merge is kept in the record's payload and every edit of the task behind the record replaces the payload. |
| `ReviewQueue!DeferralHides` | `MCReviewQueue.cfg`, one reviewer, `Items = {i1, i2}`, `Type <- OverdueAndProposal` | `resolved_at` is set by resolve and by assign owner and cleared by nothing, so later deferrals of an item whose condition lasts are accepted and have no effect. |
| `CircuitBreaker!SingleProbe` | `MCCircuitBreaker.cfg`, any two callers | A half-open breaker lets every caller through, where its comment says exactly one. |
| `KnowledgeGaps!SeedsCanBeAsked` | `MCKnowledgeGaps.cfg` | Seeded gaps get the table's default curation, *pending*, which no interview asks (`KnowledgeGapTracker.py:3397`). |

Smaller disagreements, met while modelling and not run:

* "action records without an owner must be in `unowned`"
  (`docs/internal/canonical_operational_schema.md:126`) is checked by
  `create_record` only; an update may leave an open action without an owner.
* A restart between a row's UPDATE and its two logs loses the attribution, which
  `canonical_operational_schema.md:113` calls restart-safe. `QuietLogs` therefore
  excepts records with a torn operation and no others.
* A merge that asks for a state the record cannot take is refused after the
  merge was written: a pending proposal is then named by a canonical record
  (`extraction_proposal_service.py:550-567`).
* A first deferral writes NULL over a reviewer's severity override
  (`review_queue_service.py:354`); `RepeatedSurface` speaks from the third
  deferral on. Review sessions can be completed twice
  (`review_queue_service.py:593`).
* *Gaps.* A memo that leaves nothing open ends in an `UnboundLocalError`, before
  its commit (`KnowledgeGapTracker.py:1096`; the names are assigned in the other
  branch only; `AnswerWell` models it). `_pick_next_gap` gives back a gap that was
  last asked a day ago although it may just have been taken. The hygiene
  docstring promises not to touch gaps asked three times; its pass over
  duplicates does. `pulse.py:211` sets a status the table's CHECK refuses;
  `tools_builtin.py:426` and `document_remediation.py:384` insert into columns that
  `knowledge_gaps` does not have.
* *Jobs.* The health check asks whether the knowledge refresh ran by claiming its
  key (`AutonomousOps.py:3404`), so the refresh it then triggers, as its comment
  says ("Stale knowledge → trigger knowledge refresh"), is refused and the row
  stays *running*: no refresh happens that day (`AskRefresh` in `ScheduledJobs`).
  `_rainmaker_create_lead` calls a method that `AutonomousOps` does not have
  (`rainmaker.py:100`; it is `BasePersona`'s, which nothing inherits from), after
  the lead is committed: it returns None for every lead it creates, so that no
  opportunity is ever marked as elevated. The crawl and the hunt then leave out a
  required argument of `post_to_bots_channel` (`AutonomousOps.py:2359`, `:3020`) and
  fail after they have created their leads.
  `complete_job_run` closes a run as *completed* when the exception has no text
  (`database.py:396`). `weekly_escalation_check` marks up to twenty tasks and names ten;
  partners' updates are cut to a message's length and all marked
  (`AutonomousOps.py:1588`); the persona digest marks takeaways without a channel
  to post them to. These are `cut` and `over` in the scripts, and `NeverLost`
  excepts them. Takeaways older than seven days are never taken up (`Lapse`).
* *Tasks.* The stale sweep cancels by id without looking again, and looks only at
  `assigned_to_user_id`, so that a task assigned in the console counts as
  unassigned (`ActionItems.py:2030`, "Auto-cancel only the truly abandoned
  unassigned items"). A task in progress, blocked or done without a web account
  can never get a record, since validation refuses one: the console answers with a
  failure after it has written the task. A recurring task completed in a list, in
  bulk, in the console, at closeout or by pulse gets no successor; one completed by
  word from an old list gets a second one. `last_insert_rowid()` is asked after a
  commit, here and at eleven other places, and may name somebody else's row
  (`AutonomousOps.py:575`). A failed create
  deletes the task and leaves its record and link.

* *Inbox.* A question may be answered twice. The recovery takes a task for an orphan
  after 900 seconds without a heartbeat; nothing bounds what a stage takes, which may
  be several models in turn, and a heartbeat may be lost (`inbox.py:1687-1697`): the
  slow task and its successor both append their answer. A save that fails after its
  INSERT leaves the answer, and a message of failure next to it. The page sends its
  answer once more where it got no reply. `NoStrayAnswer` accounts for these and
  shows that there are no others.
* *Answers* (`AnswersTwice`, `NeverAnswers`, `AnswersLate`). `/action add` with a due
  date that cannot be read, and `/action done` by description, respond a second time
  after they deferred: the command has done its work and the user is told that
  something went wrong. The modal that creates an action has no `on_submit`; it
  stands in the view behind it, which Discord never calls
  (`ActionItems.py:730`). `/add_agenda_item` ends after its first check. A
  *not helpful* click writes a memo with a model before it answers.
  `agenda_add` is dead code; `sync` tells its error as a follow-up to nothing;
  `db_status` calls a method `Database` does not have and always fails.
* *Success that is none* (`SwallowsFailure`). All four feedback buttons thank for what
  may not have been stored, *not helpful* with "I've logged this to improve"
  (`FeedbackView.py:69`, after `:77-111`). Remembering shows "Action Created" and "Decision
  Recorded" after it has swallowed the failure of their row
  (`DocumentAuthor.py:989-1011`, `:1027`, `:1082`). Meeting notes are "saved to knowledge base"
  whatever became of their file and their row (`agenda_ops.py:411-463`, `:583-595`).
  Refining prompts counts a variant as created that `register_prompt_variant` has failed to
  write (`feedback_learning_loop.py:280-297`). `_record_feedback`, `set_preference`,
  `set_budget`, `register_prompt_variant` and the import of preferences log a failure
  and return nothing, and the user is thanked or told "success". The import of gaps
  reports an error among its results and success above them. `ReclassifySelect`
  deletes the old row, and shows the new one whether or not it was written. Web
  feedback never reaches the learning loop, as its docstring says it does:
  `process_feedback` is passed a `user_id` it does not take
  (`chat.py:2408-2444`, `feedback_learning_loop.py:137`). `api_resolve_concern` never
  answers 404. `/force_persona_meeting` says "concluded" whatever happened; an
  agenda item counts as discussed although its post failed.
* *Halves* (`LeavesHalf`). Whoever writes two statements and commits once, outside a
  transaction, leaves the first one open when the second fails: nobody rolls it
  back, and the next commit makes it last. For a command that is its own
  error log (`leisureLLM.py:423`), for a tool the log of its execution
  (`tool_registry.py:344`), for everybody else `ensure_schema`, whose `executescript`
  commits at the beginning of every authenticated request
  (`web_identity_service.py:97`). A decision whose record fails is deleted; the
  record stays.
* *Locks* (`HoldsLock`). The interview modal asks a model for tasks, both curator jobs
  write between slow calls, and a persona meeting posts its urgent takeaways with
  all of them uncommitted. The note of an improvement memo is never committed
  (`DocumentAuthor.py:1629`).
* *Names that do not exist.* `_generate_rainmaker_hunt_queries` calls `_call_llm`;
  `create_remediation_gaps` names columns that the table does not have;
  `_run_thursday_prompt_once` never completes its run when there is no gap.

## 5. What is proved and what is only checked

Every theorem holds for all values of the constants under the named assumptions
of its module: `OwnerAssumption` and `ServiceAssumption` (records),
`ProposalAssumption`, `SweepAssumption`, `QueueAssumption`, `BreakerAssumption`,
`InboxAssumption`, `GapsAssumption`,
`JobsAssumption`, `BoardAssumption`.
They say that constants are of their kinds, that null values are distinct and
thresholds ordered; TLC evaluates them in every run. `ScriptsAreSound` and
`RulesAreKept` are of another kind: they speak of definitions, have no constants and
are decided once and for all when TLC evaluates them (section 3.10).

Some theorems have a hypothesis besides: `[]OneAtATime` (no two operations on one
record, or on one proposal, overlap), `[]OneWriter` with `MayFail` off (sweeps write
one at a time and are not cut off), `NoMergeAhead` and `OneMergeAtATime` (section 3.2).
The code does not
enforce them; they are what holds when requests do not meet, and without them the
properties are false. They restrict behaviours and not the module: apart from
`MayFail` in the one theorem and `MayEditTasks` in another, cut-offs, other clients and
other records go on as before.

Two theorems are about what must happen. Their hypotheses `SweepsEnd` and `ViewsEnd`
say in so many words what the fairness of the runs brings about, that sweeps end and
views time out time and again: whether an action is enabled is beyond the prover,
and so is weak fairness, which is defined by it. TLC confirms that the fair
specifications of the runs imply `ViewsEnd`, and `SweepsEnd` as long as no row was
cleared; that is what the code's timers and its quarter-hourly loop are for.

| Theorem | States |
|---|---|
| `TypesHold`, `StampsAlwaysAgree` | `TypeOK`, `StampsAgree` of RecordService, any interleaving |
| `SerialHonoursLifecycle`, `SerialTransitionsLawful` | RecordService implements RecordLifecycle, and `LawfulTransitions`, if no two operations on one record overlap |
| `SerialLogsTell`, `SerialEventsChain` | `QuietLogs`, `EventChain` under the same hypothesis |
| `ProposalTypesHold`, `AcceptedAlwaysBacked`, `AlwaysTraced` | `TypeOK`, `AcceptedBacked`, `Traced` of ExtractionProposals, any interleaving |
| `SerialPromotedOnce`, `SerialVerdictTold` | `PromotedOnce`, `VerdictTold`, if no two reviews of one proposal overlap |
| `SerialDecidedOnce` | `DecidedOnce`, under the same hypothesis |
| `SerialMergesLast`, `SerialMergesKept` | a merge stays in its record, but for tasks people edit, if no two merges into one record overlap; `MergesKept`, if nobody edits |
| `SerialHonoursReview` | ExtractionProposals implements ProposalReview, if besides nobody merges into a record that is not named yet |
| `UndisturbedSweepIsExact` | `SweepExact`, any number of sweeps |
| `SerialEventsTellStatus` | `EventsTellStatus`, if sweeps write one at a time to their end |
| `SweepsSurface` | `SurfacesAtFirst`, if sweeps end time and again |
| `QueueTypes`, `RepeatedAlwaysFlagged`, `RepeatedAlwaysSurface`, `NeverCountedTwice` | the four invariants of ReviewQueue |
| `DeferredProposalsHide` | what is left of `DeferralHides`: it holds of proposals |
| `CountsStayBelowThresholds`, `OnlyConsecutiveFailuresTrip`, `OnlyEarnedRecovery` | `CountsBelowThresholds`, `TripsOnConsecutiveFailures`, `RecoveryIsEarned` of CircuitBreaker |
| `InboxTypes`, `AnswersAccountedFor`, `PacketsTell` | `TypeOK`, `NoStrayAnswer`, `PacketTellsThread` of InboxThreads |
| `GapTypes`, `FollowUpsEnd`, `DiscardedForGood`, `SomebodyHasIt` | `TypeOK`, `DepthBounded`, `DiscardedStaysOut`, `NobodysGap` of KnowledgeGaps |
| `ViewsGiveBack` | `SessionsGiveBack`, if views end time and again |
| `JobTypes`, `SaidOnceEach`, `NothingLost`, `NeverToldTwice` | `TypeOK`, `SaidOnce`, `NeverLost`, `NeverTwice` of ScheduledJobs |
| `BoardTypes`, `SuccessIsAgreement`, `NothingOrphaned`, `OneSuccessorEach` | the four invariants of TaskBoard |
| `EveryHandlerAnswersOnce`, `EveryHandlerAnswersInTime`, `EveryHandlerTellsOfStored`, `NoHandlerLeavesHalf`, `NoHandlerHoldsTheLock` | the five invariants of SharedConnection |

The type invariants that are proved (`TypesHold`, `ProposalTypesHold`, `QueueTypes`,
`InboxTypes`, `JobTypes`, `BoardTypes`) are not run a second time; that of
`KnowledgeGaps` is checked by TLC as well.

Each proof has the same shape: an inductive invariant, a lemma that Init
establishes it and one that every action keeps it (a step per action), then the
property from it.

Every safety property that a run finds to hold is a theorem as well. Only
model-checked, and why: `WaitingEnds`, `EveryQuestionAnswered`, `GapsComeBack` and
`TakenUp`. Each needs a measure that falls over a number of steps no bound is known
of (answers that die and are asked again, interviews that had chosen a gap before
it was taken and take it once more, runs that fail), so an induction over it, and
fairness; both are out of the prover's reach. A property that is false of the code
has no theorem, except under the hypothesis that names what breaks it.

No model uses a recursive operator, so no result about data of unbounded depth is
claimed.

## 6. What is not modelled, and the plan

Done, in this order: circuit breaker (small, in memory), operational records,
continuity sweep, proposals, review queue, inbox threads, knowledge gaps,
scheduled jobs, tasks with their records, handlers on the shared connection; then
the proofs, of every safety property and of two liveness properties. Next:

1. **Proofs**: `QuietLogs` and `VerdictTold` where operations overlap (whoever writes
   the row last may log first: which of the logs is right then).
2. **Composition** of ReviewQueue, RecordService and ContinuitySweep: assigning
   an owner is an update, a transition and a sweep; whether an item that was
   settled is gone from the list, and what a cut-off leaves.
3. **Cancellation** in `SharedConnection`, and `ToldIsStored` under another's
   rollback, once the code rolls back what it leaves.
4. **MigrationRunner**, **ModelRouter**'s fallback over several
   breakers, **Rails**, trust controls (a budget checked before and counted after).

Bounds to keep: one or two actors and one or two objects each, and one run per
question; where a new module's question includes an older one's, its run takes
the older run's place.

Left out for good: user interface, launcher and packaging; pages, settings and
system requests of the console; texts, embeds, prompts, retrieval and scoring, of
which only the calls are modelled; configuration; backup and restore, whose hazards lie in file-system and SQLite
internals. `PROJECT.json` gives the reason per component.

## 7. Running it

    tlc -config MCRecordsSequential.cfg MCRecordService.tla
    tlapm RecordServiceProofs.tla

Every `.cfg` belongs to the MC module that `runs` names with it; the longest
takes about four minutes with two workers. Deadlock checking is off where
the bounded number of operations, or people who do nothing more, let the system
come to rest (records, proposals, queue, inbox, gaps, jobs, tasks) and on for the
sweep, the breaker and the handlers.
