------------------------------ MODULE TaskBoard ------------------------------
(***************************************************************************)
(* Tasks and the operational record behind each of them                    *)
(* (admin/routers/artifacts.py, cogs/ActionItems.py).                      *)
(*                                                                         *)
(* The console writes the task, reads it back, looks its record up or      *)
(* creates and links one, writes the owner and moves the state: a chain of *)
(* commits that the record's state machine may refuse half way. Discord,   *)
(* the tools and the nightly jobs write the task alone, the review queue   *)
(* the record alone. A recurring task that is completed by command leaves  *)
(* a successor.                                                            *)
(***************************************************************************)
EXTENDS OperationalRecords

CONSTANTS
    Tasks,          \* ids of tasks
    Records,        \* ids of records
    NoRecord,
    Requests,       \* console requests under way at a time
    Commands,       \* /action done commands under way at a time
    MaxRequests,    \* bound: console requests
    MaxElsewhere    \* bound: writes of anybody else

ASSUME BoardAssumption ==
    /\ NoRecord \notin Records
    /\ MaxRequests \in Nat /\ MaxElsewhere \in Nat

VARIABLES
    task,       \* the tasks table
    link,       \* operational_record_legacy_links
    record,     \* the records created for tasks
    op,         \* what each console request is in the middle of
    command,    \* what each command is in the middle of
    listed,     \* the tasks the stale sweep is about to cancel
    spawned,    \* successors created of each task
    requests, elsewhere,    \* how many there have been
    \* History, read by no action:
    agreed,     \* tasks whose last writer was a request that answered success
    torn,       \* tasks about which requests overlapped or one broke off
    finished,   \* times each task became done
    raced       \* tasks completed by overlapping commands or from an old list

boardVars == <<task, link, record, op, command, listed, spawned>>
boundVars == <<requests, elsewhere>>
historyVars == <<agreed, torn, finished, raced>>
vars == <<boardVars, boundVars, historyVars>>

OpenStatuses == {"todo", "in_progress", "blocked"}

Statuses == OpenStatuses \cup {"done", "cancelled"}

Accounts == Owners \cup {NoOwner}

\* owner: the web account assigned_to_username names; member: whether
\* assigned_to_user_id is set; idle: undated and untouched for thirty days.
Row == [status : Statuses \cup {"none", "deleted"}, owner : Accounts,
        member : BOOLEAN, idle : BOOLEAN]

NoTask == [status |-> "none", owner |-> NoOwner, member |-> FALSE, idle |-> FALSE]

\* source: the task source_context_id names.
Blank == [state |-> "none", owner |-> NoOwner, source |-> "none"]

Unread == [status |-> "none", owner |-> NoOwner]

Idle == [kind |-> "none", task |-> "none", stage |-> "idle", row |-> Unread,
         rec |-> NoRecord, seen |-> "none", alone |-> TRUE]

Resting == [task |-> "none", stage |-> "idle"]

Exists(t) == task[t].status \in Statuses

About(t) == {c \in Requests : op[c].stage # "idle" /\ op[c].task = t}

Init ==
    /\ task = [t \in Tasks |-> NoTask]
    /\ link = [t \in Tasks |-> NoRecord]
    /\ record = [r \in Records |-> Blank]
    /\ op = [c \in Requests |-> Idle]
    /\ command = [k \in Commands |-> Resting]
    /\ listed = {}
    /\ spawned = [t \in Tasks |-> 0]
    /\ requests = 0 /\ elsewhere = 0
    /\ agreed = {} /\ torn = {} /\ raced = {}
    /\ finished = [t \in Tasks |-> 0]

-----------------------------------------------------------------------------
(* What every write of a task does to the history: it may have finished    *)
(* the task, and other requests about the task are no longer alone.        *)

Finishes(t, status) ==
    finished' = IF status = "done" /\ task[t].status # "done"
                THEN [finished EXCEPT ![t] = @ + 1] ELSE finished

Disturbed(t) ==
    [c \in Requests |-> [op[c] EXCEPT !.alone = @ /\ op[c].task # t]]

\* Request c goes on; the others about its task learn nothing of it.
GoOn(c, next) == op' = [Disturbed(op[c].task) EXCEPT ![c] = next]

GoTo(c, stage) == GoOn(c, [op[c] EXCEPT !.stage = stage])

-----------------------------------------------------------------------------
(* The console.                                                            *)

\* A request about t gets under way, and is alone if no other is.
Enter(c, kind, t) ==
    /\ op[c].stage = "idle"
    /\ requests < MaxRequests
    /\ requests' = requests + 1
    /\ op' = [Disturbed(t) EXCEPT
                ![c] = [Idle EXCEPT !.kind = kind, !.task = t, !.stage = "read",
                                    !.alone = kind # "look" /\ About(t) = {}]]
    /\ torn' = IF About(t) = {} THEN torn ELSE torn \cup {t}
    /\ UNCHANGED <<link, record, command, listed, spawned, elsewhere, raced>>

Begin(c, kind, t, row) ==
    /\ Enter(c, kind, t)
    /\ task' = [task EXCEPT ![t] = row]
    /\ agreed' = agreed \ {t}
    /\ Finishes(t, row.status)

\* Provenance and meetings want the record of a task as it is.
LookUpAction(c, t) ==
    /\ Exists(t)
    /\ Enter(c, "look", t)
    /\ UNCHANGED <<task, agreed, finished>>

CreateAction(c, t) ==
    /\ task[t].status = "none"
    /\ \E owner \in Accounts :
         Begin(c, "create", t, [NoTask EXCEPT !.status = "todo", !.owner = owner])

\* Any field may be given or left out; every edit marks the task as touched.
UpdateAction(c, t) ==
    /\ Exists(t)
    /\ \E status \in Statuses, owner \in Accounts :
         Begin(c, "update", t, [task[t] EXCEPT !.status = status, !.owner = owner,
                                               !.idle = FALSE])

MarkActionDone(c, t) ==
    /\ Exists(t)
    /\ Begin(c, "done", t, [task[t] EXCEPT !.status = "done", !.idle = FALSE])

CancelAction(c, t) ==
    /\ Exists(t)
    /\ Begin(c, "cancel", t, [task[t] EXCEPT !.status = "cancelled", !.idle = FALSE])

\* The state the record of a task should be in.
StateFromRow(row) ==
    CASE row.status = "todo"      -> IF row.owner = NoOwner THEN "unowned" ELSE "open"
      [] row.status = "cancelled" -> "canceled"
      [] OTHER                    -> row.status

\* Mutant: an edit leaves the state of the record alone.
TargetOfButtons(c) ==
    CASE op[c].kind = "done"   -> "done"
      [] op[c].kind = "cancel" -> "canceled"
      [] OTHER                 -> op[c].seen

Target(c) ==
    CASE op[c].kind = "done"   -> "done"
      [] op[c].kind = "cancel" -> "canceled"
      [] OTHER                 -> StateFromRow(op[c].row)

\* SELECT * after the UPDATE; a task that is gone ends the request.
ReadRow(c) ==
    /\ op[c].stage = "read"
    /\ op' = [op EXCEPT ![c] =
                IF Exists(op[c].task)
                THEN [@ EXCEPT !.row = [status |-> task[op[c].task].status,
                                   owner |-> task[op[c].task].owner],
                          !.stage = "find"]
                ELSE Idle]
    /\ UNCHANGED <<task, link, record, command, listed, spawned, boundVars,
                   historyVars>>

\* Mutant: the link is looked up under another table's name.
LinkedNowhere(t) == NoRecord

Linked(t) == link[t]

\* Edits and buttons go on to bring the record up to the task.
AfterRecord(kind) == IF kind \in {"create", "look"} THEN "end" ELSE "owner"

\* get_record_by_legacy_link, with the state the handler will compare.
FindRecord(c) ==
    /\ op[c].stage = "find"
    /\ LET r == Linked(op[c].task) IN
         op' = [op EXCEPT ![c] =
                  IF r = NoRecord THEN [@ EXCEPT !.stage = "create"]
                  ELSE [@ EXCEPT !.rec = r, !.seen = record[r].state,
                                 !.stage = AfterRecord(op[c].kind)]]
    /\ UNCHANGED <<task, link, record, command, listed, spawned, boundVars,
                   historyVars>>

Inserted(c, r) ==
    [record EXCEPT ![r] = [state |-> StateFromRow(op[c].row),
                           owner |-> op[c].row.owner, source |-> op[c].task]]

\* create_record; what its validation refuses is Refuse below.
CreateRecord(c) ==
    /\ op[c].stage = "create"
    /\ ValidInput("action", StateFromRow(op[c].row), op[c].row.owner)
    /\ \E r \in Records :
         /\ record[r] = Blank
         /\ record' = Inserted(c, r)
         /\ op' = [op EXCEPT ![c].rec = r, ![c].seen = StateFromRow(op[c].row),
                             ![c].stage = "link"]
    /\ UNCHANGED <<task, link, command, listed, spawned, boundVars, historyVars>>

\* INSERT OR IGNORE under UNIQUE(legacy_table, legacy_id): the first one stays.
LinkRecord(c) ==
    /\ op[c].stage = "link"
    /\ link' = [link EXCEPT ![op[c].task] =
                  IF @ = NoRecord THEN op[c].rec ELSE @]
    /\ GoTo(c, AfterRecord(op[c].kind))
    /\ UNCHANGED <<task, record, command, listed, spawned, boundVars, historyVars>>

UpdateRecord(c) ==
    /\ op[c].stage = "owner"
    /\ record' = [record EXCEPT ![op[c].rec].owner = op[c].row.owner]
    /\ GoTo(c, IF op[c].seen = Target(c) THEN "end" ELSE "check")
    /\ UNCHANGED <<task, link, command, listed, spawned, boundVars, historyVars>>

\* transition_record validates against its own read of the record.
CheckTransition(c) ==
    /\ op[c].stage = "check"
    /\ ValidTransition("action", record[op[c].rec].state, Target(c))
    /\ op' = [op EXCEPT ![c].stage = "move"]
    /\ UNCHANGED <<task, link, record, command, listed, spawned, boundVars,
                   historyVars>>

MoveRecord(c) ==
    /\ op[c].stage = "move"
    /\ record' = [record EXCEPT ![op[c].rec].state = Target(c)]
    /\ GoTo(c, "end")
    /\ UNCHANGED <<task, link, command, listed, spawned, boundVars, historyVars>>

Succeed(c) ==
    /\ op[c].stage = "end"
    /\ op' = [op EXCEPT ![c] = Idle]
    /\ agreed' = IF op[c].alone THEN agreed \cup {op[c].task} ELSE agreed
    /\ UNCHANGED <<task, link, record, command, listed, spawned, boundVars, torn,
                   finished, raced>>

\* The answer is a failure: the task keeps what was written, unless it was the
\* request that created it, which deletes the row (and leaves record and link).
RequestFails(c) ==
    /\ op' = [op EXCEPT ![c] = Idle]
    /\ torn' = torn \cup {op[c].task}
    /\ task' = IF op[c].kind = "create"
               THEN [task EXCEPT ![op[c].task] = [NoTask EXCEPT !.status = "deleted"]]
               ELSE task
    /\ UNCHANGED <<link, record, command, listed, spawned, boundVars, agreed, finished,
                   raced>>

Refuse(c) ==
    /\ \/ /\ op[c].stage = "create"
          /\ ~ValidInput("action", StateFromRow(op[c].row), op[c].row.owner)
       \/ /\ op[c].stage = "check"
          /\ ~ValidTransition("action", record[op[c].rec].state, Target(c))
    /\ RequestFails(c)

Fail(c) == op[c].stage # "idle" /\ RequestFails(c)

\* The process ends, or the request is cancelled: nothing is deleted.
CutOff(c) ==
    /\ op[c].stage # "idle"
    /\ op' = [op EXCEPT ![c] = Idle]
    /\ torn' = torn \cup {op[c].task}
    /\ UNCHANGED <<task, link, record, command, listed, spawned, boundVars, agreed,
                   finished, raced>>

-----------------------------------------------------------------------------
(* /action done: by id, which looks at the status first, or by a word,     *)
(* which offers a list of the open tasks and does not look again.          *)

CommandStep(k, t, stage) ==
    command' = [command EXCEPT ![k] = [task |-> t, stage |-> stage]]

Overlapping(k, t) ==
    \E j \in Commands \ {k} : command[j].stage # "idle" /\ command[j].task = t

\* Mutant: the command does not look at the status.
Known(t) == Exists(t)

NotDone(t) == Exists(t) /\ task[t].status # "done"

ActionDone(k, t) ==
    /\ command[k].stage = "idle"
    /\ NotDone(t)
    /\ CommandStep(k, t, "write")
    /\ raced' = IF Overlapping(k, t) THEN raced \cup {t} ELSE raced
    /\ UNCHANGED <<task, link, record, op, listed, spawned, boundVars, agreed, torn,
                   finished>>

ActionDoneByWord(k, t) ==
    /\ command[k].stage = "idle"
    /\ task[t].status \in OpenStatuses
    /\ CommandStep(k, t, "write")
    /\ raced' = raced \cup {t}
    /\ UNCHANGED <<task, link, record, op, listed, spawned, boundVars, agreed, torn,
                   finished>>

\* A write of the task alone, by whoever is not a console request.
WriteAlone(t, row) ==
    /\ elsewhere < MaxElsewhere
    /\ elsewhere' = elsewhere + 1
    /\ task' = [task EXCEPT ![t] = row]
    /\ op' = Disturbed(t)
    /\ agreed' = agreed \ {t}
    /\ Finishes(t, row.status)
    /\ UNCHANGED <<link, record, requests, torn>>

CompleteByCommand(k) ==
    /\ command[k].stage = "write"
    /\ LET t == command[k].task IN
         /\ IF Exists(t)
            THEN WriteAlone(t, [task[t] EXCEPT !.status = "done", !.idle = FALSE])
            ELSE UNCHANGED <<task, link, record, op, boundVars, agreed, torn, finished>>
         /\ CommandStep(k, t, "spawn")
    /\ UNCHANGED <<listed, spawned, raced>>

\* The successor is a task like any other; here it is only counted.
SpawnNextRecurrence(k) ==
    /\ command[k].stage = "spawn"
    /\ spawned' = IF Exists(command[k].task)
                  THEN [spawned EXCEPT ![command[k].task] = @ + 1] ELSE spawned
    /\ command' = [command EXCEPT ![k] = Resting]
    /\ UNCHANGED <<task, link, record, op, listed, boundVars, historyVars>>

\* The list expires, the update fails, the successor is not made, or a restart.
CommandEnds(k) ==
    /\ command[k].stage # "idle"
    /\ command' = [command EXCEPT ![k] = Resting]
    /\ UNCHANGED <<task, link, record, op, listed, spawned, boundVars, historyVars>>

-----------------------------------------------------------------------------
(* Everybody else.                                                         *)

\* Discord's lists and buttons, closeout, pulse, tools and cleanup.
UpdateActionStatus(t) ==
    /\ Exists(t)
    /\ \E status \in Statuses :
         WriteAlone(t, [task[t] EXCEPT !.status = status, !.idle = FALSE])
    /\ UNCHANGED <<command, listed, spawned, raced>>

\* The name of a member may or may not be that of a web account.
Assign(t) ==
    /\ Exists(t)
    /\ \E member \in BOOLEAN, owner \in Accounts :
         WriteAlone(t, [task[t] EXCEPT !.member = member, !.owner = owner,
                                       !.idle = FALSE])
    /\ UNCHANGED <<command, listed, spawned, raced>>

AutoAssign(t) ==
    /\ task[t].status \in OpenStatuses
    /\ ~task[t].member
    /\ \E owner \in Accounts :
         WriteAlone(t, [task[t] EXCEPT !.member = TRUE, !.owner = owner,
                                       !.idle = FALSE])
    /\ UNCHANGED <<command, listed, spawned, raced>>

ActionAdd(t) ==
    /\ task[t].status = "none"
    /\ \E owner \in Accounts, member \in BOOLEAN, status \in {"todo", "blocked"} :
         WriteAlone(t, [task[t] EXCEPT !.status = status, !.owner = owner,
                                       !.member = member])
    /\ UNCHANGED <<command, listed, spawned, raced>>

Abandoned(t) ==
    /\ task[t].status = "todo"
    /\ ~task[t].member
    /\ task[t].idle

\* The stale sweep lists, and cancels what it listed by id.
ListStale ==
    /\ listed = {}
    /\ listed' = {t \in Tasks : Abandoned(t)}
    /\ listed' # {}
    /\ UNCHANGED <<task, link, record, op, command, spawned, boundVars, historyVars>>

CancelStale ==
    /\ listed # {}
    /\ task' = [t \in Tasks |->
                  IF t \in listed /\ Exists(t)
                  THEN [task[t] EXCEPT !.status = "cancelled", !.idle = FALSE]
                  ELSE task[t]]
    /\ op' = [c \in Requests |-> [op[c] EXCEPT !.alone = @ /\ op[c].task \notin listed]]
    /\ agreed' = agreed \ listed
    /\ listed' = {}
    /\ UNCHANGED <<link, record, command, spawned, boundVars, torn, finished, raced>>

Age(t) ==
    /\ task[t].status = "todo"
    /\ ~task[t].idle
    /\ task' = [task EXCEPT ![t].idle = TRUE]
    /\ UNCHANGED <<link, record, op, command, listed, spawned, boundVars, historyVars>>

\* The review queue and the record routes move or assign the record alone.
RecordAlone(t) ==
    /\ link[t] # NoRecord
    /\ elsewhere < MaxElsewhere
    /\ elsewhere' = elsewhere + 1
    /\ \/ \E state \in ActionNext(record[link[t]].state) :
            record' = [record EXCEPT ![link[t]].state = state]
       \/ \E owner \in Accounts : record' = [record EXCEPT ![link[t]].owner = owner]
    /\ op' = Disturbed(t)
    /\ agreed' = agreed \ {t}
    /\ UNCHANGED <<task, link, command, listed, spawned, requests, torn, finished, raced>>

Next ==
    \/ \E c \in Requests :
         \/ \E t \in Tasks : \/ CreateAction(c, t)
                             \/ UpdateAction(c, t)
                             \/ MarkActionDone(c, t)
                             \/ CancelAction(c, t)
                             \/ LookUpAction(c, t)
         \/ ReadRow(c) \/ FindRecord(c) \/ CreateRecord(c) \/ LinkRecord(c)
         \/ UpdateRecord(c) \/ CheckTransition(c) \/ MoveRecord(c) \/ Succeed(c)
         \/ Refuse(c) \/ Fail(c) \/ CutOff(c)
    \/ \E k \in Commands :
         \/ \E t \in Tasks : ActionDone(k, t) \/ ActionDoneByWord(k, t)
         \/ CompleteByCommand(k) \/ SpawnNextRecurrence(k) \/ CommandEnds(k)
    \/ \E t \in Tasks :
         \/ UpdateActionStatus(t) \/ Assign(t) \/ AutoAssign(t) \/ ActionAdd(t)
         \/ Age(t) \/ RecordAlone(t)
    \/ ListStale \/ CancelStale

Spec == Init /\ [][Next]_vars

-----------------------------------------------------------------------------
(* Properties.                                                             *)

\* Tasks, records and everything in flight keep their shape, and a record is
\* in a state of an action: the console's statuses all have one.
TypeOK ==
    /\ task \in [Tasks -> Row]
    /\ link \in [Tasks -> Records \cup {NoRecord}]
    /\ record \in [Records -> [state : ActionStates \cup {"none"}, owner : Accounts,
                            source : Tasks \cup {"none"}]]
    /\ \A t \in Tasks : link[t] # NoRecord => record[link[t]].state # "none"
    /\ \A c \in Requests :
         /\ op[c].row \in [status : Statuses \cup {"none"}, owner : Accounts]
         /\ op[c].stage \in {"owner", "check", "move"} => op[c].rec \in Records

\* A request that answers success, and that nobody overtook, leaves a task and
\* a record that say the same, until somebody writes one of them alone. The
\* five commits in between (artifacts.py:470-605) may each be refused or fail,
\* and then the answer is a failure.
SuccessMeansAgreement ==
    \A t \in agreed :
       Exists(t) =>
         /\ link[t] # NoRecord
         /\ record[link[t]] = [state |-> StateFromRow(task[t]),
                                owner |-> task[t].owner, source |-> t]

\* A record made for a task is the record of that task: only overlapping
\* requests or one that broke off leave a record nobody can find.
NoOrphans ==
    \A r \in Records :
       record[r] # Blank =>
         \/ link[record[r].source] = r
         \/ record[r].source \in torn
         \/ \E c \in Requests : op[c].rec = r /\ op[c].stage = "link"

\* A recurring task gets at most one successor each time it becomes done,
\* whoever completes, reopens or cancels it meanwhile, unless two commands
\* overlap or one was picked from an old list (ActionItems.py:2395-2590).
SuccessorOnce ==
    \A t \in Tasks : spawned[t] <= finished[t] \/ t \in raced
=============================================================================
