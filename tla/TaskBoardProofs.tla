--------------------------- MODULE TaskBoardProofs ---------------------------
(***************************************************************************)
(* For any tasks, records, requests and commands, however they overtake    *)
(* each other and wherever they are cut off: a success means that task and *)
(* record agree, no record is lost but by overlapping or broken requests,  *)
(* and a completion leaves at most one successor.                          *)
(***************************************************************************)
EXTENDS TaskBoard, TLAPS

Kinds == {"create", "look", "update", "done", "cancel"}

Holding == {"link", "owner", "check", "move", "end"}

Op == [kind : Kinds \cup {"none"}, task : Tasks \cup {"none"},
       stage : {"idle", "read", "find", "create"} \cup Holding,
       row : [status : Statuses \cup {"none"}, owner : Accounts],
       rec : Records \cup {NoRecord}, seen : ActionStates \cup {"none"},
       alone : BOOLEAN]

Shape ==
    /\ task \in [Tasks -> Row]
    /\ link \in [Tasks -> Records \cup {NoRecord}]
    /\ record \in [Records -> [state : ActionStates \cup {"none"}, owner : Accounts,
                               source : Tasks \cup {"none"}]]
    /\ op \in [Requests -> Op]
    /\ listed \subseteq Tasks
    /\ agreed \subseteq Tasks /\ torn \subseteq Tasks

\* What a request under way knows of its task, its row and its record.
OpSound(c) ==
    /\ op[c].task \in Tasks
    /\ task[op[c].task].status # "none"
    /\ op[c].stage # "read" => op[c].row.status \in Statuses
    /\ op[c].stage \in Holding =>
         /\ op[c].rec \in Records
         /\ record[op[c].rec].state # "none"
         /\ record[op[c].rec].source = op[c].task

OpsSound == \A c \in Requests : op[c].stage # "idle" => OpSound(c)

LinksSound ==
    \A t \in Tasks :
       /\ link[t] # NoRecord => /\ record[link[t]].state # "none"
                                /\ record[link[t]].source = t
       /\ task[t].status = "none" => link[t] = NoRecord

RecordsSound ==
    \A r \in Records : record[r].state = "none" => record[r] = Blank

BoardInv == Shape /\ OpsSound /\ LinksSound /\ RecordsSound

\* All that the other requests about a task may lose is being alone.
Carries(new, old) ==
    /\ new.kind = old.kind /\ new.task = old.task /\ new.stage = old.stage
    /\ new.row = old.row /\ new.rec = old.rec /\ new.seen = old.seen

LEMMA StatesAreActionStates ==
    /\ \A s \in ActionStates : ActionNext(s) \subseteq ActionStates
    /\ \A row : row.status \in Statuses => StateFromRow(row) \in ActionStates
    /\ "none" \notin ActionStates /\ "none" \notin Statuses
  BY DEF ActionNext, ActionStates, StateFromRow, Statuses, OpenStatuses

LEMMA TargetIsActionState ==
    ASSUME NEW c \in Requests, op[c].row.status \in Statuses
    PROVE  Target(c) \in ActionStates
  BY StatesAreActionStates DEF Target, ActionStates

\* What a step has to keep for everything in flight to stay sound.
Steady ==
    /\ \A t \in Tasks : task'[t].status = "none" => task[t].status = "none"
    /\ \A r \in Records :
         record[r].state # "none" => /\ record'[r].state # "none"
                                     /\ record'[r].source = record[r].source

LEMMA SteadyKeeps ==
    ASSUME BoardInv, Shape', Steady, LinksSound', RecordsSound',
           \A c \in Requests : \/ op'[c].stage = "idle"
                               \/ Carries(op'[c], op[c])
                               \/ OpSound(c)'
    PROVE  BoardInv'
<1> SUFFICES ASSUME NEW c \in Requests, op'[c].stage # "idle", Carries(op'[c], op[c])
             PROVE  OpSound(c)'
  BY DEF BoardInv, OpsSound
<1>1. OpSound(c)
  BY DEF BoardInv, OpsSound, Carries
<1> QED
  BY <1>1 DEF OpSound, Carries, Steady

\* A write of one task, by a request or by anybody else.
LEMMA TaskWritten ==
    ASSUME BoardInv, NEW t \in Tasks, NEW row \in Row, row.status # "none",
           task' = [task EXCEPT ![t] = row], op' \in [Requests -> Op],
           UNCHANGED <<link, record, listed>>, agreed' \subseteq Tasks,
           torn' \subseteq Tasks,
           \A c \in Requests : \/ op'[c].stage = "idle"
                               \/ op'[c].stage = "read" /\ op'[c].task = t
                               \/ Carries(op'[c], op[c])
    PROVE  BoardInv'
<1>1. task'[t] = row /\ \A s \in Tasks : s # t => task'[s] = task[s]
  BY DEF BoardInv, Shape
<1>2. Shape'
  BY DEF BoardInv, Shape
<1>3. Steady /\ LinksSound' /\ RecordsSound'
  BY <1>1 DEF BoardInv, LinksSound, RecordsSound, Steady, Blank
<1>4. \A c \in Requests : op'[c].stage = "read" /\ op'[c].task = t => OpSound(c)'
  BY <1>1 DEF OpSound, Holding
<1> QED
  BY <1>2, <1>3, <1>4, SteadyKeeps

\* A step of request c that writes no task.
LEMMA RequestStepKeeps ==
    ASSUME BoardInv, NEW c \in Requests, UNCHANGED <<task, listed>>, Shape',
           Steady, LinksSound', RecordsSound',
           op'[c].stage = "idle" \/ OpSound(c)',
           \A d \in Requests \ {c} : Carries(op'[d], op[d])
    PROVE  BoardInv'
  BY SteadyKeeps

LEMMA DisturbedOps ==
    ASSUME Shape, NEW t
    PROVE  /\ Disturbed(t) \in [Requests -> Op]
           /\ \A c \in Requests :
                /\ Carries(Disturbed(t)[c], op[c])
                /\ Disturbed(t)[c].alone => op[c].alone /\ op[c].task # t
<1>1. ASSUME NEW c \in Requests, NEW b \in BOOLEAN
      PROVE  /\ [op[c] EXCEPT !.alone = b] \in Op
             /\ Carries([op[c] EXCEPT !.alone = b], op[c])
             /\ [op[c] EXCEPT !.alone = b].alone = b
  BY DEF Shape, Op, Carries
<1>2. \A c \in Requests : (op[c].alone /\ op[c].task # t) \in BOOLEAN
  BY Zenon
<1> QED
  BY <1>1, <1>2, Zenon DEF Disturbed

LEMMA GoOnOps ==
    ASSUME BoardInv, NEW c \in Requests, NEW next \in Op, GoOn(c, next)
    PROVE  /\ op' \in [Requests -> Op] /\ op'[c] = next
           /\ \A d \in Requests \ {c} :
                /\ Carries(op'[d], op[d])
                /\ op'[d].alone => op[d].alone /\ op[d].task # op[c].task
<1>1. op' = [Disturbed(op[c].task) EXCEPT ![c] = next]
  BY DEF GoOn
<1> QED
  BY <1>1, DisturbedOps DEF BoardInv

LEMMA EnterOps ==
    ASSUME BoardInv, NEW c \in Requests, NEW kind \in Kinds, NEW t \in Tasks,
           Enter(c, kind, t)
    PROVE  /\ op' \in [Requests -> Op] /\ torn' \subseteq Tasks
           /\ op'[c].stage = "read" /\ op'[c].task = t /\ op'[c].kind = kind
           /\ op'[c].alone => kind # "look" /\ About(t) = {}
           /\ \A d \in Requests \ {c} :
                /\ Carries(op'[d], op[d])
                /\ op'[d].alone => op[d].alone /\ op[d].task # t
<1> DEFINE b == kind # "look" /\ About(t) = {}
           new == [Idle EXCEPT !.kind = kind, !.task = t, !.stage = "read", !.alone = b]
<1>1. ASSUME NEW x \in BOOLEAN
      PROVE  LET n == [Idle EXCEPT !.kind = kind, !.task = t, !.stage = "read",
                                   !.alone = x]
             IN  n \in Op /\ n.stage = "read" /\ n.task = t /\ n.kind = kind
                 /\ n.alone = x
  BY DEF Idle, Op, Unread, Accounts
<1>2. b \in BOOLEAN
  OBVIOUS
<1>3. op' = [Disturbed(t) EXCEPT ![c] = new]
  BY DEF Enter
<1>4. /\ new \in Op /\ new.stage = "read" /\ new.task = t /\ new.kind = kind
      /\ new.alone = b
  BY <1>1, <1>2, Zenon
<1> HIDE DEF new
<1>5. /\ op' \in [Requests -> Op] /\ op'[c] = new
      /\ \A d \in Requests \ {c} : op'[d] = Disturbed(t)[d]
  BY <1>3, <1>4, DisturbedOps DEF BoardInv
<1>6. torn' \subseteq Tasks
  BY DEF Enter, BoardInv, Shape
<1>7. op'[c].alone => b
  BY <1>4, <1>5
<1> QED
  BY <1>4, <1>5, <1>6, <1>7, DisturbedOps DEF BoardInv

LEMMA BeginKeeps ==
    ASSUME BoardInv, NEW c \in Requests, NEW kind \in Kinds, NEW t \in Tasks,
           NEW row \in Row, row.status # "none", Begin(c, kind, t, row)
    PROVE  BoardInv'
<1>1. Enter(c, kind, t) /\ agreed' \subseteq Tasks
  BY DEF Begin, BoardInv, Shape
<1>2. /\ op' \in [Requests -> Op] /\ torn' \subseteq Tasks
      /\ \A d \in Requests : \/ op'[d].stage = "read" /\ op'[d].task = t
                            \/ Carries(op'[d], op[d])
  BY <1>1, EnterOps
<1>3. UNCHANGED <<link, record, listed>> /\ task' = [task EXCEPT ![t] = row]
  BY <1>1 DEF Begin, Enter
<1> QED
  BY <1>1, <1>2, <1>3, TaskWritten

LEMMA WriteAloneKeeps ==
    ASSUME BoardInv, NEW t \in Tasks, NEW row \in Row, row.status # "none",
           WriteAlone(t, row), UNCHANGED listed
    PROVE  BoardInv'
<1>1. agreed' \subseteq Tasks /\ torn' \subseteq Tasks
  BY DEF WriteAlone, BoardInv, Shape
<1> QED
  BY <1>1, DisturbedOps, TaskWritten DEF WriteAlone, BoardInv

-----------------------------------------------------------------------------
(* The steps of the console, one by one.                                   *)

LEMMA Starts ==
    ASSUME BoardInv, NEW c \in Requests, NEW t \in Tasks,
           \/ CreateAction(c, t) \/ UpdateAction(c, t)
           \/ MarkActionDone(c, t) \/ CancelAction(c, t) \/ LookUpAction(c, t)
    PROVE  BoardInv'
<1>1. task[t] \in Row /\ {"done", "cancelled"} \subseteq Statuses
      /\ NoOwner \in Accounts /\ "none" \notin Statuses
  BY DEF BoardInv, Shape, Statuses, OpenStatuses, Accounts
<1>2. CASE CreateAction(c, t)
  <2>1. PICK owner \in Accounts :
          Begin(c, "create", t, [NoTask EXCEPT !.status = "todo", !.owner = owner])
    BY <1>2 DEF CreateAction
  <2> DEFINE row == [NoTask EXCEPT !.status = "todo", !.owner = owner]
  <2>2. row \in Row /\ row.status # "none"
    BY DEF Row, NoTask, Statuses, OpenStatuses, Accounts
  <2>3. Begin(c, "create", t, row)
    BY <2>1
  <2> HIDE DEF row
  <2> QED
    BY <2>2, <2>3, BeginKeeps DEF Kinds
<1>3. CASE UpdateAction(c, t)
  <2>1. PICK status \in Statuses, owner \in Accounts :
          Begin(c, "update", t, [task[t] EXCEPT !.status = status, !.owner = owner,
                                                !.idle = FALSE])
    BY <1>3 DEF UpdateAction
  <2> DEFINE row == [task[t] EXCEPT !.status = status, !.owner = owner, !.idle = FALSE]
  <2>2. row \in Row /\ row.status # "none"
    BY <1>1 DEF Row
  <2>3. Begin(c, "update", t, row)
    BY <2>1
  <2> HIDE DEF row
  <2> QED
    BY <2>2, <2>3, BeginKeeps DEF Kinds
<1>4. ASSUME NEW status \in {"done", "cancelled"}, NEW kind \in Kinds,
             Begin(c, kind, t, [task[t] EXCEPT !.status = status, !.idle = FALSE])
      PROVE  BoardInv'
  <2> DEFINE row == [task[t] EXCEPT !.status = status, !.idle = FALSE]
  <2>1. row \in Row /\ row.status # "none"
    BY <1>1 DEF Row
  <2>2. Begin(c, kind, t, row)
    BY <1>4
  <2> HIDE DEF row
  <2> QED
    BY <2>1, <2>2, BeginKeeps
<1>5. CASE MarkActionDone(c, t) \/ CancelAction(c, t)
  BY <1>4, <1>5 DEF MarkActionDone, CancelAction, Kinds
<1>6. CASE LookUpAction(c, t)
  <2>1. task[t].status # "none"
    BY <1>1, <1>6 DEF LookUpAction, Exists
  <2>2. Enter(c, "look", t) /\ UNCHANGED <<task, agreed, link, record, listed>>
    BY <1>6 DEF LookUpAction, Enter
  <2>3. task' = [task EXCEPT ![t] = task[t]] /\ agreed' \subseteq Tasks
    BY <2>2 DEF BoardInv, Shape
  <2>4. /\ op' \in [Requests -> Op] /\ torn' \subseteq Tasks
        /\ \A d \in Requests : \/ op'[d].stage = "read" /\ op'[d].task = t
                              \/ Carries(op'[d], op[d])
    BY <2>2, EnterOps DEF Kinds
  <2> QED
    BY <1>1, <2>1, <2>2, <2>3, <2>4, TaskWritten
<1> QED
  BY <1>2, <1>3, <1>5, <1>6

LEMMA ReadRowKeeps ==
    ASSUME BoardInv, NEW c \in Requests, ReadRow(c)
    PROVE  BoardInv'
<1>1. OpSound(c) /\ op[c] \in Op
  BY DEF ReadRow, BoardInv, OpsSound, Shape
<1> DEFINE t == op[c].task
           row == [status |-> task[t].status, owner |-> task[t].owner]
           new == IF Exists(t) THEN [op[c] EXCEPT !.row = row, !.stage = "find"]
                               ELSE Idle
<1>2. op' = [op EXCEPT ![c] = new]
  BY DEF ReadRow
<1>3. task[t] \in Row /\ t \in Tasks
  BY <1>1 DEF OpSound, BoardInv, Shape
<1>4. CASE Exists(t)
  <2>1. /\ new \in Op /\ new.stage = "find" /\ new.task = t
        /\ new.row.status = task[t].status
    BY <1>1, <1>3, <1>4 DEF Op, Row, Exists
  <2> HIDE DEF new
  <2>2. op'[c] = new /\ \A d \in Requests \ {c} : op'[d] = op[d]
    BY <1>2, <2>1 DEF BoardInv, Shape
  <2>3. UNCHANGED <<task, link, record, listed, agreed, torn>>
    BY DEF ReadRow, historyVars
  <2>4. Shape'
    BY <1>2, <2>1, <2>3 DEF BoardInv, Shape
  <2>5. Steady /\ LinksSound' /\ RecordsSound'
    BY <2>3 DEF BoardInv, Steady, LinksSound, RecordsSound
  <2>6. OpSound(c)'
    BY <1>1, <1>4, <2>1, <2>2, <2>3 DEF OpSound, Holding, Exists
  <2> QED
    BY <2>2, <2>3, <2>4, <2>5, <2>6, RequestStepKeeps DEF Carries
<1>5. CASE ~Exists(t)
  <2>1. new \in Op /\ new.stage = "idle"
    BY <1>5 DEF Op, Idle, Unread, Accounts
  <2> HIDE DEF new
  <2>2. op'[c].stage = "idle" /\ \A d \in Requests \ {c} : op'[d] = op[d]
    BY <1>2, <2>1 DEF BoardInv, Shape
  <2>3. UNCHANGED <<task, link, record, listed, agreed, torn>>
    BY DEF ReadRow, historyVars
  <2>4. Shape'
    BY <1>2, <2>1, <2>3 DEF BoardInv, Shape
  <2>5. Steady /\ LinksSound' /\ RecordsSound'
    BY <2>3 DEF BoardInv, Steady, LinksSound, RecordsSound
  <2> QED
    BY <2>2, <2>3, <2>4, <2>5, RequestStepKeeps DEF Carries
<1> QED
  BY <1>4, <1>5

LEMMA FindRecordKeeps ==
    ASSUME BoardInv, NEW c \in Requests, FindRecord(c)
    PROVE  BoardInv'
<1>1. OpSound(c) /\ op[c] \in Op
  BY DEF FindRecord, BoardInv, OpsSound, Shape
<1> DEFINE t == op[c].task
           r == Linked(t)
           new == IF r = NoRecord THEN [op[c] EXCEPT !.stage = "create"]
                  ELSE [op[c] EXCEPT !.rec = r, !.seen = record[r].state,
                                         !.stage = AfterRecord(op[c].kind)]
<1>2. op' = [op EXCEPT ![c] = new]
  BY DEF FindRecord
<1>3. /\ t \in Tasks /\ r = link[t]
      /\ r # NoRecord => /\ r \in Records /\ record[r].state \in ActionStates
                         /\ record[r].source = t
  BY <1>1 DEF OpSound, BoardInv, Shape, LinksSound, Linked
<1>4. /\ new \in Op /\ new.task = t /\ new.row = op[c].row
      /\ new.stage \in {"create"} \cup Holding
      /\ new.stage \in Holding => new.rec = r /\ r # NoRecord
  BY <1>1, <1>3 DEF Op, Holding, AfterRecord
<1> HIDE DEF new
<1>5. OpSound(c)'
  BY <1>1, <1>2, <1>3, <1>4, StatesAreActionStates
  DEF FindRecord, OpSound, BoardInv, Shape, Holding
<1>6. Shape' /\ Steady /\ LinksSound' /\ RecordsSound'
  BY <1>2, <1>4 DEF FindRecord, BoardInv, Shape, Steady, LinksSound, RecordsSound,
     historyVars
<1> QED
  BY <1>2, <1>5, <1>6, RequestStepKeeps DEF FindRecord, Carries, BoardInv, Shape

LEMMA CreateRecordKeeps ==
    ASSUME BoardInv, NEW c \in Requests, CreateRecord(c)
    PROVE  BoardInv'
<1>1. OpSound(c) /\ op[c] \in Op /\ op[c].task \in Tasks /\ op[c].row.status \in Statuses
  BY DEF CreateRecord, BoardInv, OpsSound, OpSound, Shape
<1> DEFINE state == StateFromRow(op[c].row)
<1>2. state \in ActionStates /\ state # "none"
  BY <1>1, StatesAreActionStates
<1>3. PICK r \in Records :
        /\ record[r] = Blank
        /\ record' = [record EXCEPT ![r] = [state |-> state, owner |-> op[c].row.owner,
                                            source |-> op[c].task]]
        /\ op' = [op EXCEPT ![c].rec = r, ![c].seen = state, ![c].stage = "link"]
  BY DEF CreateRecord, Inserted
<1> HIDE DEF state
<1> DEFINE new == [op[c] EXCEPT !.rec = r, !.seen = state, !.stage = "link"]
<1>4. op' = [op EXCEPT ![c] = new]
  BY <1>3 DEF BoardInv, Shape
<1>5. /\ new \in Op /\ new.task = op[c].task /\ new.stage = "link" /\ new.rec = r
      /\ new.row = op[c].row
  BY <1>1, <1>2 DEF Op, Holding
<1> HIDE DEF new
<1>6. op[c].row.owner \in Accounts
  BY <1>1 DEF Op
<1>7. /\ record'[r] = [state |-> state, owner |-> op[c].row.owner, source |-> op[c].task]
      /\ \A q \in Records : q # r => record'[q] = record[q]
  BY <1>3 DEF BoardInv, Shape
<1>8. Shape'
  <2>1. record'[r] \in [state : ActionStates \cup {"none"}, owner : Accounts,
                        source : Tasks \cup {"none"}]
    BY <1>1, <1>2, <1>6, <1>7
  <2>2. op' \in [Requests -> Op]
    BY <1>4, <1>5 DEF BoardInv, Shape
  <2> QED
    BY <1>3, <2>1, <2>2 DEF CreateRecord, BoardInv, Shape, historyVars
<1>9. Steady /\ LinksSound' /\ RecordsSound'
  <2>1. record[r].state = "none"
    BY <1>3 DEF Blank
  <2>2. record'[r].state # "none" /\ UNCHANGED <<task, link>>
    BY <1>2, <1>7 DEF CreateRecord
  <2>3. Steady
    BY <1>7, <2>1, <2>2 DEF Steady
  <2>4. LinksSound'
    BY <1>7, <2>1, <2>2 DEF LinksSound, BoardInv, Shape
  <2>5. RecordsSound'
    BY <1>7, <2>2 DEF RecordsSound, BoardInv, Blank
  <2> QED
    BY <2>3, <2>4, <2>5
<1>10. OpSound(c)'
  <2>1. op'[c] = new /\ task' = task
    BY <1>4 DEF CreateRecord, BoardInv, Shape
  <2> QED
    BY <1>1, <1>2, <1>5, <1>7, <2>1 DEF OpSound
<1> QED
  BY <1>4, <1>8, <1>9, <1>10, RequestStepKeeps DEF CreateRecord, Carries, BoardInv, Shape

LEMMA LinkRecordKeeps ==
    ASSUME BoardInv, NEW c \in Requests, LinkRecord(c)
    PROVE  BoardInv'
<1>1. OpSound(c) /\ op[c] \in Op
  BY DEF LinkRecord, BoardInv, OpsSound, Shape
<1> DEFINE t == op[c].task
           new == [op[c] EXCEPT !.stage = AfterRecord(op[c].kind)]
<1>2. GoOn(c, new)
  BY DEF LinkRecord, GoTo
<1>3. /\ new \in Op /\ new.task = t /\ new.row = op[c].row /\ new.rec = op[c].rec
      /\ new.stage \in {"end", "owner"}
  BY <1>1 DEF Op, Holding, AfterRecord
<1> HIDE DEF new
<1>4. /\ t \in Tasks /\ op[c].rec \in Records /\ record[op[c].rec].state # "none"
      /\ record[op[c].rec].source = t /\ task[t].status # "none"
  BY <1>1 DEF OpSound, LinkRecord, Holding
<1>5. /\ op' \in [Requests -> Op] /\ op'[c] = new
      /\ \A d \in Requests \ {c} : Carries(op'[d], op[d])
  BY <1>2, <1>3, GoOnOps
<1>6. /\ link'[t] = IF link[t] = NoRecord THEN op[c].rec ELSE link[t]
      /\ \A s \in Tasks : s # t => link'[s] = link[s]
      /\ link' \in [Tasks -> Records \cup {NoRecord}]
  BY <1>4 DEF LinkRecord, BoardInv, Shape
<1>7. OpSound(c)'
  BY <1>1, <1>3, <1>5 DEF OpSound, Holding, LinkRecord
<1>8. Shape' /\ Steady
  BY <1>5, <1>6 DEF LinkRecord, BoardInv, Shape, Steady, historyVars
<1>9. LinksSound' /\ RecordsSound'
  BY <1>4, <1>6 DEF LinkRecord, BoardInv, LinksSound, RecordsSound, Blank
<1> QED
  BY <1>5, <1>7, <1>8, <1>9, RequestStepKeeps DEF LinkRecord

\* A write of one field of a record that exists.
LEMMA RecordWritten ==
    ASSUME BoardInv, NEW r \in Records, record[r].state # "none",
           \/ \E owner \in Accounts : record' = [record EXCEPT ![r].owner = owner]
           \/ \E state \in ActionStates : record' = [record EXCEPT ![r].state = state],
           UNCHANGED <<task, link>>
    PROVE  /\ record' \in [Records -> [state : ActionStates \cup {"none"},
                                       owner : Accounts, source : Tasks \cup {"none"}]]
           /\ Steady /\ LinksSound' /\ RecordsSound'
           /\ record'[r].state # "none" /\ record'[r].source = record[r].source
           /\ \A q \in Records : q # r => record'[q] = record[q]
<1>1. /\ record'[r].state \in ActionStates /\ record'[r].source = record[r].source
      /\ record'[r].owner \in Accounts
      /\ record' \in [Records -> [state : ActionStates \cup {"none"},
                                  owner : Accounts, source : Tasks \cup {"none"}]]
      /\ \A q \in Records : q # r => record'[q] = record[q]
  BY DEF BoardInv, Shape
<1>2. Steady
  BY <1>1, StatesAreActionStates DEF Steady
<1>3. LinksSound'
  BY <1>1, StatesAreActionStates DEF LinksSound, BoardInv, Shape
<1>4. RecordsSound'
  BY <1>1, StatesAreActionStates DEF RecordsSound, BoardInv, Blank
<1> QED
  BY <1>1, <1>2, <1>3, <1>4, StatesAreActionStates

LEMMA UpdateRecordKeeps ==
    ASSUME BoardInv, NEW c \in Requests, UpdateRecord(c)
    PROVE  BoardInv'
<1>1. OpSound(c) /\ op[c] \in Op
  BY DEF UpdateRecord, BoardInv, OpsSound, Shape
<1> DEFINE r == op[c].rec
           new == [op[c] EXCEPT !.stage = IF op[c].seen = Target(c) THEN "end"
                                                                    ELSE "check"]
<1>2. GoOn(c, new)
  BY DEF UpdateRecord, GoTo
<1>3. /\ new \in Op /\ new.task = op[c].task /\ new.row = op[c].row /\ new.rec = r
      /\ new.stage \in {"end", "check"}
  BY <1>1 DEF Op, Holding
<1> HIDE DEF new
<1>4. r \in Records /\ record[r].state # "none" /\ op[c].row.owner \in Accounts
  BY <1>1 DEF OpSound, UpdateRecord, Holding, Op
<1>5. /\ op' \in [Requests -> Op] /\ op'[c] = new
      /\ \A d \in Requests \ {c} : Carries(op'[d], op[d])
  BY <1>2, <1>3, GoOnOps
<1>6. /\ record' \in [Records -> [state : ActionStates \cup {"none"},
                                  owner : Accounts, source : Tasks \cup {"none"}]]
      /\ Steady /\ LinksSound' /\ RecordsSound'
      /\ record'[r].state # "none" /\ record'[r].source = record[r].source
  BY <1>4, RecordWritten DEF UpdateRecord
<1>7. OpSound(c)'
  BY <1>1, <1>3, <1>5, <1>6 DEF OpSound, Holding, UpdateRecord
<1>8. Shape'
  BY <1>5, <1>6 DEF UpdateRecord, BoardInv, Shape, historyVars
<1> QED
  BY <1>5, <1>6, <1>7, <1>8, RequestStepKeeps DEF UpdateRecord

LEMMA CheckTransitionKeeps ==
    ASSUME BoardInv, NEW c \in Requests, CheckTransition(c)
    PROVE  BoardInv'
<1>1. OpSound(c) /\ op[c] \in Op
  BY DEF CheckTransition, BoardInv, OpsSound, Shape
<1> DEFINE new == [op[c] EXCEPT !.stage = "move"]
<1>2. op' = [op EXCEPT ![c] = new]
  BY DEF CheckTransition
<1>3. /\ new \in Op /\ new.task = op[c].task /\ new.row = op[c].row
      /\ new.rec = op[c].rec /\ new.stage = "move"
  BY <1>1 DEF Op, Holding
<1> HIDE DEF new
<1>4. OpSound(c)'
  BY <1>1, <1>2, <1>3 DEF CheckTransition, OpSound, Holding, BoardInv, Shape
<1>5. Shape' /\ Steady /\ LinksSound' /\ RecordsSound'
  BY <1>2, <1>3 DEF CheckTransition, BoardInv, Shape, Steady, LinksSound, RecordsSound,
     historyVars
<1> QED
  BY <1>2, <1>4, <1>5, RequestStepKeeps DEF CheckTransition, Carries, BoardInv, Shape

LEMMA MoveRecordKeeps ==
    ASSUME BoardInv, NEW c \in Requests, MoveRecord(c)
    PROVE  BoardInv'
<1>1. OpSound(c) /\ op[c] \in Op
  BY DEF MoveRecord, BoardInv, OpsSound, Shape
<1> DEFINE r == op[c].rec
           new == [op[c] EXCEPT !.stage = "end"]
<1>2. GoOn(c, new)
  BY DEF MoveRecord, GoTo
<1>3. /\ new \in Op /\ new.task = op[c].task /\ new.row = op[c].row /\ new.rec = r
      /\ new.stage = "end"
  BY <1>1 DEF Op, Holding
<1> HIDE DEF new
<1>4. r \in Records /\ record[r].state # "none" /\ Target(c) \in ActionStates
  BY <1>1, TargetIsActionState DEF OpSound, MoveRecord, Holding
<1>5. /\ op' \in [Requests -> Op] /\ op'[c] = new
      /\ \A d \in Requests \ {c} : Carries(op'[d], op[d])
  BY <1>2, <1>3, GoOnOps
<1>6. /\ record' \in [Records -> [state : ActionStates \cup {"none"},
                                  owner : Accounts, source : Tasks \cup {"none"}]]
      /\ Steady /\ LinksSound' /\ RecordsSound'
      /\ record'[r].state # "none" /\ record'[r].source = record[r].source
  BY <1>4, RecordWritten DEF MoveRecord
<1>7. OpSound(c)'
  BY <1>1, <1>3, <1>5, <1>6 DEF OpSound, Holding, MoveRecord
<1>8. Shape'
  BY <1>5, <1>6 DEF MoveRecord, BoardInv, Shape, historyVars
<1> QED
  BY <1>5, <1>6, <1>7, <1>8, RequestStepKeeps DEF MoveRecord

LEMMA EndsKeep ==
    ASSUME BoardInv, NEW c \in Requests, Succeed(c) \/ RequestFails(c) \/ CutOff(c),
           op[c].stage # "idle"
    PROVE  BoardInv'
<1>1. OpSound(c) /\ op[c].task \in Tasks
  BY DEF BoardInv, OpsSound, OpSound
<1>2. op' = [op EXCEPT ![c] = Idle] /\ Idle \in Op /\ Idle.stage = "idle"
  BY DEF Succeed, RequestFails, CutOff, Idle, Op, Unread, Accounts
<1>3. agreed' \subseteq Tasks /\ torn' \subseteq Tasks
  BY <1>1 DEF Succeed, RequestFails, CutOff, BoardInv, Shape
<1>4. UNCHANGED <<link, record, listed>>
  BY DEF Succeed, RequestFails, CutOff
<1>5. CASE task' = task
  <2>1. Shape' /\ Steady /\ LinksSound' /\ RecordsSound'
    BY <1>2, <1>3, <1>4, <1>5 DEF BoardInv, Shape, Steady, LinksSound, RecordsSound
  <2> QED
    BY <1>2, <1>4, <1>5, <2>1, RequestStepKeeps DEF Carries, BoardInv, Shape
<1>6. CASE task' = [task EXCEPT ![op[c].task] = [NoTask EXCEPT !.status = "deleted"]]
  <2> DEFINE gone == [NoTask EXCEPT !.status = "deleted"]
  <2>1. gone \in Row /\ gone.status # "none"
    BY DEF Row, NoTask, Accounts
  <2> HIDE DEF gone
  <2>2. /\ op' \in [Requests -> Op] /\ op'[c].stage = "idle"
        /\ \A d \in Requests \ {c} : Carries(op'[d], op[d])
    BY <1>2 DEF BoardInv, Shape, Carries
  <2>3. task' = [task EXCEPT ![op[c].task] = gone]
    BY <1>6 DEF gone
  <2> QED
    BY <1>1, <1>3, <1>4, <2>1, <2>2, <2>3, TaskWritten
<1> QED
  BY <1>5, <1>6 DEF Succeed, RequestFails, CutOff

-----------------------------------------------------------------------------
(* The steps of everybody else.                                            *)

\* Who writes the task alone: commands, lists, tools, meetings and jobs.
LEMMA WritersKeep ==
    ASSUME BoardInv, NEW t \in Tasks,
           \/ UpdateActionStatus(t) \/ Assign(t) \/ AutoAssign(t) \/ ActionAdd(t)
           \/ \E k \in Commands : CompleteByCommand(k) /\ command[k].task = t /\ Exists(t)
    PROVE  BoardInv'
<1>1. /\ task[t] \in Row /\ "none" \notin Statuses /\ UNCHANGED listed
      /\ {"todo", "blocked", "done"} \subseteq Statuses /\ OpenStatuses \subseteq Statuses
  BY DEF BoardInv, Shape, Statuses, OpenStatuses, UpdateActionStatus, Assign, AutoAssign,
     ActionAdd, CompleteByCommand
<1>2. ASSUME NEW status \in Statuses,
             WriteAlone(t, [task[t] EXCEPT !.status = status, !.idle = FALSE])
      PROVE  BoardInv'
  <2> DEFINE row == [task[t] EXCEPT !.status = status, !.idle = FALSE]
  <2>1. row \in Row /\ row.status # "none"
    BY <1>1 DEF Row
  <2>2. WriteAlone(t, row)
    BY <1>2
  <2> HIDE DEF row
  <2> QED
    BY <1>1, <2>1, <2>2, WriteAloneKeeps
<1>3. ASSUME NEW member \in BOOLEAN, NEW owner \in Accounts, task[t].status # "none",
             WriteAlone(t, [task[t] EXCEPT !.member = member, !.owner = owner,
                                           !.idle = FALSE])
      PROVE  BoardInv'
  <2> DEFINE row == [task[t] EXCEPT !.member = member, !.owner = owner, !.idle = FALSE]
  <2>1. row \in Row /\ row.status # "none"
    BY <1>1, <1>3 DEF Row
  <2>2. WriteAlone(t, row)
    BY <1>3
  <2> HIDE DEF row
  <2> QED
    BY <1>1, <2>1, <2>2, WriteAloneKeeps
<1>4. ASSUME NEW member \in BOOLEAN, NEW owner \in Accounts, NEW status \in Statuses,
             WriteAlone(t, [task[t] EXCEPT !.status = status, !.owner = owner,
                                           !.member = member])
      PROVE  BoardInv'
  <2> DEFINE row == [task[t] EXCEPT !.status = status, !.owner = owner, !.member = member]
  <2>1. row \in Row /\ row.status # "none"
    BY <1>1 DEF Row
  <2>2. WriteAlone(t, row)
    BY <1>4
  <2> HIDE DEF row
  <2> QED
    BY <1>1, <2>1, <2>2, WriteAloneKeeps
<1>5. CASE UpdateActionStatus(t)
  BY <1>2, <1>5 DEF UpdateActionStatus
<1>6. CASE Assign(t)
  BY <1>1, <1>3, <1>6 DEF Assign, Exists
<1>7. CASE AutoAssign(t)
  BY <1>1, <1>3, <1>7 DEF AutoAssign
<1>8. CASE ActionAdd(t)
  BY <1>1, <1>4, <1>8 DEF ActionAdd
<1>9. CASE \E k \in Commands : CompleteByCommand(k) /\ command[k].task = t /\ Exists(t)
  BY <1>1, <1>2, <1>9 DEF CompleteByCommand
<1> QED
  BY <1>5, <1>6, <1>7, <1>8, <1>9

LEMMA RecordAloneKeeps ==
    ASSUME BoardInv, NEW t \in Tasks, RecordAlone(t)
    PROVE  BoardInv'
<1> DEFINE r == link[t]
<1>1. r \in Records /\ record[r].state # "none" /\ record[r].state \in ActionStates
  BY DEF RecordAlone, BoardInv, Shape, LinksSound
<1>2. /\ record' \in [Records -> [state : ActionStates \cup {"none"},
                                  owner : Accounts, source : Tasks \cup {"none"}]]
      /\ Steady /\ LinksSound' /\ RecordsSound'
  <2>1. CASE \E state \in ActionNext(record[r].state) :
               record' = [record EXCEPT ![r].state = state]
    <3>1. \E state \in ActionStates : record' = [record EXCEPT ![r].state = state]
      BY <1>1, <2>1, StatesAreActionStates
    <3> QED
      BY <1>1, <3>1, RecordWritten DEF RecordAlone
  <2>2. CASE \E owner \in Accounts : record' = [record EXCEPT ![r].owner = owner]
    BY <1>1, <2>2, RecordWritten DEF RecordAlone
  <2> QED
    BY <2>1, <2>2 DEF RecordAlone
<1>3. op' \in [Requests -> Op] /\ \A c \in Requests : Carries(op'[c], op[c])
  BY DisturbedOps DEF RecordAlone, BoardInv
<1>4. Shape'
  BY <1>2, <1>3 DEF RecordAlone, BoardInv, Shape
<1> QED
  BY <1>2, <1>3, <1>4, SteadyKeeps

LEMMA JobsKeep ==
    ASSUME BoardInv, ListStale \/ CancelStale \/ \E t \in Tasks : Age(t)
    PROVE  BoardInv'
<1>1. CASE ListStale
  BY <1>1 DEF ListStale, BoardInv, Shape, OpsSound, OpSound, LinksSound, RecordsSound,
     historyVars
<1>2. CASE CancelStale
  <2>1. \A t \in Tasks : /\ task'[t] \in Row
                         /\ task'[t].status = "none" => task[t].status = "none"
    <3> TAKE t \in Tasks
    <3>1. task[t] \in Row
      BY DEF BoardInv, Shape
    <3>2. task'[t] = IF t \in listed /\ Exists(t)
                     THEN [task[t] EXCEPT !.status = "cancelled", !.idle = FALSE]
                     ELSE task[t]
      BY <1>2 DEF CancelStale
    <3> QED
      BY <3>1, <3>2 DEF Row, Statuses
  <2>2. ASSUME NEW c \in Requests
        PROVE  op'[c] \in Op /\ Carries(op'[c], op[c])
    <3>1. (op[c].alone /\ op[c].task \notin listed) \in BOOLEAN
      BY Zenon
    <3>2. ASSUME NEW b \in BOOLEAN
          PROVE  [op[c] EXCEPT !.alone = b] \in Op
                 /\ Carries([op[c] EXCEPT !.alone = b], op[c])
      BY DEF BoardInv, Shape, Op, Carries
    <3>3. op'[c] = [op[c] EXCEPT !.alone = op[c].alone /\ op[c].task \notin listed]
      BY <1>2, Zenon DEF CancelStale
    <3> QED
      BY <3>1, <3>2, <3>3, Zenon
  <2>3. DOMAIN op' = Requests /\ op' = [c \in Requests |-> op'[c]]
        /\ DOMAIN task' = Tasks /\ task' = [t \in Tasks |-> task'[t]]
    BY <1>2 DEF CancelStale
  <2>4. Shape' /\ Steady /\ LinksSound' /\ RecordsSound'
    BY <1>2, <2>1, <2>2, <2>3 DEF CancelStale, BoardInv, Shape, Steady, LinksSound,
       RecordsSound
  <2> QED
    BY <2>2, <2>4, SteadyKeeps
<1>3. ASSUME NEW t \in Tasks, Age(t)
      PROVE  BoardInv'
  <2> DEFINE row == [task[t] EXCEPT !.idle = TRUE]
  <2>1. row \in Row /\ row.status # "none"
    BY <1>3 DEF Age, BoardInv, Shape, Row
  <2>2. task' = [task EXCEPT ![t] = row]
    BY <1>3 DEF Age
  <2> HIDE DEF row
  <2> QED
    BY <1>3, <2>1, <2>2, TaskWritten DEF Age, historyVars, Carries, BoardInv, Shape
<1> QED
  BY <1>1, <1>2, <1>3

LEMMA NothingWritten ==
    ASSUME BoardInv, UNCHANGED <<task, link, record, op, listed, agreed, torn>>
    PROVE  BoardInv'
  BY DEF BoardInv, Shape, OpsSound, OpSound, LinksSound, RecordsSound

LEMMA CommandsKeep ==
    ASSUME BoardInv, NEW k \in Commands,
           \/ \E t \in Tasks : ActionDone(k, t) \/ ActionDoneByWord(k, t)
           \/ CompleteByCommand(k) /\ ~Exists(command[k].task)
           \/ SpawnNextRecurrence(k) \/ CommandEnds(k)
    PROVE  BoardInv'
  BY NothingWritten DEF ActionDone, ActionDoneByWord, CompleteByCommand,
     SpawnNextRecurrence, CommandEnds, boundVars, historyVars

LEMMA InitSound == Init => BoardInv
<1> SUFFICES ASSUME Init PROVE BoardInv
  OBVIOUS
<1>1. Shape
  BY DEF Init, Shape, Row, NoTask, Blank, Idle, Unread, Op, Accounts, Holding
<1> QED
  BY <1>1 DEF Init, BoardInv, OpsSound, LinksSound, RecordsSound, Blank, Idle, NoTask

-----------------------------------------------------------------------------
(* Successors. A command that is about to create one has a completion that *)
(* no successor stands for yet, and no other command is about to spend it. *)

Command == [task : Tasks \cup {"none"}, stage : {"idle", "write", "spawn"}]

InFlight(k, t) == command[k].stage # "idle" /\ command[k].task = t

Spends(t) ==
    /\ spawned[t] <= finished[t]
    /\ \A j, k \in Commands : InFlight(j, t) /\ InFlight(k, t) => j = k
    /\ \A k \in Commands :
         InFlight(k, t) /\ Exists(t)
         /\ (command[k].stage = "spawn" \/ task[t].status = "done")
           => spawned[t] < finished[t]

Successors ==
    /\ command \in [Commands -> Command]
    /\ spawned \in [Tasks -> Nat] /\ finished \in [Tasks -> Nat]
    /\ \A k \in Commands : command[k].stage # "idle" =>
         command[k].task \in Tasks /\ task[command[k].task].status # "none"
    /\ \A t \in Tasks \ raced : Spends(t)

\* A write of a task that is there, or that no command knows of yet.
LEMMA WritesSpare ==
    ASSUME BoardInv, Successors, NEW t \in Tasks, NEW row \in Row, row.status # "none",
           Exists(t) \/ task[t].status = "none",
           task' = [task EXCEPT ![t] = row], Finishes(t, row.status),
           UNCHANGED <<command, spawned, raced>>
    PROVE  Successors'
<1>1. task'[t] = row /\ \A s \in Tasks : s # t => task'[s] = task[s]
  BY DEF BoardInv, Shape
<1>2. /\ finished' \in [Tasks -> Nat]
      /\ finished'[t] = IF row.status = "done" /\ task[t].status # "done"
                        THEN finished[t] + 1 ELSE finished[t]
      /\ \A s \in Tasks : s # t => finished'[s] = finished[s]
  BY DEF Successors, Finishes
<1>3. ASSUME NEW s \in Tasks \ raced, s # t PROVE Spends(s)'
  BY <1>1, <1>2, <1>3 DEF Successors, Spends, InFlight, Exists
<1>4. ASSUME t \notin raced PROVE Spends(t)'
  <2>1. Spends(t) /\ spawned[t] \in Nat /\ finished[t] \in Nat
    BY <1>4 DEF Successors
  <2>2. \A k \in Commands : InFlight(k, t) => Exists(t)
    BY DEF Successors, InFlight
  <2> QED
    BY <1>1, <1>2, <2>1, <2>2 DEF Spends, InFlight, Exists
<1> QED
  BY <1>1, <1>2, <1>3, <1>4 DEF Successors

\* A step of requests, records and jobs that finishes no task.
LEMMA OthersSpare ==
    ASSUME BoardInv, Successors, UNCHANGED <<command, spawned, finished, raced>>,
           \A t \in Tasks : \/ task'[t].status = task[t].status
                            \/ task'[t].status \notin {"none", "done"}
                               /\ (Exists(t)' => Exists(t))
    PROVE  Successors'
  BY DEF Successors, Spends, InFlight, Exists

LEMMA WriteAloneSpares ==
    ASSUME BoardInv, Successors, NEW t \in Tasks, NEW row \in Row, row.status # "none",
           Exists(t) \/ task[t].status = "none", WriteAlone(t, row),
           UNCHANGED <<command, spawned, raced>>
    PROVE  Successors'
  BY WritesSpare DEF WriteAlone

LEMMA ActionDoneSpares ==
    ASSUME BoardInv, Successors, NEW k \in Commands, NEW t \in Tasks,
           ActionDone(k, t) \/ ActionDoneByWord(k, t)
    PROVE  Successors'
<1> DEFINE new == [task |-> t, stage |-> "write"]
<1>1. /\ command' = [command EXCEPT ![k] = new]
      /\ command[k].stage = "idle" /\ new \in Command
      /\ Exists(t) /\ task[t].status \notin {"none"}
      /\ UNCHANGED <<task, spawned, finished>>
  BY DEF ActionDone, ActionDoneByWord, CommandStep, Command, NotDone, Exists, Statuses,
     OpenStatuses
<1>2. /\ command' \in [Commands -> Command] /\ command'[k] = new
      /\ \A j \in Commands : j # k => command'[j] = command[j]
  BY <1>1 DEF Successors
<1>3. \A j \in Commands : command'[j].stage # "idle" =>
        command'[j].task \in Tasks /\ task'[command'[j].task].status # "none"
  BY <1>1, <1>2 DEF Successors
<1>4. ASSUME NEW s \in Tasks \ raced', s # t PROVE Spends(s)'
  BY <1>1, <1>2, <1>4 DEF Successors, Spends, InFlight, Exists, ActionDone,
     ActionDoneByWord
<1>5. ASSUME t \notin raced' PROVE Spends(t)'
  <2>1. ActionDone(k, t) /\ ~Overlapping(k, t) /\ raced' = raced
    BY <1>5 DEF ActionDone, ActionDoneByWord
  <2>2. Spends(t) /\ task[t].status # "done"
    BY <1>5, <2>1 DEF Successors, ActionDone, NotDone
  <2>3. \A j \in Commands : InFlight(j, t)' => j = k
    BY <1>2, <2>1 DEF Overlapping, InFlight
  <2> QED
    BY <1>1, <1>2, <2>2, <2>3 DEF Spends, InFlight
<1> QED
  BY <1>1, <1>2, <1>3, <1>4, <1>5 DEF Successors

LEMMA CompleteSpares ==
    ASSUME BoardInv, Successors, NEW k \in Commands, CompleteByCommand(k)
    PROVE  Successors'
<1>0. PICK t \in Tasks : t = command[k].task
  BY DEF CompleteByCommand, Successors
<1> DEFINE new == [task |-> t, stage |-> "spawn"]
           row == [task[t] EXCEPT !.status = "done", !.idle = FALSE]
<1>1. /\ command' = [command EXCEPT ![k] = new] /\ new \in Command
      /\ task[t].status # "none" /\ UNCHANGED <<spawned, raced>>
      /\ command[k].stage = "write"
  BY <1>0 DEF CompleteByCommand, CommandStep, Command, Successors
<1>2. /\ command' \in [Commands -> Command] /\ command'[k] = new
      /\ \A j \in Commands : j # k => command'[j] = command[j]
  BY <1>1 DEF Successors
<1>3. row \in Row /\ row.status = "done"
  BY <1>1 DEF BoardInv, Shape, Row, Statuses
<1>4. CASE Exists(t)
  <2>1. task' = [task EXCEPT ![t] = row] /\ Finishes(t, row.status)
    BY <1>0, <1>3, <1>4 DEF CompleteByCommand, WriteAlone
  <2> HIDE DEF row
  <2>2. task'[t] = row /\ \A s \in Tasks : s # t => task'[s] = task[s]
    BY <2>1 DEF BoardInv, Shape
  <2>3. /\ finished' \in [Tasks -> Nat]
        /\ finished'[t] = IF task[t].status # "done" THEN finished[t] + 1 ELSE finished[t]
        /\ \A s \in Tasks : s # t => finished'[s] = finished[s]
    BY <1>3, <2>1 DEF Successors, Finishes
  <2>4. ASSUME NEW s \in Tasks \ raced, s # t PROVE Spends(s)'
    BY <1>0, <1>1, <1>2, <2>2, <2>3, <2>4 DEF Successors, Spends, InFlight, Exists
  <2>5. ASSUME t \notin raced PROVE Spends(t)'
    <3>1. Spends(t) /\ spawned[t] \in Nat /\ finished[t] \in Nat /\ InFlight(k, t)
      BY <1>0, <1>1, <2>5 DEF Successors, InFlight
    <3>2. \A j \in Commands : InFlight(j, t)' => j = k
      BY <1>2, <3>1 DEF Spends, InFlight
    <3>3. spawned[t] < finished'[t]
      BY <1>4, <2>3, <3>1 DEF Spends
    <3> QED
      BY <1>1, <2>3, <3>1, <3>2, <3>3 DEF Spends
  <2> QED
    BY <1>1, <1>2, <1>3, <2>2, <2>3, <2>4, <2>5 DEF Successors
<1>5. CASE ~Exists(t)
  <2>1. UNCHANGED <<task, finished>>
    BY <1>0, <1>5 DEF CompleteByCommand
  <2>2. \A s \in Tasks \ raced : Spends(s)'
    BY <1>0, <1>1, <1>2, <1>5, <2>1 DEF Successors, Spends, InFlight, Exists
  <2> QED
    BY <1>1, <1>2, <2>1, <2>2 DEF Successors
<1> QED
  BY <1>4, <1>5

LEMMA SpawnSpares ==
    ASSUME BoardInv, Successors, NEW k \in Commands, SpawnNextRecurrence(k)
    PROVE  Successors'
<1>0. PICK t \in Tasks : t = command[k].task
  BY DEF SpawnNextRecurrence, Successors
<1>1. /\ command' = [command EXCEPT ![k] = Resting] /\ Resting \in Command
      /\ Resting.stage = "idle" /\ command[k].stage = "spawn"
      /\ UNCHANGED <<task, finished, raced>>
  BY DEF SpawnNextRecurrence, Command, Resting, Successors, historyVars
<1>2. /\ command' \in [Commands -> Command] /\ command'[k] = Resting
      /\ \A j \in Commands : j # k => command'[j] = command[j]
  BY <1>1 DEF Successors
<1>3. /\ spawned' \in [Tasks -> Nat]
      /\ spawned'[t] = IF Exists(t) THEN spawned[t] + 1 ELSE spawned[t]
      /\ \A s \in Tasks : s # t => spawned'[s] = spawned[s]
  BY <1>0, <1>1 DEF SpawnNextRecurrence, Successors
<1>4. ASSUME NEW s \in Tasks \ raced, s # t PROVE Spends(s)'
  BY <1>0, <1>1, <1>2, <1>3, <1>4 DEF Successors, Spends, InFlight, Exists
<1>5. ASSUME t \notin raced PROVE Spends(t)'
  <2>1. Spends(t) /\ spawned[t] \in Nat /\ finished[t] \in Nat /\ InFlight(k, t)
    BY <1>0, <1>1, <1>5 DEF Successors, InFlight
  <2>2. \A j \in Commands : ~InFlight(j, t)'
    BY <1>1, <1>2, <2>1 DEF Spends, InFlight
  <2>3. spawned'[t] <= finished[t]
    BY <1>1, <1>3, <2>1 DEF Spends
  <2> QED
    BY <1>1, <2>2, <2>3 DEF Spends
<1> QED
  BY <1>1, <1>2, <1>3, <1>4, <1>5 DEF Successors

LEMMA CommandEndsSpares ==
    ASSUME BoardInv, Successors, NEW k \in Commands, CommandEnds(k)
    PROVE  Successors'
<1>1. /\ command' = [command EXCEPT ![k] = Resting] /\ Resting \in Command
      /\ Resting.stage = "idle" /\ UNCHANGED <<task, spawned, finished, raced>>
  BY DEF CommandEnds, Command, Resting, historyVars
<1>2. /\ command' \in [Commands -> Command] /\ command'[k] = Resting
      /\ \A j \in Commands : j # k => command'[j] = command[j]
  BY <1>1 DEF Successors
<1> QED
  BY <1>1, <1>2 DEF Successors, Spends, InFlight, Exists

LEMMA StartsSpare ==
    ASSUME BoardInv, Successors, NEW c \in Requests, NEW t \in Tasks,
           \/ CreateAction(c, t) \/ UpdateAction(c, t)
           \/ MarkActionDone(c, t) \/ CancelAction(c, t) \/ LookUpAction(c, t)
    PROVE  Successors'
<1>1. /\ task[t] \in Row /\ "none" \notin Statuses
      /\ {"todo", "done", "cancelled"} \subseteq Statuses
  BY DEF BoardInv, Shape, Statuses, OpenStatuses
<1>2. ASSUME NEW kind, NEW row \in Row, row.status \in Statuses,
             Exists(t) \/ task[t].status = "none", Begin(c, kind, t, row)
      PROVE  Successors'
  BY <1>1, <1>2, WritesSpare DEF Begin, Enter
<1>3. CASE CreateAction(c, t)
  <2>1. PICK owner \in Accounts :
          Begin(c, "create", t, [NoTask EXCEPT !.status = "todo", !.owner = owner])
    BY <1>3 DEF CreateAction
  <2> DEFINE row == [NoTask EXCEPT !.status = "todo", !.owner = owner]
  <2>2. row \in Row /\ row.status \in Statuses
    BY <1>1 DEF Row, NoTask, Accounts
  <2>3. Begin(c, "create", t, row)
    BY <2>1
  <2> HIDE DEF row
  <2> QED
    BY <1>2, <1>3, <2>2, <2>3 DEF CreateAction
<1>4. CASE UpdateAction(c, t)
  <2>1. PICK status \in Statuses, owner \in Accounts :
          Begin(c, "update", t, [task[t] EXCEPT !.status = status, !.owner = owner,
                                                !.idle = FALSE])
    BY <1>4 DEF UpdateAction
  <2> DEFINE row == [task[t] EXCEPT !.status = status, !.owner = owner, !.idle = FALSE]
  <2>2. row \in Row /\ row.status \in Statuses
    BY <1>1 DEF Row
  <2>3. Begin(c, "update", t, row)
    BY <2>1
  <2> HIDE DEF row
  <2> QED
    BY <1>2, <1>4, <2>2, <2>3 DEF UpdateAction
<1>5. ASSUME NEW status \in {"done", "cancelled"}, NEW kind, Exists(t),
             Begin(c, kind, t, [task[t] EXCEPT !.status = status, !.idle = FALSE])
      PROVE  Successors'
  <2> DEFINE row == [task[t] EXCEPT !.status = status, !.idle = FALSE]
  <2>1. row \in Row /\ row.status \in Statuses
    BY <1>1 DEF Row
  <2>2. Begin(c, kind, t, row)
    BY <1>5
  <2> HIDE DEF row
  <2> QED
    BY <1>2, <1>5, <2>1, <2>2
<1>6. CASE MarkActionDone(c, t) \/ CancelAction(c, t)
  BY <1>5, <1>6 DEF MarkActionDone, CancelAction
<1>7. CASE LookUpAction(c, t)
  BY <1>7, OthersSpare DEF LookUpAction, Enter
<1> QED
  BY <1>3, <1>4, <1>6, <1>7

LEMMA RequestsSpare ==
    ASSUME BoardInv, Successors, NEW c \in Requests,
           \/ ReadRow(c) \/ FindRecord(c) \/ CreateRecord(c) \/ LinkRecord(c)
           \/ UpdateRecord(c) \/ CheckTransition(c) \/ MoveRecord(c) \/ Succeed(c)
           \/ CutOff(c) \/ (RequestFails(c) /\ op[c].stage # "idle")
    PROVE  Successors'
<1>1. CASE UNCHANGED <<task, command, spawned, finished, raced>>
  BY <1>1, OthersSpare
<1>2. CASE RequestFails(c) /\ op[c].stage # "idle"
  <2>1. op[c].task \in Tasks
    BY <1>2 DEF BoardInv, OpsSound, OpSound
  <2>2. \A t \in Tasks : \/ task'[t] = task[t]
                         \/ task'[t].status = "deleted"
    BY <1>2, <2>1 DEF RequestFails, NoTask, BoardInv, Shape
  <2>3. UNCHANGED <<command, spawned, finished, raced>>
    BY <1>2 DEF RequestFails
  <2> QED
    BY <2>2, <2>3, OthersSpare DEF Exists, Statuses, OpenStatuses
<1> QED
  BY <1>1, <1>2 DEF ReadRow, FindRecord, CreateRecord, LinkRecord, UpdateRecord,
     CheckTransition, MoveRecord, Succeed, CutOff, historyVars

LEMMA WritersSpare ==
    ASSUME BoardInv, Successors, NEW t \in Tasks,
           \/ UpdateActionStatus(t) \/ Assign(t) \/ AutoAssign(t) \/ ActionAdd(t)
    PROVE  Successors'
<1>1. /\ task[t] \in Row /\ "none" \notin Statuses /\ UNCHANGED <<command, spawned, raced>>
      /\ {"todo", "blocked"} \subseteq Statuses /\ OpenStatuses \subseteq Statuses
  BY DEF BoardInv, Shape, Statuses, OpenStatuses, UpdateActionStatus, Assign, AutoAssign,
     ActionAdd
<1>2. CASE UpdateActionStatus(t)
  <2>1. PICK status \in Statuses :
          WriteAlone(t, [task[t] EXCEPT !.status = status, !.idle = FALSE])
    BY <1>2 DEF UpdateActionStatus
  <2> DEFINE row == [task[t] EXCEPT !.status = status, !.idle = FALSE]
  <2>2. row \in Row /\ row.status # "none"
    BY <1>1 DEF Row
  <2>3. WriteAlone(t, row)
    BY <2>1
  <2> HIDE DEF row
  <2> QED
    BY <1>1, <1>2, <2>2, <2>3, WriteAloneSpares DEF UpdateActionStatus
<1>3. ASSUME NEW member \in BOOLEAN, NEW owner \in Accounts, Exists(t),
             WriteAlone(t, [task[t] EXCEPT !.member = member, !.owner = owner,
                                           !.idle = FALSE])
      PROVE  Successors'
  <2> DEFINE row == [task[t] EXCEPT !.member = member, !.owner = owner, !.idle = FALSE]
  <2>1. row \in Row /\ row.status # "none"
    BY <1>1, <1>3 DEF Row, Exists
  <2>2. WriteAlone(t, row)
    BY <1>3
  <2> HIDE DEF row
  <2> QED
    BY <1>1, <1>3, <2>1, <2>2, WriteAloneSpares
<1>4. CASE Assign(t)
  BY <1>3, <1>4 DEF Assign
<1>5. CASE AutoAssign(t)
  BY <1>1, <1>3, <1>5 DEF AutoAssign, Exists
<1>6. CASE ActionAdd(t)
  <2>1. PICK owner \in Accounts, member \in BOOLEAN, status \in {"todo", "blocked"} :
          WriteAlone(t, [task[t] EXCEPT !.status = status, !.owner = owner,
                                        !.member = member])
    BY <1>6 DEF ActionAdd
  <2> DEFINE row == [task[t] EXCEPT !.status = status, !.owner = owner, !.member = member]
  <2>2. row \in Row /\ row.status # "none"
    BY <1>1 DEF Row
  <2>3. WriteAlone(t, row)
    BY <2>1
  <2> HIDE DEF row
  <2> QED
    BY <1>1, <1>6, <2>2, <2>3, WriteAloneSpares DEF ActionAdd
<1> QED
  BY <1>2, <1>4, <1>5, <1>6

LEMMA JobsSpare ==
    ASSUME BoardInv, Successors,
           \/ ListStale \/ CancelStale
           \/ \E t \in Tasks : Age(t) \/ RecordAlone(t)
    PROVE  Successors'
<1>1. CASE ListStale \/ \E t \in Tasks : RecordAlone(t)
  BY <1>1, OthersSpare DEF ListStale, RecordAlone, historyVars
<1>2. CASE CancelStale
  <2>1. \A t \in Tasks : \/ task'[t].status = task[t].status
                         \/ task'[t].status = "cancelled" /\ Exists(t)
    BY <1>2 DEF CancelStale, BoardInv, Shape, Row
  <2> QED
    BY <1>2, <2>1, OthersSpare DEF CancelStale
<1>3. ASSUME NEW s \in Tasks, Age(s) PROVE Successors'
  <2>1. \A t \in Tasks : task'[t].status = task[t].status
    BY <1>3 DEF Age, BoardInv, Shape, Row
  <2> QED
    BY <1>3, <2>1, OthersSpare DEF Age, historyVars
<1> QED
  BY <1>1, <1>2, <1>3

-----------------------------------------------------------------------------
(* Together.                                                               *)

BoardAndCommands == BoardInv /\ Successors

LEMMA StepKeeps == BoardAndCommands /\ [Next]_vars => BoardAndCommands'
<1> SUFFICES ASSUME BoardInv, Successors, [Next]_vars
             PROVE  BoardInv' /\ Successors'
  BY DEF BoardAndCommands
<1>1. ASSUME NEW c \in Requests, NEW t \in Tasks,
             \/ CreateAction(c, t) \/ UpdateAction(c, t)
             \/ MarkActionDone(c, t) \/ CancelAction(c, t) \/ LookUpAction(c, t)
      PROVE  BoardInv' /\ Successors'
  BY <1>1, Starts, StartsSpare
<1>2. ASSUME NEW c \in Requests,
             \/ ReadRow(c) \/ FindRecord(c) \/ CreateRecord(c) \/ LinkRecord(c)
             \/ UpdateRecord(c) \/ CheckTransition(c) \/ MoveRecord(c)
      PROVE  BoardInv' /\ Successors'
  BY <1>2, ReadRowKeeps, FindRecordKeeps, CreateRecordKeeps, LinkRecordKeeps,
     UpdateRecordKeeps, CheckTransitionKeeps, MoveRecordKeeps, RequestsSpare
<1>3. ASSUME NEW c \in Requests, Succeed(c) \/ Refuse(c) \/ Fail(c) \/ CutOff(c)
      PROVE  BoardInv' /\ Successors'
  <2>1. op[c].stage # "idle" /\ (Succeed(c) \/ RequestFails(c) \/ CutOff(c))
    BY <1>3 DEF Succeed, Refuse, Fail, CutOff
  <2> QED
    BY <2>1, EndsKeep, RequestsSpare
<1>4. ASSUME NEW k \in Commands,
             \/ \E t \in Tasks : ActionDone(k, t) \/ ActionDoneByWord(k, t)
             \/ CompleteByCommand(k) \/ SpawnNextRecurrence(k) \/ CommandEnds(k)
      PROVE  BoardInv' /\ Successors'
  <2>1. CASE CompleteByCommand(k)
    <3>1. command[k].task \in Tasks
      BY <2>1 DEF CompleteByCommand, Successors
    <3> QED
      BY <2>1, <3>1, WritersKeep, CommandsKeep, CompleteSpares
  <2>2. CASE ~CompleteByCommand(k)
    BY <1>4, <2>2, CommandsKeep, ActionDoneSpares, SpawnSpares, CommandEndsSpares
  <2> QED
    BY <2>1, <2>2
<1>5. ASSUME NEW t \in Tasks,
             \/ UpdateActionStatus(t) \/ Assign(t) \/ AutoAssign(t) \/ ActionAdd(t)
             \/ Age(t) \/ RecordAlone(t)
      PROVE  BoardInv' /\ Successors'
  BY <1>5, WritersKeep, WritersSpare, JobsKeep, RecordAloneKeeps, JobsSpare
<1>6. CASE ListStale \/ CancelStale
  BY <1>6, JobsKeep, JobsSpare
<1>7. CASE UNCHANGED vars
  <2>1. BoardInv'
    BY <1>7, NothingWritten DEF vars, boardVars, historyVars
  <2> QED
    BY <1>7, <2>1, OthersSpare DEF vars, boardVars, historyVars
<1> QED
  BY <1>1, <1>2, <1>3, <1>4, <1>5, <1>6, <1>7 DEF Next

LEMMA BoardAndCommandsHold == Spec => []BoardAndCommands
<1>1. Init => BoardAndCommands
  <2> SUFFICES ASSUME Init PROVE BoardAndCommands
    OBVIOUS
  <2>1. Successors
    BY DEF Init, Successors, Command, Resting, Spends, InFlight
  <2> QED
    BY <2>1, InitSound DEF BoardAndCommands
<1> QED
  BY <1>1, StepKeeps, PTL DEF Spec

\* Tasks, records and everything in flight keep their shape, for any number of
\* them: a record is in a state of an action, whatever the task it is for has
\* been through (artifacts.py:136-215, operational_record_service.py:291-370).
THEOREM BoardTypes == Spec => []TypeOK
<1>1. BoardInv => TypeOK
  BY DEF BoardInv, Shape, OpsSound, OpSound, LinksSound, Op, Holding, TypeOK
<1> QED
  BY <1>1, BoardAndCommandsHold, PTL DEF BoardAndCommands

\* Any number of people may complete, reopen and cancel a recurring task by any
\* way there is: each time it became done leaves at most one successor, unless
\* two commands overlapped (ActionItems.py:2395-2590).
THEOREM OneSuccessorEach == Spec => []SuccessorOnce
<1>1. BoardAndCommands => SuccessorOnce
  BY DEF BoardAndCommands, Successors, Spends, SuccessorOnce
<1> QED
  BY <1>1, BoardAndCommandsHold, PTL

-----------------------------------------------------------------------------
(* Orphans. While nobody overlaps and nobody breaks off, there is one      *)
(* request about a task, and the one that creates a record links it.       *)

Busy(c, t) == op[c].stage # "idle" /\ op[c].task = t

Turn(t) ==
    /\ \A c, d \in Requests : Busy(c, t) /\ Busy(d, t) => c = d
    /\ \A c \in Requests : Busy(c, t) /\ op[c].stage \in {"create", "link"} =>
         link[t] = NoRecord

Traceable(r) ==
    /\ record[r].source \in Tasks
    /\ \/ link[record[r].source] = r
       \/ record[r].source \in torn
       \/ \E c \in Requests : op[c].rec = r /\ op[c].stage = "link"

Tracing ==
    /\ \A t \in Tasks \ torn : Turn(t)
    /\ \A r \in Records : record[r].state # "none" => Traceable(r)

\* A step that opens no request, creates and links nothing.
LEMMA TracesStay ==
    ASSUME BoardInv, BoardInv', Tracing, UNCHANGED link, torn \subseteq torn',
           \A r \in Records : record'[r].state # "none" =>
              record[r].state # "none" /\ record'[r].source = record[r].source,
           \A c \in Requests :
              \/ Carries(op'[c], op[c])
              \/ op'[c].stage = "idle" /\ (op[c].stage = "link" => op[c].task \in torn')
              \/ /\ op[c].stage \notin {"idle", "link"} /\ op'[c].task = op[c].task
                 /\ op'[c].stage \notin {"create", "link"}
              \/ /\ op[c].stage \notin {"idle", "link"} /\ op'[c].task = op[c].task
                 /\ op'[c].stage = "create" /\ link[op[c].task] = NoRecord
    PROVE  Tracing'
<1>1. ASSUME NEW t \in Tasks \ torn' PROVE Turn(t)'
  <2>1. Turn(t)
    BY DEF Tracing
  <2>2. \A c \in Requests : Busy(c, t)' => Busy(c, t)
    BY DEF Busy, Carries
  <2> QED
    BY <2>1, <2>2 DEF Turn, Busy, Carries
<1>2. ASSUME NEW r \in Records, record'[r].state # "none" PROVE Traceable(r)'
  <2>1. Traceable(r) /\ record'[r].source = record[r].source
    BY <1>2 DEF Tracing
  <2>2. ASSUME NEW c \in Requests, op[c].rec = r, op[c].stage = "link"
        PROVE  Traceable(r)'
    <3>1. op[c].task = record[r].source
      BY <2>2 DEF BoardInv, OpsSound, OpSound, Holding
    <3> QED
      BY <2>1, <2>2, <3>1 DEF Traceable, Carries
  <2> QED
    BY <2>1, <2>2 DEF Traceable
<1> QED
  BY <1>1, <1>2 DEF Tracing

LEMMA EnterTraces ==
    ASSUME BoardInv, BoardInv', Tracing, NEW c \in Requests, NEW kind \in Kinds,
           NEW t \in Tasks, Enter(c, kind, t)
    PROVE  Tracing'
<1>1. /\ op'[c].stage = "read" /\ op'[c].task = t
      /\ \A d \in Requests \ {c} : Carries(op'[d], op[d])
      /\ UNCHANGED <<link, record>> /\ op[c].stage = "idle"
      /\ torn' = IF About(t) = {} THEN torn ELSE torn \cup {t}
  BY EnterOps DEF Enter
<1>2. ASSUME NEW s \in Tasks \ torn' PROVE Turn(s)'
  <2>1. Turn(s)
    BY <1>1, <1>2 DEF Tracing
  <2>2. \A d \in Requests \ {c} : Busy(d, s)' => Busy(d, s)
    BY <1>1 DEF Busy, Carries
  <2>3. s = t => \A d \in Requests : ~Busy(d, s)
    BY <1>1, <1>2 DEF About, Busy
  <2> QED
    BY <1>1, <2>1, <2>2, <2>3 DEF Turn, Busy, Carries
<1>3. ASSUME NEW r \in Records, record'[r].state # "none" PROVE Traceable(r)'
  BY <1>1, <1>3 DEF Tracing, Traceable, Carries
<1> QED
  BY <1>2, <1>3 DEF Tracing

LEMMA CreateRecordTraces ==
    ASSUME BoardInv, BoardInv', Tracing, NEW c \in Requests, CreateRecord(c)
    PROVE  Tracing'
<1>1. op[c] \in Op /\ op[c].task \in Tasks
  BY DEF CreateRecord, BoardInv, OpsSound, OpSound, Shape
<1>2. PICK r \in Records :
        /\ record' = [record EXCEPT ![r] = [state |-> StateFromRow(op[c].row),
                            owner |-> op[c].row.owner, source |-> op[c].task]]
        /\ op' = [op EXCEPT ![c].rec = r, ![c].seen = StateFromRow(op[c].row),
                            ![c].stage = "link"]
  BY DEF CreateRecord, Inserted
<1>3. /\ record'[r].source = op[c].task
      /\ \A q \in Records : q # r => record'[q] = record[q]
  BY <1>2 DEF BoardInv, Shape
<1>4. /\ op'[c].rec = r /\ op'[c].stage = "link" /\ op'[c].task = op[c].task
      /\ \A d \in Requests : d # c => op'[d] = op[d]
  BY <1>1, <1>2 DEF BoardInv, Shape, Op
<1>5. op[c].stage = "create" /\ UNCHANGED <<link, torn>>
  BY DEF CreateRecord, historyVars
<1>6. ASSUME NEW t \in Tasks \ torn' PROVE Turn(t)'
  BY <1>4, <1>5, <1>6 DEF Tracing, Turn, Busy
<1>7. ASSUME NEW q \in Records, record'[q].state # "none" PROVE Traceable(q)'
  <2>1. CASE q = r
    BY <1>1, <1>3, <1>4, <2>1 DEF Traceable
  <2>2. CASE q # r
    BY <1>3, <1>4, <1>5, <1>7, <2>2 DEF Tracing, Traceable
  <2> QED
    BY <2>1, <2>2
<1> QED
  BY <1>6, <1>7 DEF Tracing

LEMMA LinkRecordTraces ==
    ASSUME BoardInv, BoardInv', Tracing, NEW c \in Requests, LinkRecord(c)
    PROVE  Tracing'
<1>0. PICK t \in Tasks : t = op[c].task
  BY DEF LinkRecord, BoardInv, OpsSound, OpSound
<1> DEFINE new == [op[c] EXCEPT !.stage = AfterRecord(op[c].kind)]
<1>1. /\ GoOn(c, new) /\ op[c].stage = "link" /\ UNCHANGED <<record, torn>>
      /\ link' = [link EXCEPT ![t] = IF @ = NoRecord THEN op[c].rec ELSE @]
  BY <1>0 DEF LinkRecord, GoTo, historyVars
<1>2. /\ new \in Op /\ new.task = t /\ new.stage \in {"end", "owner"}
  <2>1. op[c] \in Op
    BY DEF BoardInv, Shape
  <2> QED
    BY <1>0, <2>1 DEF Op, Holding, AfterRecord
<1> HIDE DEF new
<1>3. op'[c] = new /\ \A d \in Requests \ {c} : Carries(op'[d], op[d])
  BY <1>1, <1>2, GoOnOps
<1>4. /\ link'[t] = IF link[t] = NoRecord THEN op[c].rec ELSE link[t]
      /\ \A s \in Tasks : s # t => link'[s] = link[s]
  BY <1>1 DEF BoardInv, Shape
<1>5. ASSUME NEW s \in Tasks \ torn' PROVE Turn(s)'
  <2>1. Turn(s)
    BY <1>1, <1>5 DEF Tracing
  <2>2. \A d \in Requests : Busy(d, s)' => Busy(d, s)
    BY <1>0, <1>1, <1>2, <1>3 DEF Busy, Carries
  <2>3. s = t => \A d \in Requests : Busy(d, s)' => d = c
    BY <1>0, <1>1, <2>1, <2>2 DEF Turn, Busy
  <2> QED
    BY <1>2, <1>3, <1>4, <2>1, <2>2, <2>3 DEF Turn, Busy, Carries
<1>6. ASSUME NEW r \in Records, record'[r].state # "none" PROVE Traceable(r)'
  <2>1. Traceable(r)
    BY <1>1, <1>6 DEF Tracing
  <2>2. record[op[c].rec].source = t
    BY <1>0, <1>1 DEF BoardInv, OpsSound, OpSound, Holding
  <2>3. CASE op[c].rec = r
    <3>1. t \notin torn => link[t] = NoRecord
      BY <1>0, <1>1 DEF Tracing, Turn, Busy
    <3> QED
      BY <1>1, <1>4, <2>1, <2>2, <2>3, <3>1 DEF Traceable
  <2>4. CASE op[c].rec # r
    <3>1. link[record[r].source] = r => link'[record[r].source] = r
      BY <1>4, <2>1, BoardAssumption DEF Traceable
    <3>2. ASSUME NEW d \in Requests, op[d].rec = r, op[d].stage = "link"
          PROVE  op'[d].rec = r /\ op'[d].stage = "link"
      BY <1>3, <2>4, <3>2 DEF Carries
    <3> QED
      BY <1>1, <2>1, <3>1, <3>2 DEF Traceable
  <2> QED
    BY <2>3, <2>4
<1> QED
  BY <1>5, <1>6 DEF Tracing

LEMMA RequestsTrace ==
    ASSUME BoardInv, BoardInv', Tracing, NEW c \in Requests,
           \/ ReadRow(c) \/ FindRecord(c) \/ UpdateRecord(c) \/ CheckTransition(c)
           \/ MoveRecord(c)
    PROVE  Tracing'
<1>1. /\ UNCHANGED <<link, torn>> /\ op[c].stage \notin {"idle", "link"}
      /\ op[c] \in Op /\ OpSound(c)
  BY DEF ReadRow, FindRecord, UpdateRecord, CheckTransition, MoveRecord, historyVars,
     BoardInv, OpsSound, Shape
<1>2. \A r \in Records : record'[r].state # "none" =>
         record[r].state # "none" /\ record'[r].source = record[r].source
  <2>1. CASE UpdateRecord(c) \/ MoveRecord(c)
    <3>1. op[c].rec \in Records /\ record[op[c].rec].state # "none"
      BY <1>1, <2>1 DEF OpSound, UpdateRecord, MoveRecord, Holding
    <3> QED
      BY <2>1, <3>1 DEF UpdateRecord, MoveRecord, BoardInv, Shape
  <2>2. CASE UNCHANGED record
    BY <2>2
  <2> QED
    BY <2>1, <2>2 DEF ReadRow, FindRecord, CheckTransition
<1>3. ASSUME NEW next \in Op, GoOn(c, next), next.task = op[c].task,
             next.stage \in {"end", "check"}
      PROVE  Tracing'
  <2>1. op'[c] = next /\ \A d \in Requests \ {c} : Carries(op'[d], op[d])
    BY <1>3, GoOnOps
  <2> QED
    BY <1>1, <1>2, <1>3, <2>1, TracesStay
<1>4. ASSUME NEW next \in Op, op' = [op EXCEPT ![c] = next],
             \/ next.stage = "idle"
             \/ next.task = op[c].task /\ next.stage \notin {"idle", "create", "link"}
             \/ next.task = op[c].task /\ next.stage = "create"
                /\ link[op[c].task] = NoRecord
      PROVE  Tracing'
  <2>1. op'[c] = next /\ \A d \in Requests \ {c} : Carries(op'[d], op[d])
    BY <1>4 DEF BoardInv, Shape, Carries
  <2> QED
    BY <1>1, <1>2, <1>4, <2>1, TracesStay
<1>5. CASE ReadRow(c)
  <2> DEFINE row == [status |-> task[op[c].task].status, owner |-> task[op[c].task].owner]
             new == IF Exists(op[c].task)
                    THEN [op[c] EXCEPT !.row = row, !.stage = "find"] ELSE Idle
  <2>1. op' = [op EXCEPT ![c] = new]
    BY <1>5 DEF ReadRow
  <2>2. CASE Exists(op[c].task)
    <3>1. task[op[c].task] \in Row
      BY <1>1 DEF OpSound, BoardInv, Shape
    <3>2. new \in Op /\ new.stage = "find" /\ new.task = op[c].task
      BY <1>1, <2>2, <3>1 DEF Op, Row, Exists
    <3> HIDE DEF new
    <3> QED
      BY <1>4, <2>1, <3>2
  <2>3. CASE ~Exists(op[c].task)
    <3>1. new \in Op /\ new.stage = "idle"
      BY <2>3 DEF Op, Idle, Unread, Accounts
    <3> HIDE DEF new
    <3> QED
      BY <1>4, <2>1, <3>1
  <2> QED
    BY <2>2, <2>3
<1>6. CASE FindRecord(c)
  <2> DEFINE r == Linked(op[c].task)
             new == IF r = NoRecord THEN [op[c] EXCEPT !.stage = "create"]
                    ELSE [op[c] EXCEPT !.rec = r, !.seen = record[r].state,
                                       !.stage = AfterRecord(op[c].kind)]
  <2>1. op' = [op EXCEPT ![c] = new]
    BY <1>6 DEF FindRecord
  <2>2. /\ r = link[op[c].task]
        /\ r # NoRecord => r \in Records /\ record[r].state \in ActionStates
    BY <1>1 DEF OpSound, BoardInv, Shape, LinksSound, Linked
  <2>3. new \in Op
    BY <1>1, <2>2 DEF Op, Holding, AfterRecord
  <2>4. /\ new.task = op[c].task
        /\ (new.stage = "create" /\ r = NoRecord) \/ new.stage \in {"end", "owner"}
    BY <1>1, <2>2 DEF Op, AfterRecord
  <2> HIDE DEF new
  <2> QED
    BY <1>4, <2>1, <2>2, <2>3, <2>4
<1>7. CASE UpdateRecord(c)
  <2> DEFINE new == [op[c] EXCEPT !.stage = IF op[c].seen = Target(c) THEN "end"
                                                                      ELSE "check"]
  <2>1. GoOn(c, new)
    BY <1>7 DEF UpdateRecord, GoTo
  <2>2. new \in Op /\ new.task = op[c].task /\ new.stage \in {"end", "check"}
    BY <1>1 DEF Op, Holding
  <2> HIDE DEF new
  <2> QED
    BY <1>3, <2>1, <2>2
<1>8. CASE CheckTransition(c)
  <2> DEFINE new == [op[c] EXCEPT !.stage = "move"]
  <2>1. op' = [op EXCEPT ![c] = new]
    BY <1>8 DEF CheckTransition
  <2>2. new \in Op /\ new.task = op[c].task /\ new.stage = "move"
    BY <1>1 DEF Op, Holding
  <2> HIDE DEF new
  <2> QED
    BY <1>4, <2>1, <2>2
<1>9. CASE MoveRecord(c)
  <2> DEFINE new == [op[c] EXCEPT !.stage = "end"]
  <2>1. GoOn(c, new)
    BY <1>9 DEF MoveRecord, GoTo
  <2>2. new \in Op /\ new.task = op[c].task /\ new.stage = "end"
    BY <1>1 DEF Op, Holding
  <2> HIDE DEF new
  <2> QED
    BY <1>3, <2>1, <2>2
<1> QED
  BY <1>5, <1>6, <1>7, <1>8, <1>9

LEMMA EndsTrace ==
    ASSUME BoardInv, BoardInv', Tracing, NEW c \in Requests, op[c].stage # "idle",
           Succeed(c) \/ RequestFails(c) \/ CutOff(c)
    PROVE  Tracing'
<1>1. /\ op' = [op EXCEPT ![c] = Idle] /\ UNCHANGED <<link, record>>
      /\ torn \subseteq torn'
      /\ op[c].stage = "link" => op[c].task \in torn'
  BY DEF Succeed, RequestFails, CutOff
<1>2. op'[c].stage = "idle" /\ \A d \in Requests \ {c} : Carries(op'[d], op[d])
  BY <1>1 DEF BoardInv, Shape, Idle, Carries
<1> QED
  BY <1>1, <1>2, TracesStay

LEMMA OthersTrace ==
    ASSUME BoardInv, BoardInv', Tracing,
           \/ \E k \in Commands :
                \/ \E t \in Tasks : ActionDone(k, t) \/ ActionDoneByWord(k, t)
                \/ CompleteByCommand(k) \/ SpawnNextRecurrence(k) \/ CommandEnds(k)
           \/ \E t \in Tasks :
                \/ UpdateActionStatus(t) \/ Assign(t) \/ AutoAssign(t) \/ ActionAdd(t)
                \/ Age(t) \/ RecordAlone(t)
           \/ ListStale \/ CancelStale \/ UNCHANGED vars
    PROVE  Tracing'
<1>1. UNCHANGED <<link, torn>>
  BY DEF ActionDone, ActionDoneByWord, CompleteByCommand, SpawnNextRecurrence,
     CommandEnds, UpdateActionStatus, Assign, AutoAssign, ActionAdd, Age, RecordAlone,
     ListStale, CancelStale, WriteAlone, vars, boardVars, historyVars
<1>2. \A r \in Records : record'[r].state # "none" =>
         record[r].state # "none" /\ record'[r].source = record[r].source
  <2>1. CASE \E t \in Tasks : RecordAlone(t)
    <3>1. PICK t \in Tasks : RecordAlone(t)
      BY <2>1
    <3>2. link[t] \in Records /\ record[link[t]].state # "none"
      BY <3>1 DEF RecordAlone, BoardInv, Shape, LinksSound
    <3> QED
      BY <3>1, <3>2 DEF RecordAlone, BoardInv, Shape
  <2>2. CASE UNCHANGED record
    BY <2>2
  <2> QED
    BY <2>1, <2>2 DEF ActionDone, ActionDoneByWord, CompleteByCommand, CommandEnds,
       SpawnNextRecurrence, UpdateActionStatus, Assign, AutoAssign, ActionAdd, Age,
       ListStale, CancelStale, WriteAlone, vars, boardVars
<1>3. \A c \in Requests : Carries(op'[c], op[c])
  <2>1. CASE UNCHANGED op
    BY <2>1 DEF Carries
  <2>3. CASE CancelStale
    <3> SUFFICES ASSUME NEW c \in Requests PROVE Carries(op'[c], op[c])
      OBVIOUS
    <3>1. ASSUME NEW b PROVE Carries([op[c] EXCEPT !.alone = b], op[c])
      BY DEF BoardInv, Shape, Op, Carries
    <3>2. op'[c] = [op[c] EXCEPT !.alone = op[c].alone /\ op[c].task \notin listed]
      BY <2>3, Zenon DEF CancelStale
    <3> QED
      BY <3>1, <3>2, Zenon
  <2>4. UNCHANGED op \/ (\E t : op' = Disturbed(t)) \/ CancelStale
    BY DEF ActionDone, ActionDoneByWord, CompleteByCommand, SpawnNextRecurrence,
       CommandEnds, UpdateActionStatus, Assign, AutoAssign, ActionAdd, Age, RecordAlone,
       ListStale, WriteAlone, vars, boardVars
  <2> QED
    BY <2>1, <2>3, <2>4, DisturbedOps DEF BoardInv
<1> QED
  BY <1>1, <1>2, <1>3, TracesStay

LEMMA NextTraces ==
    ASSUME BoardAndCommands, Tracing, [Next]_vars
    PROVE  Tracing'
<1>1. BoardInv /\ BoardInv'
  BY StepKeeps DEF BoardAndCommands
<1>2. ASSUME NEW c \in Requests, NEW t \in Tasks,
             \/ CreateAction(c, t) \/ UpdateAction(c, t)
             \/ MarkActionDone(c, t) \/ CancelAction(c, t) \/ LookUpAction(c, t)
      PROVE  Tracing'
  <2>1. \E kind \in Kinds : Enter(c, kind, t)
    BY <1>2 DEF CreateAction, UpdateAction, MarkActionDone, CancelAction, LookUpAction,
       Begin, Kinds
  <2> QED
    BY <1>1, <2>1, EnterTraces
<1>3. ASSUME NEW c \in Requests, Succeed(c) \/ Refuse(c) \/ Fail(c) \/ CutOff(c)
      PROVE  Tracing'
  <2>1. op[c].stage # "idle" /\ (Succeed(c) \/ RequestFails(c) \/ CutOff(c))
    BY <1>3 DEF Succeed, Refuse, Fail, CutOff
  <2> QED
    BY <1>1, <2>1, EndsTrace
<1>4. ASSUME NEW c \in Requests,
             \/ ReadRow(c) \/ FindRecord(c) \/ CreateRecord(c) \/ LinkRecord(c)
             \/ UpdateRecord(c) \/ CheckTransition(c) \/ MoveRecord(c)
      PROVE  Tracing'
  BY <1>1, <1>4, RequestsTrace, CreateRecordTraces, LinkRecordTraces
<1> QED
  BY <1>1, <1>2, <1>3, <1>4, OthersTrace DEF Next

\* However many requests there are, a record made for a task can be found from
\* the task, but for the ones that overlapping or broken requests lose
\* (artifacts.py:165-215, operational_record_service.py:291-310).
THEOREM NothingOrphaned == Spec => []NoOrphans
<1>1. Init => BoardAndCommands /\ Tracing
  <2> SUFFICES ASSUME Init PROVE Successors /\ Tracing
    BY InitSound DEF BoardAndCommands
  <2> QED
    BY DEF Init, Successors, Command, Resting, Spends, InFlight, Tracing, Turn, Busy,
       Idle, Blank
<1>2. BoardAndCommands /\ Tracing => NoOrphans
  BY DEF BoardAndCommands, BoardInv, RecordsSound, Tracing, Traceable, NoOrphans
<1>3. (BoardAndCommands /\ Tracing) /\ [Next]_vars => (BoardAndCommands /\ Tracing)'
  BY StepKeeps, NextTraces
<1> QED
  BY <1>1, <1>2, <1>3, PTL DEF Spec

-----------------------------------------------------------------------------
(* Agreement. A request that is alone knows the row its task still has, and *)
(* at each stage what the record already says of it.                       *)

Wanted(c) == StateFromRow(op[c].row)

Lone(c, t) ==
    /\ t \notin agreed /\ Exists(t)
    /\ op[c].kind # "look"
    /\ \A d \in Requests : Busy(d, t) => d = c
    /\ op[c].kind = "done" => task[t].status = "done"
    /\ op[c].kind = "cancel" => task[t].status = "cancelled"
    /\ op[c].kind = "create" /\ op[c].stage \in {"read", "find"} => link[t] = NoRecord
    /\ op[c].stage # "read" =>
         op[c].row.status = task[t].status /\ op[c].row.owner = task[t].owner
    /\ op[c].stage \in {"create", "link"} => link[t] = NoRecord
    /\ op[c].stage = "link" => /\ record[op[c].rec].state = Wanted(c)
                               /\ record[op[c].rec].owner = op[c].row.owner
                               /\ op[c].seen = Wanted(c)
    /\ op[c].stage \in {"owner", "check", "move", "end"} => link[t] = op[c].rec
    /\ op[c].stage = "owner" => record[op[c].rec].state = op[c].seen
    /\ op[c].stage \in {"check", "move", "end"} =>
         record[op[c].rec].owner = op[c].row.owner
    /\ op[c].stage = "end" => record[op[c].rec].state = Wanted(c)

Agrees(t) ==
    /\ Exists(t)
    /\ link[t] # NoRecord
    /\ record[link[t]].state = StateFromRow(task[t])
    /\ record[link[t]].owner = task[t].owner
    /\ \A c \in Requests : Busy(c, t) =>
         op[c].kind = "look" /\ op[c].stage \in {"read", "find", "end"}

Agreeing ==
    /\ \A t \in agreed : Agrees(t)
    /\ \A c \in Requests, t \in Tasks : Busy(c, t) /\ op[c].alone => Lone(c, t)

LEMMA SameTarget ==
    ASSUME NEW c \in Requests, op[c].kind = "done" => op[c].row.status = "done",
           op[c].kind = "cancel" => op[c].row.status = "cancelled"
    PROVE  Target(c) = Wanted(c)
  BY DEF Target, Wanted, StateFromRow

\* A step leaves alone what is agreed on t and what a lone request about t knows.
Spared(t) ==
    /\ task'[t].status = task[t].status /\ task'[t].owner = task[t].owner
    /\ link'[t] = link[t]
    /\ \A r \in Records : record[r].state # "none" /\ record[r].source = t =>
         record'[r] = record[r]

LEMMA AgreementSpared ==
    ASSUME BoardInv, NEW t \in Tasks, Agrees(t), Spared(t),
           \A c \in Requests : Busy(c, t)' =>
              op'[c].kind = "look" /\ op'[c].stage \in {"read", "find", "end"}
    PROVE  Agrees(t)'
<1>1. link[t] \in Records /\ record[link[t]].state # "none" /\ record[link[t]].source = t
  BY DEF Agrees, BoardInv, Shape, LinksSound
<1>2. StateFromRow(task[t])' = StateFromRow(task[t])
  BY DEF Spared, StateFromRow
<1> QED
  BY <1>1, <1>2 DEF Agrees, Spared, Exists

LEMMA LoneSpared ==
    ASSUME BoardInv, NEW c \in Requests, NEW t \in Tasks, Busy(c, t), Lone(c, t),
           Spared(t), t \notin agreed', Carries(op'[c], op[c]),
           \A d \in Requests : Busy(d, t)' => d = c
    PROVE  Lone(c, t)'
<1>1. op[c].stage \in Holding =>
        /\ op[c].rec \in Records /\ record[op[c].rec].state # "none"
        /\ record[op[c].rec].source = t
  BY DEF BoardInv, OpsSound, OpSound, Busy
<1>2. Wanted(c)' = Wanted(c)
  BY DEF Carries, Wanted, StateFromRow
<1>3. op[c].stage \in Holding => record'[op[c].rec] = record[op[c].rec]
  BY <1>1 DEF Spared
<1> QED
  BY <1>2, <1>3 DEF Lone, Spared, Carries, Busy, Exists, Holding

\* A step of the requests C, which are about T, that touches no task but T.
LEMMA OthersSpared ==
    ASSUME BoardInv, BoardInv', Agreeing, NEW T \in SUBSET Tasks,
           NEW C \in SUBSET Requests, \A t \in Tasks \ T : Spared(t),
           agreed' \ T = agreed \ T,
           \A c \in C : op'[c].stage = "idle" \/ op'[c].task \in T,
           \A d \in Requests \ C :
              /\ Carries(op'[d], op[d])
              /\ op'[d].alone => /\ op[d].alone
                                 /\ \/ op[d].task \notin T
                                    \/ \E c \in C : Busy(c, op[d].task),
           \A t \in T : t \in agreed' => Agrees(t)',
           \A c \in C, t \in T : Busy(c, t)' /\ op'[c].alone => Lone(c, t)'
    PROVE  Agreeing'
<1>1. ASSUME NEW t \in agreed' PROVE Agrees(t)'
  <2>1. CASE t \in T
    BY <2>1
  <2>2. CASE t \notin T
    <3>1. t \in agreed /\ t \in Tasks /\ Agrees(t)
      BY <2>2 DEF Agreeing, BoardInv, Shape
    <3>2. \A d \in Requests : Busy(d, t)' => d \notin C
      BY <2>2 DEF Busy
    <3>3. \A d \in Requests : Busy(d, t)' =>
            op'[d].kind = "look" /\ op'[d].stage \in {"read", "find", "end"}
      BY <3>1, <3>2 DEF Agrees, Busy, Carries
    <3> QED
      BY <2>2, <3>1, <3>3, AgreementSpared
  <2> QED
    BY <2>1, <2>2
<1>2. ASSUME NEW d \in Requests, NEW t \in Tasks, Busy(d, t)', op'[d].alone
      PROVE  Lone(d, t)'
  <2>1. CASE d \in C
    BY <1>2, <2>1 DEF Busy
  <2>2. CASE d \notin C
    <3>1. /\ Busy(d, t) /\ op[d].alone /\ op[d].task = t
          /\ t \notin T \/ \E c \in C : Busy(c, t)
      BY <1>2, <2>2 DEF Carries, Busy
    <3>2. Lone(d, t)
      BY <3>1 DEF Agreeing
    <3>3. t \notin T
      BY <2>2, <3>1, <3>2 DEF Lone
    <3>4. t \notin agreed'
      BY <3>2, <3>3 DEF Lone
    <3>5. \A e \in Requests : Busy(e, t)' => e = d
      BY <3>2, <3>3 DEF Lone, Busy, Carries
    <3> QED
      BY <2>2, <3>1, <3>2, <3>3, <3>4, <3>5, LoneSpared
  <2> QED
    BY <2>1, <2>2
<1> QED
  BY <1>1, <1>2 DEF Agreeing

\* A step of one request about one task.
LEMMA OneSpared ==
    ASSUME BoardInv, BoardInv', Agreeing, NEW c \in Requests, NEW t \in Tasks,
           \A s \in Tasks \ {t} : Spared(s),
           \A s \in Tasks \ {t} : s \in agreed' <=> s \in agreed,
           op'[c].stage = "idle" \/ op'[c].task = t,
           \A d \in Requests \ {c} :
              /\ Carries(op'[d], op[d])
              /\ op'[d].alone => op[d].alone /\ (op[d].task # t \/ Busy(c, t)),
           t \in agreed' => Agrees(t)',
           Busy(c, t)' /\ op'[c].alone => Lone(c, t)'
    PROVE  Agreeing'
<1> DEFINE T == {t}  C == {c}
<1>1. T \in SUBSET Tasks /\ C \in SUBSET Requests
  OBVIOUS
<1>2. (\A s \in Tasks \ T : Spared(s)) /\ agreed' \ T = agreed \ T
  BY DEF BoardInv, Shape
<1>3. \A e \in C : op'[e].stage = "idle" \/ op'[e].task \in T
  OBVIOUS
<1>4. \A d \in Requests \ C :
        /\ Carries(op'[d], op[d])
        /\ op'[d].alone => /\ op[d].alone
                           /\ \/ op[d].task \notin T
                              \/ \E e \in C : Busy(e, op[d].task)
  OBVIOUS
<1>5. \A s \in T : s \in agreed' => Agrees(s)'
  OBVIOUS
<1>6. \A e \in C, s \in T : Busy(e, s)' /\ op'[e].alone => Lone(e, s)'
  OBVIOUS
<1> HIDE DEF T, C
<1> QED
  BY <1>1, <1>2, <1>3, <1>4, <1>5, <1>6, OthersSpared

LEMMA BeginAgrees ==
    ASSUME BoardInv, BoardInv', Agreeing, NEW c \in Requests,
           NEW kind \in Kinds \ {"look"}, NEW t \in Tasks, NEW row \in Row,
           row.status \in Statuses, Begin(c, kind, t, row),
           kind = "create" => task[t].status = "none",
           kind = "done" => row.status = "done",
           kind = "cancel" => row.status = "cancelled"
    PROVE  Agreeing'
<1>1. Enter(c, kind, t) /\ agreed' = agreed \ {t} /\ UNCHANGED <<link, record>>
  BY DEF Begin, Enter
<1>2. task'[t] = row /\ \A s \in Tasks : s # t => task'[s] = task[s]
  BY DEF Begin, BoardInv, Shape
<1>3. /\ op'[c].stage = "read" /\ op'[c].task = t /\ op'[c].kind = kind
      /\ op'[c].alone => About(t) = {}
      /\ \A d \in Requests \ {c} : /\ Carries(op'[d], op[d])
                                   /\ op'[d].alone => op[d].alone /\ op[d].task # t
  BY <1>1, EnterOps
<1>4. \A s \in Tasks \ {t} : Spared(s)
  BY <1>1, <1>2 DEF Spared
<1>5. op'[c].alone => Lone(c, t)'
  <2> SUFFICES ASSUME op'[c].alone PROVE Lone(c, t)'
    OBVIOUS
  <2>1. \A d \in Requests : Busy(d, t)' => d = c
    BY <1>3 DEF About, Busy, Carries
  <2>2. kind = "create" => link[t] = NoRecord
    BY DEF BoardInv, LinksSound
  <2> QED
    BY <1>1, <1>2, <1>3, <2>1, <2>2 DEF Lone, Exists
<1> QED
  BY <1>1, <1>3, <1>4, <1>5, OneSpared

LEMMA StartsAgree ==
    ASSUME BoardInv, BoardInv', Agreeing, NEW c \in Requests, NEW t \in Tasks,
           \/ CreateAction(c, t) \/ UpdateAction(c, t)
           \/ MarkActionDone(c, t) \/ CancelAction(c, t) \/ LookUpAction(c, t)
    PROVE  Agreeing'
<1>1. /\ task[t] \in Row
      /\ {"todo", "done", "cancelled"} \subseteq Statuses
  BY DEF BoardInv, Shape, Statuses, OpenStatuses
<1>2. CASE CreateAction(c, t)
  <2>1. PICK owner \in Accounts :
          Begin(c, "create", t, [NoTask EXCEPT !.status = "todo", !.owner = owner])
    BY <1>2 DEF CreateAction
  <2> DEFINE row == [NoTask EXCEPT !.status = "todo", !.owner = owner]
  <2>2. row \in Row /\ row.status \in Statuses
    BY <1>1 DEF Row, NoTask, Accounts
  <2>3. Begin(c, "create", t, row)
    BY <2>1
  <2> HIDE DEF row
  <2> QED
    BY <1>2, <2>2, <2>3, BeginAgrees DEF CreateAction, Kinds
<1>3. CASE UpdateAction(c, t)
  <2>1. PICK status \in Statuses, owner \in Accounts :
          Begin(c, "update", t, [task[t] EXCEPT !.status = status, !.owner = owner,
                                                !.idle = FALSE])
    BY <1>3 DEF UpdateAction
  <2> DEFINE row == [task[t] EXCEPT !.status = status, !.owner = owner, !.idle = FALSE]
  <2>2. row \in Row /\ row.status \in Statuses
    BY <1>1 DEF Row
  <2>3. Begin(c, "update", t, row)
    BY <2>1
  <2> HIDE DEF row
  <2> QED
    BY <2>2, <2>3, BeginAgrees DEF Kinds
<1>4. CASE MarkActionDone(c, t)
  <2> DEFINE row == [task[t] EXCEPT !.status = "done", !.idle = FALSE]
  <2>1. row \in Row /\ row.status = "done"
    BY <1>1 DEF Row
  <2>2. Begin(c, "done", t, row)
    BY <1>4 DEF MarkActionDone
  <2> HIDE DEF row
  <2> QED
    BY <1>1, <2>1, <2>2, BeginAgrees DEF Kinds
<1>5. CASE CancelAction(c, t)
  <2> DEFINE row == [task[t] EXCEPT !.status = "cancelled", !.idle = FALSE]
  <2>1. row \in Row /\ row.status = "cancelled"
    BY <1>1 DEF Row
  <2>2. Begin(c, "cancel", t, row)
    BY <1>5 DEF CancelAction
  <2> HIDE DEF row
  <2> QED
    BY <1>1, <2>1, <2>2, BeginAgrees DEF Kinds
<1>6. CASE LookUpAction(c, t)
  <2>1. Enter(c, "look", t) /\ UNCHANGED <<task, agreed, link, record>>
    BY <1>6 DEF LookUpAction, Enter
  <2>2. /\ op'[c].stage = "read" /\ op'[c].task = t /\ op'[c].kind = "look"
        /\ ~op'[c].alone
        /\ \A d \in Requests \ {c} : /\ Carries(op'[d], op[d])
                                     /\ op'[d].alone => op[d].alone /\ op[d].task # t
    BY <2>1, EnterOps DEF Kinds
  <2>3. \A s \in Tasks : Spared(s)
    BY <2>1 DEF Spared
  <2>4. ASSUME t \in agreed' PROVE Agrees(t)'
    <3>1. Agrees(t)
      BY <2>1, <2>4 DEF Agreeing
    <3>2. \A d \in Requests : Busy(d, t)' =>
            op'[d].kind = "look" /\ op'[d].stage \in {"read", "find", "end"}
      BY <2>2, <3>1 DEF Agrees, Busy, Carries
    <3> QED
      BY <2>3, <3>1, <3>2, AgreementSpared
  <2> QED
    BY <2>1, <2>2, <2>3, <2>4, OneSpared
<1> QED
  BY <1>2, <1>3, <1>4, <1>5, <1>6

\* A step of a request that is under way.
LEMMA StepAgrees ==
    ASSUME BoardInv, BoardInv', Agreeing, NEW c \in Requests, NEW t \in Tasks,
           Busy(c, t), UNCHANGED agreed, \A s \in Tasks \ {t} : Spared(s),
           op'[c].stage = "idle" \/ op'[c].task = t,
           \A d \in Requests \ {c} :
              Carries(op'[d], op[d]) /\ (op'[d].alone => op[d].alone),
           Agrees(t) => /\ Spared(t)
                        /\ \/ op'[c].stage = "idle"
                           \/ op'[c].kind = "look" /\ op'[c].stage \in {"read", "find", "end"},
           op'[c].stage # "idle" /\ op'[c].alone =>
              op[c].alone /\ (Lone(c, t) => Lone(c, t)')
    PROVE  Agreeing'
<1>1. ASSUME t \in agreed' PROVE Agrees(t)'
  <2>1. Agrees(t)
    BY <1>1 DEF Agreeing
  <2>2. \A d \in Requests : Busy(d, t)' =>
          op'[d].kind = "look" /\ op'[d].stage \in {"read", "find", "end"}
    BY <2>1 DEF Agrees, Busy, Carries
  <2> QED
    BY <2>1, <2>2, AgreementSpared
<1>2. Busy(c, t)' /\ op'[c].alone => Lone(c, t)'
  BY DEF Agreeing, Busy
<1> QED
  BY <1>1, <1>2, OneSpared

LEMMA ReadRowAgrees ==
    ASSUME BoardInv, BoardInv', Agreeing, NEW c \in Requests, ReadRow(c)
    PROVE  Agreeing'
<1>0. PICK t \in Tasks : Busy(c, t)
  BY DEF ReadRow, BoardInv, OpsSound, OpSound, Busy
<1> DEFINE row == [status |-> task[t].status, owner |-> task[t].owner]
           new == IF Exists(t) THEN [op[c] EXCEPT !.row = row, !.stage = "find"]
                               ELSE Idle
<1>1. op[c] \in Op /\ task[t] \in Row /\ op[c].task = t /\ op[c].stage = "read"
  BY <1>0 DEF BoardInv, Shape, Busy, ReadRow
<1>2. op' = [op EXCEPT ![c] = new] /\ UNCHANGED <<task, link, record, agreed>>
  BY <1>1 DEF ReadRow, historyVars
<1>3. /\ ~Exists(t) => new.stage = "idle"
      /\ Exists(t) => /\ new.kind = op[c].kind /\ new.task = t /\ new.stage = "find"
                      /\ new.alone = op[c].alone /\ new.row = row
  BY <1>1 DEF Op, Idle
<1> HIDE DEF new
<1>4. op'[c] = new /\ \A d \in Requests \ {c} : op'[d] = op[d]
  BY <1>2 DEF BoardInv, Shape
<1>5. \A d \in Requests \ {c} : Carries(op'[d], op[d]) /\ (op'[d].alone => op[d].alone)
  BY <1>4 DEF Carries
<1>6. \A s \in Tasks : Spared(s)
  BY <1>2 DEF Spared
<1>7. Agrees(t) => new.stage = "idle" \/ (new.kind = "look" /\ new.stage = "find")
  BY <1>0, <1>3 DEF Agrees
<1>8. ASSUME new.stage # "idle", new.alone, Lone(c, t) PROVE Lone(c, t)'
  <2>1. /\ op'[c].kind = op[c].kind /\ op'[c].stage = "find"
        /\ op'[c].row.status = task[t].status /\ op'[c].row.owner = task[t].owner
    <3>1. Exists(t)
      BY <1>3, <1>8
    <3>2. op'[c] = new /\ new.row = row /\ new.stage = "find" /\ new.kind = op[c].kind
      BY <1>3, <1>4, <3>1
    <3> QED
      BY <3>2
  <2>2. \A d \in Requests : Busy(d, t)' => d = c
    BY <1>4, <1>8 DEF Lone, Busy
  <2> QED
    BY <1>1, <1>2, <1>8, <2>1, <2>2 DEF Lone, Exists
<1> QED
  BY <1>0, <1>2, <1>3, <1>4, <1>5, <1>6, <1>7, <1>8, StepAgrees

LEMMA FindRecordAgrees ==
    ASSUME BoardInv, BoardInv', Agreeing, NEW c \in Requests, FindRecord(c)
    PROVE  Agreeing'
<1>0. PICK t \in Tasks : Busy(c, t)
  BY DEF FindRecord, BoardInv, OpsSound, OpSound, Busy
<1> DEFINE r == link[t]
           new == IF r = NoRecord THEN [op[c] EXCEPT !.stage = "create"]
                  ELSE [op[c] EXCEPT !.rec = r, !.seen = record[r].state,
                                     !.stage = AfterRecord(op[c].kind)]
<1>1. op[c] \in Op /\ op[c].task = t /\ op[c].stage = "find"
  BY <1>0 DEF BoardInv, Shape, Busy, FindRecord
<1>2. op' = [op EXCEPT ![c] = new] /\ UNCHANGED <<task, link, record, agreed>>
  BY <1>1 DEF FindRecord, Linked, historyVars
<1>3. /\ new.kind = op[c].kind /\ new.task = t /\ new.alone = op[c].alone
      /\ new.row = op[c].row
      /\ r = NoRecord => new.stage = "create"
      /\ r # NoRecord => /\ new.stage = AfterRecord(op[c].kind)
                         /\ new.rec = r /\ new.seen = record[r].state
  BY <1>1 DEF Op
<1> HIDE DEF new
<1>4. op'[c] = new /\ \A d \in Requests \ {c} : op'[d] = op[d]
  BY <1>2 DEF BoardInv, Shape
<1>5. \A d \in Requests \ {c} : Carries(op'[d], op[d]) /\ (op'[d].alone => op[d].alone)
  BY <1>4 DEF Carries
<1>6. \A s \in Tasks : Spared(s)
  BY <1>2 DEF Spared
<1>7. Agrees(t) => new.kind = "look" /\ new.stage = "end"
  BY <1>0, <1>3 DEF Agrees, AfterRecord
<1>8. ASSUME Lone(c, t) PROVE Lone(c, t)'
  <2>1. r # NoRecord => new.stage = "owner"
    BY <1>1, <1>3, <1>8 DEF Lone, AfterRecord
  <2> QED
    BY <1>1, <1>2, <1>3, <1>4, <1>8, <2>1 DEF Lone, Exists, Busy
<1> QED
  BY <1>0, <1>2, <1>3, <1>4, <1>5, <1>6, <1>7, <1>8, StepAgrees

LEMMA CreateRecordAgrees ==
    ASSUME BoardInv, BoardInv', Agreeing, NEW c \in Requests, CreateRecord(c)
    PROVE  Agreeing'
<1>0. PICK t \in Tasks : Busy(c, t)
  BY DEF CreateRecord, BoardInv, OpsSound, OpSound, Busy
<1>1. op[c] \in Op /\ op[c].task = t /\ op[c].stage = "create"
  BY <1>0 DEF BoardInv, Shape, Busy, CreateRecord
<1> DEFINE state == StateFromRow(op[c].row)
<1>2. PICK r \in Records :
        /\ record[r] = Blank
        /\ record' = [record EXCEPT ![r] = [state |-> state, owner |-> op[c].row.owner,
                                            source |-> t]]
        /\ op' = [op EXCEPT ![c].rec = r, ![c].seen = state, ![c].stage = "link"]
  BY <1>1 DEF CreateRecord, Inserted
<1> HIDE DEF state
<1>3. UNCHANGED <<task, link, agreed>>
  BY DEF CreateRecord, historyVars
<1>4. /\ op'[c].kind = op[c].kind /\ op'[c].task = t /\ op'[c].alone = op[c].alone
      /\ op'[c].row = op[c].row /\ op'[c].rec = r /\ op'[c].seen = state
      /\ op'[c].stage = "link"
      /\ \A d \in Requests \ {c} : op'[d] = op[d]
  BY <1>1, <1>2 DEF Op, BoardInv, Shape
<1>5. \A d \in Requests \ {c} : Carries(op'[d], op[d]) /\ (op'[d].alone => op[d].alone)
  BY <1>4 DEF Carries
<1>6. /\ record'[r].state = state /\ record'[r].owner = op[c].row.owner
      /\ \A q \in Records : q # r => record'[q] = record[q]
      /\ record[r].state = "none"
  BY <1>2 DEF BoardInv, Shape, Blank
<1>7. \A s \in Tasks : Spared(s)
  BY <1>3, <1>6 DEF Spared
<1>8. ~Agrees(t)
  BY <1>0, <1>1 DEF Agrees
<1>9. ASSUME Lone(c, t) PROVE Lone(c, t)'
  <2>1. Wanted(c)' = state
    BY <1>4 DEF Wanted, state
  <2> QED
    BY <1>1, <1>3, <1>4, <1>6, <1>9, <2>1 DEF Lone, Exists, Busy
<1> QED
  BY <1>0, <1>3, <1>4, <1>5, <1>7, <1>8, <1>9, StepAgrees

LEMMA LinkRecordAgrees ==
    ASSUME BoardInv, BoardInv', Agreeing, NEW c \in Requests, LinkRecord(c)
    PROVE  Agreeing'
<1>0. PICK t \in Tasks : Busy(c, t)
  BY DEF LinkRecord, BoardInv, OpsSound, OpSound, Busy
<1> DEFINE new == [op[c] EXCEPT !.stage = AfterRecord(op[c].kind)]
<1>1. op[c] \in Op /\ op[c].task = t /\ op[c].stage = "link"
  BY <1>0 DEF BoardInv, Shape, Busy, LinkRecord
<1>2. /\ GoOn(c, new) /\ UNCHANGED <<task, record, agreed>>
      /\ link' = [link EXCEPT ![t] = IF @ = NoRecord THEN op[c].rec ELSE @]
  BY <1>1 DEF LinkRecord, GoTo, historyVars
<1>3. /\ new \in Op /\ new.kind = op[c].kind /\ new.task = t /\ new.alone = op[c].alone
      /\ new.row = op[c].row /\ new.rec = op[c].rec /\ new.seen = op[c].seen
      /\ new.stage = AfterRecord(op[c].kind)
  BY <1>1 DEF Op, Holding, AfterRecord
<1> HIDE DEF new
<1>4. op'[c] = new /\ \A d \in Requests \ {c} :
        Carries(op'[d], op[d]) /\ (op'[d].alone => op[d].alone)
  BY <1>2, <1>3, GoOnOps
<1>5. /\ link'[t] = IF link[t] = NoRecord THEN op[c].rec ELSE link[t]
      /\ \A s \in Tasks : s # t => link'[s] = link[s]
  BY <1>2 DEF BoardInv, Shape
<1>6. \A s \in Tasks \ {t} : Spared(s)
  BY <1>2, <1>5 DEF Spared
<1>7. ~Agrees(t)
  BY <1>0, <1>1 DEF Agrees
<1>8. ASSUME Lone(c, t) PROVE Lone(c, t)'
  <2>1. Wanted(c)' = Wanted(c)
    BY <1>3, <1>4 DEF Wanted
  <2>2. op'[c].stage = IF op[c].kind = "create" THEN "end" ELSE "owner"
    BY <1>3, <1>4, <1>8 DEF Lone, AfterRecord
  <2>3. \A d \in Requests : Busy(d, t)' => d = c
    BY <1>4, <1>8 DEF Lone, Busy, Carries
  <2> QED
    BY <1>1, <1>2, <1>3, <1>4, <1>5, <1>8, <2>1, <2>2, <2>3 DEF Lone, Exists
<1> QED
  BY <1>0, <1>2, <1>3, <1>4, <1>6, <1>7, <1>8, StepAgrees

LEMMA UpdateRecordAgrees ==
    ASSUME BoardInv, BoardInv', Agreeing, NEW c \in Requests, UpdateRecord(c)
    PROVE  Agreeing'
<1>0. PICK t \in Tasks : Busy(c, t)
  BY DEF UpdateRecord, BoardInv, OpsSound, OpSound, Busy
<1> DEFINE r == op[c].rec
           new == [op[c] EXCEPT !.stage = IF op[c].seen = Target(c) THEN "end"
                                                                    ELSE "check"]
<1>1. /\ op[c] \in Op /\ op[c].task = t /\ op[c].stage = "owner"
      /\ r \in Records /\ record[r].source = t
  BY <1>0 DEF BoardInv, Shape, Busy, UpdateRecord, OpsSound, OpSound, Holding
<1>2. /\ GoOn(c, new) /\ UNCHANGED <<task, link, agreed>>
      /\ record' = [record EXCEPT ![r].owner = op[c].row.owner]
  BY <1>1 DEF UpdateRecord, GoTo, historyVars
<1>3. /\ new \in Op /\ new.kind = op[c].kind /\ new.task = t /\ new.alone = op[c].alone
      /\ new.row = op[c].row /\ new.rec = r /\ new.seen = op[c].seen
      /\ new.stage = IF op[c].seen = Target(c) THEN "end" ELSE "check"
  BY <1>1 DEF Op, Holding
<1> HIDE DEF new
<1>4. op'[c] = new /\ \A d \in Requests \ {c} :
        Carries(op'[d], op[d]) /\ (op'[d].alone => op[d].alone)
  BY <1>2, <1>3, GoOnOps
<1>5. /\ record'[r].owner = op[c].row.owner /\ record'[r].state = record[r].state
      /\ \A q \in Records : q # r => record'[q] = record[q]
  BY <1>1, <1>2 DEF BoardInv, Shape
<1>6. \A s \in Tasks \ {t} : Spared(s)
  BY <1>1, <1>2, <1>5 DEF Spared
<1>7. ~Agrees(t)
  BY <1>0, <1>1 DEF Agrees
<1>8. ASSUME Lone(c, t) PROVE Lone(c, t)'
  <2>1. Wanted(c)' = Wanted(c)
    BY <1>3, <1>4 DEF Wanted
  <2>2. Target(c) = Wanted(c)
    BY <1>1, <1>8, SameTarget DEF Lone
  <2>3. \A d \in Requests : Busy(d, t)' => d = c
    BY <1>4, <1>8 DEF Lone, Busy, Carries
  <2> QED
    BY <1>1, <1>2, <1>3, <1>4, <1>5, <1>8, <2>1, <2>2, <2>3 DEF Lone, Exists
<1> QED
  BY <1>0, <1>2, <1>3, <1>4, <1>6, <1>7, <1>8, StepAgrees

LEMMA CheckTransitionAgrees ==
    ASSUME BoardInv, BoardInv', Agreeing, NEW c \in Requests, CheckTransition(c)
    PROVE  Agreeing'
<1>0. PICK t \in Tasks : Busy(c, t)
  BY DEF CheckTransition, BoardInv, OpsSound, OpSound, Busy
<1> DEFINE new == [op[c] EXCEPT !.stage = "move"]
<1>1. op[c] \in Op /\ op[c].task = t /\ op[c].stage = "check"
  BY <1>0 DEF BoardInv, Shape, Busy, CheckTransition
<1>2. op' = [op EXCEPT ![c] = new] /\ UNCHANGED <<task, link, record, agreed>>
  BY DEF CheckTransition, historyVars
<1>3. /\ new.kind = op[c].kind /\ new.task = t /\ new.alone = op[c].alone
      /\ new.row = op[c].row /\ new.rec = op[c].rec /\ new.stage = "move"
  BY <1>1 DEF Op
<1> HIDE DEF new
<1>4. op'[c] = new /\ \A d \in Requests \ {c} : op'[d] = op[d]
  BY <1>2 DEF BoardInv, Shape
<1>5. \A d \in Requests \ {c} : Carries(op'[d], op[d]) /\ (op'[d].alone => op[d].alone)
  BY <1>4 DEF Carries
<1>6. \A s \in Tasks : Spared(s)
  BY <1>2 DEF Spared
<1>7. ~Agrees(t)
  BY <1>0, <1>1 DEF Agrees
<1>8. ASSUME Lone(c, t) PROVE Lone(c, t)'
  BY <1>1, <1>2, <1>3, <1>4, <1>8 DEF Lone, Exists, Busy
<1> QED
  BY <1>0, <1>2, <1>3, <1>4, <1>5, <1>6, <1>7, <1>8, StepAgrees

LEMMA MoveRecordAgrees ==
    ASSUME BoardInv, BoardInv', Agreeing, NEW c \in Requests, MoveRecord(c)
    PROVE  Agreeing'
<1>0. PICK t \in Tasks : Busy(c, t)
  BY DEF MoveRecord, BoardInv, OpsSound, OpSound, Busy
<1> DEFINE r == op[c].rec
           new == [op[c] EXCEPT !.stage = "end"]
<1>1. /\ op[c] \in Op /\ op[c].task = t /\ op[c].stage = "move"
      /\ r \in Records /\ record[r].source = t
  BY <1>0 DEF BoardInv, Shape, Busy, MoveRecord, OpsSound, OpSound, Holding
<1>2. /\ GoOn(c, new) /\ UNCHANGED <<task, link, agreed>>
      /\ record' = [record EXCEPT ![r].state = Target(c)]
  BY <1>1 DEF MoveRecord, GoTo, historyVars
<1>3. /\ new \in Op /\ new.kind = op[c].kind /\ new.task = t /\ new.alone = op[c].alone
      /\ new.row = op[c].row /\ new.rec = r /\ new.stage = "end"
  BY <1>1 DEF Op, Holding
<1> HIDE DEF new
<1>4. op'[c] = new /\ \A d \in Requests \ {c} :
        Carries(op'[d], op[d]) /\ (op'[d].alone => op[d].alone)
  BY <1>2, <1>3, GoOnOps
<1>5. /\ record'[r].owner = record[r].owner /\ record'[r].state = Target(c)
      /\ \A q \in Records : q # r => record'[q] = record[q]
  BY <1>1, <1>2 DEF BoardInv, Shape
<1>6. \A s \in Tasks \ {t} : Spared(s)
  BY <1>1, <1>2, <1>5 DEF Spared
<1>7. ~Agrees(t)
  BY <1>0, <1>1 DEF Agrees
<1>8. ASSUME Lone(c, t) PROVE Lone(c, t)'
  <2>1. Wanted(c)' = Wanted(c)
    BY <1>3, <1>4 DEF Wanted
  <2>2. Target(c) = Wanted(c)
    BY <1>1, <1>8, SameTarget DEF Lone
  <2>3. \A d \in Requests : Busy(d, t)' => d = c
    BY <1>4, <1>8 DEF Lone, Busy, Carries
  <2> QED
    BY <1>1, <1>2, <1>3, <1>4, <1>5, <1>8, <2>1, <2>2, <2>3 DEF Lone, Exists
<1> QED
  BY <1>0, <1>2, <1>3, <1>4, <1>6, <1>7, <1>8, StepAgrees

LEMMA EndsAgree ==
    ASSUME BoardInv, BoardInv', Agreeing, NEW c \in Requests, op[c].stage # "idle",
           Succeed(c) \/ RequestFails(c) \/ CutOff(c)
    PROVE  Agreeing'
<1>0. PICK t \in Tasks : Busy(c, t)
  BY DEF BoardInv, OpsSound, OpSound, Busy
<1>1. op[c] \in Op /\ op[c].task = t
  BY <1>0 DEF BoardInv, Shape, Busy
<1>2. op' = [op EXCEPT ![c] = Idle] /\ UNCHANGED <<link, record>>
  BY DEF Succeed, RequestFails, CutOff
<1>3. op'[c].stage = "idle" /\ \A d \in Requests \ {c} : op'[d] = op[d]
  BY <1>2 DEF BoardInv, Shape, Idle
<1>4. \A d \in Requests \ {c} : Carries(op'[d], op[d]) /\ (op'[d].alone => op[d].alone)
  BY <1>3 DEF Carries
<1>5. CASE Succeed(c)
  <2>1. /\ UNCHANGED task /\ op[c].stage = "end"
        /\ agreed' = IF op[c].alone THEN agreed \cup {t} ELSE agreed
    BY <1>1, <1>5 DEF Succeed
  <2>2. \A s \in Tasks : Spared(s)
    BY <1>2, <2>1 DEF Spared
  <2>3. CASE ~op[c].alone
    BY <1>0, <1>3, <1>4, <2>1, <2>2, <2>3, StepAgrees
  <2>4. CASE op[c].alone
    <3>1. Lone(c, t)
      BY <1>0, <2>4 DEF Agreeing
    <3>2. StateFromRow(task[t]) = Wanted(c)
      BY <2>1, <3>1 DEF Lone, Wanted, StateFromRow
    <3>3. op[c].rec # NoRecord
      BY <2>1, BoardAssumption DEF BoardInv, OpsSound, OpSound, Holding
    <3>4. Agrees(t)'
      <4>1. \A d \in Requests : ~Busy(d, t)'
        BY <1>3, <3>1 DEF Lone, Busy
      <4>2. StateFromRow(task[t])' = StateFromRow(task[t])
        BY <2>1 DEF StateFromRow
      <4> QED
        BY <1>2, <2>1, <3>1, <3>2, <3>3, <4>1, <4>2 DEF Agrees, Lone, Exists
    <3> QED
      BY <1>0, <1>3, <1>4, <2>1, <2>2, <3>4, OneSpared DEF Busy
  <2> QED
    BY <2>3, <2>4
<1>6. CASE RequestFails(c) \/ CutOff(c)
  <2>1. /\ UNCHANGED agreed
        /\ \/ UNCHANGED task
           \/ /\ op[c].kind = "create"
              /\ task' = [task EXCEPT ![t] = [NoTask EXCEPT !.status = "deleted"]]
    BY <1>1, <1>6 DEF RequestFails, CutOff
  <2>2. \A s \in Tasks \ {t} : Spared(s)
    BY <1>2, <2>1 DEF Spared, BoardInv, Shape
  <2>3. Agrees(t) => Spared(t)
    BY <1>0, <1>2, <2>1 DEF Spared, Agrees
  <2> QED
    BY <1>0, <1>3, <1>4, <2>1, <2>2, <2>3, StepAgrees
<1> QED
  BY <1>5, <1>6

\* A step of nobody at the console, about the tasks in T.
LEMMA WriteAgrees ==
    ASSUME BoardInv, BoardInv', Agreeing, NEW T \in SUBSET Tasks,
           \A t \in Tasks \ T : Spared(t), agreed' = agreed \ T,
           \A d \in Requests :
              /\ Carries(op'[d], op[d])
              /\ op'[d].alone => op[d].alone /\ op[d].task \notin T
    PROVE  Agreeing'
<1> DEFINE C == {}
<1>1. /\ C \in SUBSET Requests
      /\ \A c \in C : op'[c].stage = "idle" \/ op'[c].task \in T
      /\ \A c \in C, t \in T : Busy(c, t)' /\ op'[c].alone => Lone(c, t)'
  OBVIOUS
<1>2. \A d \in Requests \ C :
        /\ Carries(op'[d], op[d])
        /\ op'[d].alone => /\ op[d].alone
                           /\ \/ op[d].task \notin T
                              \/ \E c \in C : Busy(c, op[d].task)
  OBVIOUS
<1>3. agreed' \ T = agreed \ T /\ \A t \in T : t \in agreed' => Agrees(t)'
  OBVIOUS
<1> HIDE DEF C
<1> QED
  BY <1>1, <1>2, <1>3, OthersSpared

LEMMA WritersAgree ==
    ASSUME BoardInv, BoardInv', Agreeing, NEW t \in Tasks,
           \/ \E row : WriteAlone(t, row)
           \/ RecordAlone(t)
    PROVE  Agreeing'
<1> DEFINE T == {t}
<1>1. T \in SUBSET Tasks
  OBVIOUS
<1>2. \A s \in Tasks \ T : Spared(s)
  <2>1. CASE \E row : WriteAlone(t, row)
    BY <2>1 DEF WriteAlone, Spared, BoardInv, Shape
  <2>2. CASE RecordAlone(t)
    <3>1. link[t] \in Records /\ record[link[t]].source = t
      BY <2>2 DEF RecordAlone, BoardInv, Shape, LinksSound
    <3>2. \A r \in Records : r # link[t] => record'[r] = record[r]
      BY <2>2, <3>1 DEF RecordAlone, BoardInv, Shape
    <3> QED
      BY <2>2, <3>1, <3>2 DEF RecordAlone, Spared
  <2> QED
    BY <2>1, <2>2
<1>3. agreed' = agreed \ T /\ op' = Disturbed(t)
  BY DEF WriteAlone, RecordAlone
<1>4. \A d \in Requests : /\ Carries(op'[d], op[d])
                          /\ op'[d].alone => op[d].alone /\ op[d].task \notin T
  BY <1>3, DisturbedOps DEF BoardInv
<1> HIDE DEF T
<1> QED
  BY <1>1, <1>2, <1>3, <1>4, WriteAgrees

\* Nothing of tasks, records and requests that agreement looks at has changed.
LEMMA NothingTouched ==
    ASSUME BoardInv, BoardInv', Agreeing, UNCHANGED <<link, record, op, agreed>>,
           \A t \in Tasks : /\ task'[t].status = task[t].status
                            /\ task'[t].owner = task[t].owner
    PROVE  Agreeing'
<1> DEFINE T == {}
<1>1. /\ T \in SUBSET Tasks /\ \A s \in Tasks \ T : Spared(s)
      /\ agreed' = agreed \ T
      /\ \A d \in Requests : /\ Carries(op'[d], op[d])
                             /\ op'[d].alone => op[d].alone /\ op[d].task \notin T
  BY DEF Spared, Carries
<1> HIDE DEF T
<1> QED
  BY <1>1, WriteAgrees

LEMMA JobsAgree ==
    ASSUME BoardInv, BoardInv', Agreeing,
           ListStale \/ CancelStale \/ \E t \in Tasks : Age(t)
    PROVE  Agreeing'
<1>1. CASE ListStale
  BY <1>1, NothingTouched DEF ListStale, historyVars
<1>2. CASE CancelStale
  <2>1. \A d \in Requests : /\ Carries(op'[d], op[d])
                            /\ op'[d].alone => op[d].alone /\ op[d].task \notin listed
    <3> TAKE d \in Requests
    <3>1. ASSUME NEW b
          PROVE  /\ Carries([op[d] EXCEPT !.alone = b], op[d])
                 /\ [op[d] EXCEPT !.alone = b].alone = b
      BY DEF BoardInv, Shape, Op, Carries
    <3>2. op'[d] = [op[d] EXCEPT !.alone = op[d].alone /\ op[d].task \notin listed]
      BY <1>2, Zenon DEF CancelStale
    <3> QED
      BY <3>1, <3>2, Zenon
  <2>2. listed \in SUBSET Tasks /\ agreed' = agreed \ listed
    BY <1>2 DEF CancelStale, BoardInv, Shape
  <2>3. \A t \in Tasks \ listed : Spared(t)
    BY <1>2 DEF CancelStale, Spared
  <2> QED
    BY <2>1, <2>2, <2>3, WriteAgrees
<1>3. ASSUME NEW t \in Tasks, Age(t) PROVE Agreeing'
  <2>1. \A s \in Tasks : task'[s].status = task[s].status /\ task'[s].owner = task[s].owner
    BY <1>3 DEF Age, BoardInv, Shape, Row
  <2> QED
    BY <1>3, <2>1, NothingTouched DEF Age, historyVars
<1> QED
  BY <1>1, <1>2, <1>3

LEMMA NextAgrees ==
    ASSUME BoardAndCommands, Agreeing, [Next]_vars
    PROVE  Agreeing'
<1>1. BoardInv /\ BoardInv'
  BY StepKeeps DEF BoardAndCommands
<1>2. ASSUME NEW c \in Requests, NEW t \in Tasks,
             \/ CreateAction(c, t) \/ UpdateAction(c, t)
             \/ MarkActionDone(c, t) \/ CancelAction(c, t) \/ LookUpAction(c, t)
      PROVE  Agreeing'
  BY <1>1, <1>2, StartsAgree
<1>3. ASSUME NEW c \in Requests, Succeed(c) \/ Refuse(c) \/ Fail(c) \/ CutOff(c)
      PROVE  Agreeing'
  <2>1. op[c].stage # "idle" /\ (Succeed(c) \/ RequestFails(c) \/ CutOff(c))
    BY <1>3 DEF Succeed, Refuse, Fail, CutOff
  <2> QED
    BY <1>1, <2>1, EndsAgree
<1>4. ASSUME NEW c \in Requests,
             \/ ReadRow(c) \/ FindRecord(c) \/ CreateRecord(c) \/ LinkRecord(c)
             \/ UpdateRecord(c) \/ CheckTransition(c) \/ MoveRecord(c)
      PROVE  Agreeing'
  BY <1>1, <1>4, ReadRowAgrees, FindRecordAgrees, CreateRecordAgrees, LinkRecordAgrees,
     UpdateRecordAgrees, CheckTransitionAgrees, MoveRecordAgrees
<1>5. ASSUME NEW k \in Commands,
             \/ \E t \in Tasks : ActionDone(k, t) \/ ActionDoneByWord(k, t)
             \/ CompleteByCommand(k) \/ SpawnNextRecurrence(k) \/ CommandEnds(k)
      PROVE  Agreeing'
  <2>1. CASE CompleteByCommand(k) /\ Exists(command[k].task)
    <3>1. command[k].task \in Tasks
      BY <2>1 DEF CompleteByCommand, BoardAndCommands, Successors
    <3> QED
      BY <1>1, <2>1, <3>1, WritersAgree DEF CompleteByCommand
  <2>2. CASE UNCHANGED <<task, link, record, op, agreed>>
    BY <1>1, <2>2, NothingTouched
  <2> QED
    BY <1>5, <2>1, <2>2 DEF ActionDone, ActionDoneByWord, CompleteByCommand,
       SpawnNextRecurrence, CommandEnds, historyVars
<1>6. ASSUME NEW t \in Tasks,
             \/ UpdateActionStatus(t) \/ Assign(t) \/ AutoAssign(t) \/ ActionAdd(t)
             \/ RecordAlone(t)
      PROVE  Agreeing'
  <2>1. (\E row : WriteAlone(t, row)) \/ RecordAlone(t)
    BY <1>6, Zenon DEF UpdateActionStatus, Assign, AutoAssign, ActionAdd
  <2> QED
    BY <1>1, <2>1, WritersAgree
<1>7. CASE UNCHANGED vars
  BY <1>1, <1>7, NothingTouched DEF vars, boardVars, historyVars
<1> QED
  BY <1>1, <1>2, <1>3, <1>4, <1>5, <1>6, <1>7, JobsAgree DEF Next

\* For any number of tasks, records and requests: a request that answers success
\* and was not overtaken leaves task and record in agreement until somebody
\* writes one of the two, wherever the others were refused, failed or cut off
\* (artifacts.py:386-605).
THEOREM SuccessIsAgreement == Spec => []SuccessMeansAgreement
<1>1. Init => BoardAndCommands /\ Agreeing
  <2> SUFFICES ASSUME Init PROVE Successors /\ Agreeing
    BY InitSound DEF BoardAndCommands
  <2> QED
    BY DEF Init, Successors, Command, Resting, Spends, InFlight, Agreeing, Busy, Idle
<1>2. BoardAndCommands /\ Agreeing => SuccessMeansAgreement
  <2> SUFFICES ASSUME BoardInv, Agreeing, NEW t \in agreed
               PROVE  /\ link[t] # NoRecord
                      /\ record[link[t]] = [state |-> StateFromRow(task[t]),
                                            owner |-> task[t].owner, source |-> t]
    BY DEF SuccessMeansAgreement, BoardAndCommands
  <2>1. Agrees(t) /\ t \in Tasks
    BY DEF Agreeing, BoardInv, Shape
  <2>2. link[t] \in Records /\ record[link[t]].source = t
    BY <2>1 DEF Agrees, BoardInv, Shape, LinksSound
  <2> QED
    BY <2>1, <2>2 DEF Agrees, BoardInv, Shape
<1>3. (BoardAndCommands /\ Agreeing) /\ [Next]_vars => (BoardAndCommands /\ Agreeing)'
  BY StepKeeps, NextAgrees
<1> QED
  BY <1>1, <1>2, <1>3, PTL DEF Spec
=============================================================================
