--------------------------- MODULE ContinuitySweep ---------------------------
(***************************************************************************)
(* OperationalContinuityService.run_sweep                                  *)
(* (core/services/operational_continuity_service.py): sweeps that compute  *)
(* which conditions hold of the canonical records and persist them in      *)
(* operational_continuity_states, one row for each record and condition.   *)
(*                                                                         *)
(* A sweep reads the records, reads the active rows, then writes one row   *)
(* after another; every read and write is awaited. The scheduled job runs  *)
(* one sweep and the review queue runs another after each assignment or    *)
(* resolution, so sweeps may overlap, and people go on changing records.   *)
(*                                                                         *)
(* Of a record the model keeps what the rules look at: whether it still    *)
(* counts (neither in a terminal state nor archived), whether it has an    *)
(* owner, how many days it is past due, and how many days it has been      *)
(* stale, by its explicit date or by lack of activity.                     *)
(***************************************************************************)
EXTENDS Integers, FiniteSets

CONSTANTS
    Records,            \* ids, swept in ascending order
    Kind,               \* the type of each record
    Sweepers,           \* coroutines that may be inside run_sweep
    EscalateOverdue,    \* escalate_overdue_action_days
    EscalateStale,      \* escalate_stale_blocker_days
    PolicyDays,         \* stale_*_days, unresolved_decision_days
    MaxDays,            \* bound: days counted before time stops for a record
    MayFail             \* whether a sweep may be cut off (error, crash)

ASSUME SweepAssumption ==
    /\ Records \subseteq Nat
    /\ Kind \in [Records -> {"action", "decision", "blocker"}]
    /\ {EscalateOverdue, EscalateStale, PolicyDays, MaxDays} \subseteq Nat \ {0}
    /\ PolicyDays <= MaxDays
    /\ MayFail \in BOOLEAN

Conditions == {"overdue", "escalated", "stale", "unowned", "unresolved"}

Keys == Records \X Conditions

VARIABLES
    fact,       \* what the rules look at in each record
    status,     \* operational_continuity_states.status of each row, if any
    told,       \* event_type of each row's latest state event
    sweep,      \* where each sweeper is
    disturbed   \* history: sweepers during whose writing another wrote

vars == <<fact, status, told, sweep, disturbed>>

Events == {"activated", "updated", "cleared"}

Fact == [counts : BOOLEAN, owned : BOOLEAN, late : 0..MaxDays, stale : 0..MaxDays]

\* found are the candidates a sweep evaluated, listed the active rows it read,
\* todo and drop what it has still to activate and to clear, say the state
\* event it is about to append.
Sweep == [stage : {"idle", "read", "writing"}, found : SUBSET Keys,
          listed : SUBSET Keys, todo : SUBSET Keys, drop : SUBSET Keys,
          say : SUBSET (Keys \X Events)]

Idle == [stage |-> "idle", found |-> {}, listed |-> {}, todo |-> {},
         drop |-> {}, say |-> {}]

ActiveRows == {k \in Keys : status[k] = "active"}

\* The shape of the tables and of a sweep; what a sweep works off was found
\* or listed by it.
TypeOK ==
    /\ fact \in [Records -> Fact]
    /\ status \in [Keys -> {"absent", "active", "cleared"}]
    /\ told \in [Keys -> Events \cup {"none"}]
    /\ sweep \in [Sweepers -> Sweep]
    /\ \A s \in Sweepers : /\ sweep[s].todo \subseteq sweep[s].found
                           /\ sweep[s].drop \subseteq
                                sweep[s].listed \ sweep[s].found
    /\ disturbed \subseteq Sweepers

Init ==
    /\ fact \in [Records -> [counts : {TRUE}, owned : BOOLEAN,
                             late : {0}, stale : {0}]]
    /\ status = [k \in Keys |-> "absent"]
    /\ told = [k \in Keys |-> "none"]
    /\ sweep = [s \in Sweepers |-> Idle]
    /\ disturbed = {}

-----------------------------------------------------------------------------
(* The rules of _evaluate_record.                                          *)

\* What each rule asks of a record that counts.
Rule(r, c) ==
    CASE c = "overdue"   -> Kind[r] = "action" /\ fact[r].late > 0
      [] c = "escalated" -> \/ Kind[r] = "action" /\ fact[r].late >= EscalateOverdue
                            \/ Kind[r] = "blocker" /\ fact[r].stale >= EscalateStale
      [] c = "stale"     -> Kind[r] \in {"action", "blocker"} /\ fact[r].stale > 0
      [] c = "unowned"   -> Kind[r] = "action" /\ ~fact[r].owned
      [] OTHER           -> Kind[r] = "decision" /\ fact[r].stale > 0

Holds(r, c) == fact[r].counts /\ Rule(r, c)

Holding == {k \in Keys : Holds(k[1], k[2])}

\* The order in which a sweep meets its candidates: by record id, then in the
\* order of the rules.
RuleOrder(r) ==
    [overdue |-> 1, escalated |-> IF Kind[r] = "blocker" THEN 4 ELSE 2,
     stale |-> 3, unowned |-> 5, unresolved |-> 6]

Before(k, j) ==
    \/ k[1] < j[1]
    \/ k[1] = j[1] /\ RuleOrder(k[1])[k[2]] < RuleOrder(j[1])[j[2]]

-----------------------------------------------------------------------------
(* One sweep.                                                              *)

\* The candidate records are read and evaluated.
Begin(s) ==
    /\ sweep[s].stage = "idle"
    /\ sweep' = [sweep EXCEPT ![s].stage = "read", ![s].found = Holding]
    /\ UNCHANGED <<fact, status, told, disturbed>>

\* Mutant: rows whose condition is gone are left for good.
NothingToDrop(listed, found) == {}

ToDrop(listed, found) == listed \ found

\* Only the active rows are read.
ListActive(s) ==
    /\ sweep[s].stage = "read"
    /\ sweep' = [sweep EXCEPT ![s].stage = "writing",
                              ![s].listed = ActiveRows,
                              ![s].todo = sweep[s].found,
                              ![s].drop = ToDrop(ActiveRows, sweep[s].found)]
    /\ disturbed' = disturbed \ {s}
    /\ UNCHANGED <<fact, status, told>>

Disturb(s) ==
    disturbed' = disturbed \cup
                   {q \in Sweepers \ {s} : sweep[q].stage = "writing"}

FirstTodo(s, k) ==
    /\ sweep[s].stage = "writing"
    /\ sweep[s].say = {}
    /\ k \in sweep[s].todo
    /\ \A j \in sweep[s].todo \ {k} : Before(k, j)

\* A listed row is updated by id. An event follows only when the reason or
\* the details changed, which day counts and dates decide: left open here.
Refresh(s, k) ==
    /\ FirstTodo(s, k)
    /\ k \in sweep[s].listed
    /\ status' = [status EXCEPT ![k] = "active"]
    /\ \E event \in SUBSET {<<k, "updated">>} :
         sweep' = [sweep EXCEPT ![s].todo = @ \ {k}, ![s].say = event]
    /\ Disturb(s)
    /\ UNCHANGED <<fact, told>>

\* Mutant: the first sighting of a condition appends no event.
NoSighting(k) == {}

Sighting(k) == {<<k, "activated">>}

\* Mutant: the inserted row is never committed.
InsertUncommitted(s, k) ==
    /\ FirstTodo(s, k)
    /\ k \notin sweep[s].listed
    /\ status[k] = "absent"
    /\ sweep' = [sweep EXCEPT ![s].todo = @ \ {k}, ![s].say = Sighting(k)]
    /\ Disturb(s)
    /\ UNCHANGED <<fact, status, told>>

\* Any other row is inserted.
Insert(s, k) ==
    /\ FirstTodo(s, k)
    /\ k \notin sweep[s].listed
    /\ status[k] = "absent"
    /\ status' = [status EXCEPT ![k] = "active"]
    /\ sweep' = [sweep EXCEPT ![s].todo = @ \ {k}, ![s].say = Sighting(k)]
    /\ Disturb(s)
    /\ UNCHANGED <<fact, told>>

\* UNIQUE(record_id, continuity_state): a row that is cleared, or that another
\* sweep inserted meanwhile, makes the INSERT raise, and the sweep ends there.
Collide(s, k) ==
    /\ FirstTodo(s, k)
    /\ k \notin sweep[s].listed
    /\ status[k] # "absent"
    /\ sweep' = [sweep EXCEPT ![s] = Idle]
    /\ UNCHANGED <<fact, status, told, disturbed>>

Clear(s, k) ==
    /\ sweep[s].stage = "writing"
    /\ sweep[s].say = {}
    /\ sweep[s].todo = {}
    /\ k \in sweep[s].drop
    /\ status' = [status EXCEPT ![k] = "cleared"]
    /\ sweep' = [sweep EXCEPT ![s].drop = @ \ {k},
                              ![s].say = {<<k, "cleared">>}]
    /\ Disturb(s)
    /\ UNCHANGED <<fact, told>>

\* The state event, and with it the audit event, which nothing reads here.
AppendStateEvent(s) ==
    \E k \in Keys, e \in Events :
        /\ <<k, e>> \in sweep[s].say
        /\ told' = [told EXCEPT ![k] = e]
        /\ sweep' = [sweep EXCEPT ![s].say = {}]
        /\ UNCHANGED <<fact, status, disturbed>>

Finish(s) ==
    /\ sweep[s].stage = "writing"
    /\ sweep[s].say = {}
    /\ sweep[s].todo = {}
    /\ sweep[s].drop = {}
    /\ sweep' = [sweep EXCEPT ![s] = Idle]
    /\ UNCHANGED <<fact, status, told, disturbed>>

\* A database call raises or the process dies in the middle of a sweep.
Fail(s) ==
    /\ MayFail
    /\ sweep[s].stage # "idle"
    /\ sweep' = [sweep EXCEPT ![s] = Idle]
    /\ UNCHANGED <<fact, status, told, disturbed>>

SweepStep(s) ==
    \/ Begin(s)
    \/ ListActive(s)
    \/ \E k \in Keys : Refresh(s, k) \/ Insert(s, k) \/ Collide(s, k) \/ Clear(s, k)
    \/ AppendStateEvent(s)
    \/ Finish(s)

-----------------------------------------------------------------------------
(* What happens to the records meanwhile.                                  *)

Later(n) == IF n = 0 \/ n = MaxDays THEN n ELSE n + 1

\* Time passes for a record. The due date of an action may go by; a record may
\* go stale by its explicit date, or by lack of activity, and then it has been
\* stale for as many days as the policy waits.
Age(r) ==
    /\ fact[r].counts
    /\ \E late \in (IF fact[r].late = 0 /\ Kind[r] = "action" THEN {0, 1}
                                             ELSE {Later(fact[r].late)}),
         stale \in (IF fact[r].stale = 0 THEN {0, 1, PolicyDays}
                                         ELSE {Later(fact[r].stale)}) :
         fact' = [fact EXCEPT ![r].late = late, ![r].stale = stale]
    /\ UNCHANGED <<status, told, sweep, disturbed>>

\* Somebody updates, transitions or archives the record: the dates may move,
\* the owner may change, and the record may stop counting.
Edit(r) ==
    /\ fact[r].counts
    /\ \E counts \in BOOLEAN, owned \in BOOLEAN, late \in {0, fact[r].late},
         stale \in {0, fact[r].stale} :
         fact' = [fact EXCEPT ![r] = [counts |-> counts, owned |-> owned,
                                      late |-> late, stale |-> stale]]
    /\ UNCHANGED <<status, told, sweep, disturbed>>

Next ==
    \/ \E s \in Sweepers : SweepStep(s) \/ Fail(s)
    \/ \E r \in Records : Age(r) \/ Edit(r)

Spec == Init /\ [][Next]_vars

\* The scheduler starts a sweep every quarter of an hour whatever became of the
\* last one, and a sweep once started runs on
\* (core/operational_continuity_runner.py:76-96). Nobody is bound to edit.
FairSpec == Spec /\ \A s \in Sweepers : WF_vars(SweepStep(s))

-----------------------------------------------------------------------------
\* A sweep during whose writing no other sweep wrote leaves active exactly the
\* conditions it found: every one of them, and none besides, whatever was in
\* the table before (operational_continuity_service.py:192-221).
SweepExact ==
    [][\A s \in Sweepers :
         Finish(s) /\ s \notin disturbed => ActiveRows = sweep[s].found]_vars

\* The latest event of a row tells its status, but for the event a sweep is
\* about to append: activated or updated for an active row, cleared for a
\* cleared one, none before it exists (operational_continuity_service.py:
\* 425-435, 487-496, 542-551).
EventsTellStatus ==
    \A k \in Keys :
        (\A s \in Sweepers, e \in Events : <<k, e>> \notin sweep[s].say) =>
            /\ status[k] = "absent" <=> told[k] = "none"
            /\ status[k] = "cleared" <=> told[k] = "cleared"

\* A condition that holds for good is shown for good, as long as no row has
\* ever been cleared.
SurfacesAtFirst ==
    \A k \in Keys :
        [](\A j \in Keys : status[j] # "cleared") /\ <>[](k \in Holding)
            => <>[](status[k] = "active")

\* "If the underlying proposal or continuity condition still exists, the queue
\* item is still derived from that canonical source"
\* (docs/internal/review_queue_architecture.md:80): a condition that holds for
\* good is shown in the end.
ConditionsSurface ==
    \A k \in Keys : <>[](k \in Holding) => <>(status[k] = "active")
=============================================================================
