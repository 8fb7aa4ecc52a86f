------------------------ MODULE SweepAndHandlersProofs ------------------------
(***************************************************************************)
(* For any records, rules and number of overlapping sweeps: a sweep during *)
(* whose writing no other wrote leaves exactly what it found. For sweeps   *)
(* that write one at a time and are not cut off: the state events tell the *)
(* status of the rows. For sweeps that come to their end time and again: a *)
(* condition that holds for good is shown.                                 *)
(*                                                                         *)
(* And for any handler that keeps the rules of HandlerRules, whatever      *)
(* fails and whoever commits in between: it answers once and in time, what *)
(* it tells of is stored, nothing is left half done, and no write is left  *)
(* open. The two have nothing to do with each other.                       *)
(***************************************************************************)
EXTENDS ContinuitySweep, SharedConnection, HandlerRules, TLAPS

\* A sweep works off what it found or listed, and has nothing to do before it
\* writes.
WorkSound(w) ==
    /\ w.todo \subseteq w.found
    /\ w.drop \subseteq w.listed \ w.found
    /\ w.stage # "writing" => w.todo = {} /\ w.drop = {}

\* The part of the types the argument needs.
SweepTypes ==
    /\ sweep \in [Sweepers -> Sweep]
    /\ status \in [Keys -> {"absent", "active", "cleared"}]
    /\ disturbed \subseteq Sweepers
    /\ \A s \in Sweepers : WorkSound(sweep[s])

\* What is active once a sweep has written part of what it must: all it has
\* activated or found listed, and what it has still to clear.
Reached(w) == (w.found \ w.todo) \cup (w.listed \cap w.found) \cup w.drop

\* For a sweep nobody disturbed, the table holds exactly that.
OnCourse ==
    \A s \in Sweepers :
        sweep[s].stage = "writing" /\ s \notin disturbed
            => ActiveRows = Reached(sweep[s])

SweepInv == SweepTypes /\ OnCourse

LEMMA KeysAreHeld == Holding \subseteq Keys
  BY DEF Holding

\* A write by sweeper s to row k: the others that write are disturbed, and s
\* itself stays on course.
LEMMA WriteOnCourse ==
    ASSUME SweepInv, NEW s \in Sweepers, NEW k \in Keys,
           NEW v \in {"absent", "active", "cleared"}, NEW w \in Sweep,
           sweep[s].stage = "writing",
           status' = [status EXCEPT ![k] = v],
           sweep' = [sweep EXCEPT ![s] = w],
           Disturb(s),
           WorkSound(w),
           v = "active" => Reached(w) = Reached(sweep[s]) \cup {k},
           v # "active" => Reached(w) = Reached(sweep[s]) \ {k}
    PROVE  SweepInv'
<1>1. SweepTypes'
  BY DEF SweepInv, SweepTypes, Disturb
<1>2. ActiveRows' = IF v = "active" THEN ActiveRows \cup {k}
                                    ELSE ActiveRows \ {k}
  BY DEF ActiveRows, SweepInv, SweepTypes
<1>3. ASSUME NEW q \in Sweepers, sweep'[q].stage = "writing", q \notin disturbed'
      PROVE  ActiveRows' = Reached(sweep'[q])
  <2>1. q = s
    BY <1>3 DEF Disturb, SweepInv, SweepTypes
  <2>2. sweep'[q] = w /\ s \notin disturbed
    BY <1>3, <2>1 DEF Disturb, SweepInv, SweepTypes
  <2>3. ActiveRows = Reached(sweep[s])
    BY <2>2 DEF SweepInv, OnCourse
  <2> QED
    BY <1>2, <2>2, <2>3
<1>4. OnCourse'
  BY <1>3 DEF OnCourse
<1> QED
  BY <1>1, <1>4 DEF SweepInv

\* A step of sweeper s that writes no row.
LEMMA QuietStepOnCourse ==
    ASSUME SweepInv, NEW s \in Sweepers, NEW w \in Sweep,
           UNCHANGED status, sweep' = [sweep EXCEPT ![s] = w],
           disturbed' = disturbed \/ disturbed' = disturbed \ {s},
           WorkSound(w),
           w.stage = "writing" /\ s \notin disturbed'
             => ActiveRows = Reached(w)
    PROVE  SweepInv'
<1>1. SweepTypes'
  BY DEF SweepInv, SweepTypes
<1>2. ActiveRows' = ActiveRows
  BY DEF ActiveRows
<1>3. ASSUME NEW q \in Sweepers, sweep'[q].stage = "writing", q \notin disturbed'
      PROVE  ActiveRows' = Reached(sweep'[q])
  <2>1. CASE q = s
    BY <1>2, <1>3, <2>1 DEF SweepInv, SweepTypes
  <2>2. CASE q # s
    BY <1>2, <1>3, <2>2 DEF SweepInv, SweepTypes, OnCourse
  <2> QED
    BY <2>1, <2>2
<1>4. OnCourse'
  BY <1>3 DEF OnCourse
<1> QED
  BY <1>1, <1>4 DEF SweepInv

\* Every step keeps the invariant.
LEMMA SweepInvStep == SweepInv /\ [Next]_vars => SweepInv'
<1> SUFFICES ASSUME SweepInv, [Next]_vars PROVE SweepInv'
  OBVIOUS
<1>1. ASSUME NEW s \in Sweepers
      PROVE  /\ sweep[s] \in Sweep
             /\ WorkSound(sweep[s])
  BY DEF SweepInv, SweepTypes
<1>2. Idle \in Sweep /\ WorkSound(Idle) /\ Idle.stage = "idle"
  BY DEF Idle, Sweep, WorkSound
<1>3. ASSUME NEW s \in Sweepers, Begin(s) PROVE SweepInv'
  <2> DEFINE w == [sweep[s] EXCEPT !.stage = "read", !.found = Holding]
  <2>1. w \in Sweep /\ w.stage = "read"
    BY <1>1, KeysAreHeld DEF Sweep
  <2>2. WorkSound(w)
    BY <1>1, <1>3 DEF Begin, Sweep, WorkSound
  <2>3. sweep' = [sweep EXCEPT ![s] = w]
    BY <1>3 DEF Begin
  <2> QED
    BY <1>3, <2>1, <2>2, <2>3, QuietStepOnCourse DEF Begin
<1>4. ASSUME NEW s \in Sweepers, ListActive(s) PROVE SweepInv'
  <2> DEFINE w == [sweep[s] EXCEPT !.stage = "writing", !.listed = ActiveRows,
                       !.todo = sweep[s].found,
                       !.drop = ToDrop(ActiveRows, sweep[s].found)]
  <2>1. ActiveRows \subseteq Keys
    BY DEF ActiveRows
  <2>2. w \in Sweep /\ WorkSound(w)
    BY <1>1, <2>1 DEF Sweep, WorkSound, ToDrop
  <2>3. ActiveRows = Reached(w)
    BY <1>1, <2>1 DEF Reached, Sweep, ToDrop
  <2>4. sweep' = [sweep EXCEPT ![s] = w]
    BY <1>4 DEF ListActive
  <2> QED
    BY <1>4, <2>2, <2>3, <2>4, QuietStepOnCourse DEF ListActive
<1>5. ASSUME NEW s \in Sweepers, NEW k \in Keys, Refresh(s, k) PROVE SweepInv'
  <2>1. PICK event \in SUBSET {<<k, "updated">>} :
          sweep' = [sweep EXCEPT ![s].todo = @ \ {k}, ![s].say = event]
    BY <1>5 DEF Refresh
  <2> DEFINE w == [sweep[s] EXCEPT !.todo = @ \ {k}, !.say = event]
  <2>a. event \subseteq Keys \X Events
    BY <2>1 DEF Events
  <2>b. w \in Sweep
    BY <1>1, <2>a DEF Sweep
  <2>2. w \in Sweep /\ WorkSound(w)
    BY <1>1, <1>5, <2>b DEF Sweep, WorkSound, Refresh, FirstTodo
  <2>3. Reached(w) = Reached(sweep[s]) \cup {k}
    BY <1>1, <1>5, <2>1 DEF Reached, Sweep, WorkSound, Refresh, FirstTodo
  <2>4. sweep' = [sweep EXCEPT ![s] = w]
    BY <2>1
  <2> QED
    BY <1>5, <2>2, <2>3, <2>4, WriteOnCourse DEF Refresh, FirstTodo
<1>6. ASSUME NEW s \in Sweepers, NEW k \in Keys, Insert(s, k) PROVE SweepInv'
  <2> DEFINE w == [sweep[s] EXCEPT !.todo = @ \ {k}, !.say = Sighting(k)]
  <2>a. Sighting(k) \subseteq Keys \X Events
    BY DEF Events, Sighting
  <2>b. w \in Sweep
    BY <1>1, <2>a DEF Sweep
  <2>1. w \in Sweep /\ WorkSound(w)
    BY <1>1, <1>6, <2>b DEF Sweep, WorkSound, Insert, FirstTodo
  <2>2. Reached(w) = Reached(sweep[s]) \cup {k}
    BY <1>1, <1>6 DEF Reached, Sweep, WorkSound, Insert, FirstTodo
  <2>3. sweep' = [sweep EXCEPT ![s] = w]
    BY <1>6 DEF Insert
  <2> QED
    BY <1>6, <2>1, <2>2, <2>3, WriteOnCourse DEF Insert, FirstTodo
<1>7. ASSUME NEW s \in Sweepers, NEW k \in Keys, Collide(s, k) PROVE SweepInv'
  BY <1>2, <1>7, QuietStepOnCourse DEF Collide
<1>8. ASSUME NEW s \in Sweepers, NEW k \in Keys, Clear(s, k) PROVE SweepInv'
  <2> DEFINE w == [sweep[s] EXCEPT !.drop = @ \ {k},
                                   !.say = {<<k, "cleared">>}]
  <2>a. {<<k, "cleared">>} \subseteq Keys \X Events
    BY DEF Events
  <2>b. w \in Sweep
    BY <1>1, <2>a DEF Sweep
  <2>1. w \in Sweep /\ WorkSound(w)
    BY <1>1, <1>8, <2>b DEF Sweep, WorkSound, Clear
  <2>2. Reached(w) = Reached(sweep[s]) \ {k}
    BY <1>1, <1>8 DEF Reached, Sweep, WorkSound, Clear
  <2>3. sweep' = [sweep EXCEPT ![s] = w]
    BY <1>8 DEF Clear
  <2> QED
    BY <1>8, <2>1, <2>2, <2>3, WriteOnCourse DEF Clear
<1>9. ASSUME NEW s \in Sweepers, AppendStateEvent(s) PROVE SweepInv'
  <2> DEFINE w == [sweep[s] EXCEPT !.say = {}]
  <2>1. w \in Sweep /\ WorkSound(w)
    BY <1>1 DEF Sweep, WorkSound
  <2>2. Reached(w) = Reached(sweep[s]) /\ w.stage = sweep[s].stage
    BY <1>1 DEF Reached, Sweep
  <2>3. sweep' = [sweep EXCEPT ![s] = w]
    BY <1>9 DEF AppendStateEvent
  <2>4. w.stage = "writing" /\ s \notin disturbed => ActiveRows = Reached(w)
    BY <2>2 DEF SweepInv, OnCourse
  <2> QED
    BY <1>9, <2>1, <2>3, <2>4, QuietStepOnCourse DEF AppendStateEvent
<1>10. ASSUME NEW s \in Sweepers, Finish(s) \/ Fail(s) PROVE SweepInv'
  BY <1>2, <1>10, QuietStepOnCourse DEF Finish, Fail
<1>11. ASSUME UNCHANGED <<status, sweep, disturbed>> PROVE SweepInv'
  BY <1>11 DEF SweepInv, SweepTypes, OnCourse, ActiveRows
<1>12. ASSUME NEW r \in Records, Age(r) \/ Edit(r) PROVE SweepInv'
  BY <1>11, <1>12 DEF Age, Edit
<1>13. CASE UNCHANGED vars
  BY <1>11, <1>13 DEF vars
<1> QED
  BY <1>3, <1>4, <1>5, <1>6, <1>7, <1>8, <1>9, <1>10, <1>12, <1>13
     DEF Next, SweepStep

LEMMA SweepInvariant == Spec => []SweepInv
<1>1. Init => SweepInv
  BY DEF Init, SweepInv, SweepTypes, OnCourse, Idle, Sweep, WorkSound
<1> QED
  BY <1>1, SweepInvStep, PTL DEF Spec

\* However many sweeps overlap and wherever they are cut off, one that ends
\* undisturbed leaves active exactly the conditions it found
\* (operational_continuity_service.py:192-221).
THEOREM UndisturbedSweepIsExact == Spec => SweepExact
<1> DEFINE Exact == \A s \in Sweepers :
                      Finish(s) /\ s \notin disturbed
                        => ActiveRows = sweep[s].found
<1>1. SweepInv => [Exact]_vars
  <2> SUFFICES ASSUME SweepInv, NEW s \in Sweepers, Finish(s), s \notin disturbed
               PROVE  ActiveRows = sweep[s].found
    OBVIOUS
  <2>1. ActiveRows = Reached(sweep[s])
    BY DEF Finish, SweepInv, OnCourse
  <2> QED
    BY <2>1 DEF Finish, Reached
<1> QED
  BY <1>1, SweepInvariant, PTL DEF Spec, SweepExact
-----------------------------------------------------------------------------
(* Sweeps that write one at a time, and are not cut off.                   *)

OneWriter ==
    \A s, q \in Sweepers :
        sweep[s].stage = "writing" /\ sweep[q].stage = "writing" => s = q

\* The status of a row of which event e is the latest.
StatusAfter(e) == IF e = "cleared" THEN "cleared" ELSE "active"

\* A sweep in the state w is about to append one event at most, after it wrote
\* the row the event is about.
SaySound(w, st) ==
    /\ w.stage # "writing" => w.say = {}
    /\ \A x, y \in w.say : x = y
    /\ \A k \in Keys, e \in Events : <<k, e>> \in w.say => st[k] = StatusAfter(e)

Undisturbed == \A s \in Sweepers : sweep[s].stage = "writing" => s \notin disturbed

TellInv ==
    /\ \A s \in Sweepers : SaySound(sweep[s], status)
    /\ Undisturbed
    /\ EventsTellStatus
    /\ told \in [Keys -> Events \cup {"none"}]

\* While one sweep writes no other is about to append an event.
LEMMA OthersSilent ==
    ASSUME TellInv, OneWriter, NEW s \in Sweepers, sweep[s].stage = "writing",
           NEW q \in Sweepers \ {s}
    PROVE  sweep[q].stage # "writing" /\ sweep[q].say = {}
  BY DEF TellInv, OneWriter, SaySound

\* A row is written by the sweep that writes, which then tells of it, unless
\* the row stays as it was.
LEMMA WriteTells ==
    ASSUME SweepInv, TellInv, OneWriter, NEW s \in Sweepers, NEW k \in Keys,
           NEW v \in {"absent", "active", "cleared"}, NEW w \in Sweep,
           sweep[s].stage = "writing", sweep[s].say = {}, w.stage = "writing",
           status' = [status EXCEPT ![k] = v], UNCHANGED told,
           sweep' = [sweep EXCEPT ![s] = w],
           Disturb(s),
           \/ \E e \in Events : w.say = {<<k, e>>} /\ v = StatusAfter(e)
           \/ w.say = {} /\ v = status[k]
    PROVE  TellInv'
<1>1. sweep'[s] = w /\ \A q \in Sweepers \ {s} : sweep'[q] = sweep[q]
  BY DEF SweepInv, SweepTypes
<1>2. status'[k] = v /\ \A j \in Keys \ {k} : status'[j] = status[j]
  BY DEF SweepInv, SweepTypes
<1>3. \A q \in Sweepers \ {s} : sweep[q].stage # "writing" /\ sweep[q].say = {}
  BY OthersSilent
<1>4. SaySound(w, status')
  <2>1. CASE w.say = {}
    BY <2>1 DEF SaySound
  <2>2. ASSUME NEW e \in Events, w.say = {<<k, e>>}, v = StatusAfter(e)
        PROVE  SaySound(w, status')
    <3>1. ASSUME NEW j \in Keys, NEW f \in Events, <<j, f>> \in w.say
          PROVE  j = k /\ f = e
      BY <2>2, <3>1
    <3> QED
      BY <1>2, <2>2, <3>1 DEF SaySound
  <2> QED
    BY <2>1, <2>2
<1>5. ASSUME NEW q \in Sweepers PROVE SaySound(sweep'[q], status')
  <2>1. CASE q = s
    BY <1>1, <1>4, <2>1
  <2>2. CASE q # s
    BY <1>1, <1>3, <2>2 DEF SaySound
  <2> QED
    BY <2>1, <2>2
<1>6. Undisturbed'
  BY <1>1, <1>3 DEF Undisturbed, TellInv, Disturb
<1>7. ASSUME NEW j \in Keys, \A q \in Sweepers, e \in Events : <<j, e>> \notin sweep'[q].say
      PROVE  /\ status'[j] = "absent" <=> told[j] = "none"
             /\ status'[j] = "cleared" <=> told[j] = "cleared"
  <2>1. \A q \in Sweepers, e \in Events : <<j, e>> \notin sweep[q].say
    BY <1>3
  <2>2. status'[j] = status[j]
    <3>1. CASE j = k
      BY <1>1, <1>2, <1>7, <3>1
    <3> QED
      BY <1>2, <3>1
  <2> QED
    BY <2>1, <2>2 DEF TellInv, EventsTellStatus
<1>8. EventsTellStatus'
  BY <1>7 DEF EventsTellStatus
<1> QED
  BY <1>5, <1>6, <1>8 DEF TellInv

\* A step that writes no row and tells of none.
LEMMA SilentStep ==
    ASSUME SweepInv, TellInv, NEW s \in Sweepers, NEW w \in Sweep,
           sweep[s].say = {}, w.say = {}, UNCHANGED <<status, told>>,
           sweep' = [sweep EXCEPT ![s] = w],
           \/ w.stage # "writing" /\ UNCHANGED disturbed
           \/ disturbed' = disturbed \ {s}
    PROVE  TellInv'
<1>1. sweep'[s] = w /\ \A q \in Sweepers \ {s} : sweep'[q] = sweep[q]
  BY DEF SweepInv, SweepTypes
<1>2. ASSUME NEW q \in Sweepers PROVE SaySound(sweep'[q], status') /\ sweep'[q].say = sweep[q].say
  <2>1. CASE q = s
    BY <1>1, <2>1 DEF SaySound
  <2>2. CASE q # s
    BY <1>1, <2>2 DEF TellInv
  <2> QED
    BY <2>1, <2>2
<1>3. Undisturbed'
  BY <1>1 DEF Undisturbed, TellInv
<1>4. EventsTellStatus'
  BY <1>2 DEF EventsTellStatus, TellInv
<1> QED
  BY <1>2, <1>3, <1>4 DEF TellInv

\* Every step keeps the invariant.
LEMMA TellInvStep ==
    ASSUME ~MayFail, SweepInv, TellInv, OneWriter, [Next]_vars
    PROVE  TellInv'
<1>1. ASSUME NEW s \in Sweepers
      PROVE  /\ sweep[s] \in Sweep
             /\ WorkSound(sweep[s])
             /\ SaySound(sweep[s], status)
  BY DEF SweepInv, SweepTypes, TellInv
<1>2. Idle \in Sweep /\ Idle.stage = "idle" /\ Idle.say = {}
  BY DEF Idle, Sweep
<1>3. ASSUME NEW s \in Sweepers, Begin(s) PROVE TellInv'
  <2> DEFINE w == [sweep[s] EXCEPT !.stage = "read", !.found = Holding]
  <2>1. w \in Sweep /\ w.stage = "read" /\ w.say = sweep[s].say
    BY <1>1, KeysAreHeld DEF Sweep
  <2>2. sweep[s].say = {}
    BY <1>1, <1>3 DEF Begin, SaySound
  <2>3. sweep' = [sweep EXCEPT ![s] = w] /\ UNCHANGED <<status, told, disturbed>>
    BY <1>3 DEF Begin
  <2> HIDE DEF w
  <2> QED
    BY <2>1, <2>2, <2>3, SilentStep
<1>4. ASSUME NEW s \in Sweepers, ListActive(s) PROVE TellInv'
  <2> DEFINE w == [sweep[s] EXCEPT !.stage = "writing", !.listed = ActiveRows,
                       !.todo = sweep[s].found,
                       !.drop = ToDrop(ActiveRows, sweep[s].found)]
  <2>1. ActiveRows \subseteq Keys
    BY DEF ActiveRows
  <2>2. w \in Sweep /\ w.say = sweep[s].say
    BY <1>1, <2>1 DEF Sweep, ToDrop
  <2>3. sweep[s].say = {}
    BY <1>1, <1>4 DEF ListActive, SaySound
  <2>4. /\ sweep' = [sweep EXCEPT ![s] = w] /\ UNCHANGED <<status, told>>
        /\ disturbed' = disturbed \ {s}
    BY <1>4 DEF ListActive
  <2> HIDE DEF w
  <2> QED
    BY <2>2, <2>3, <2>4, SilentStep
<1>5. ASSUME NEW s \in Sweepers, NEW k \in Keys, Refresh(s, k) PROVE TellInv'
  <2>1. PICK event \in SUBSET {<<k, "updated">>} :
          sweep' = [sweep EXCEPT ![s].todo = @ \ {k}, ![s].say = event]
    BY <1>5 DEF Refresh
  <2> DEFINE w == [sweep[s] EXCEPT !.todo = @ \ {k}, !.say = event]
  <2>2. event \subseteq Keys \X Events
    BY <2>1 DEF Events
  <2>3. w \in Sweep /\ w.stage = sweep[s].stage /\ w.say = event
    BY <1>1, <2>2 DEF Sweep
  <2>4. /\ sweep[s].stage = "writing" /\ sweep[s].say = {}
        /\ k \in sweep[s].todo /\ k \in sweep[s].listed
        /\ status' = [status EXCEPT ![k] = "active"] /\ UNCHANGED told
        /\ Disturb(s)
    BY <1>5 DEF Refresh, FirstTodo
  <2>5. status[k] = "active"
    <3>1. ActiveRows = Reached(sweep[s])
      BY <2>4 DEF TellInv, Undisturbed, SweepInv, OnCourse
    <3>2. k \in Reached(sweep[s])
      BY <1>1, <2>4 DEF WorkSound, Reached
    <3> QED
      BY <3>1, <3>2 DEF ActiveRows
  <2>6. \/ \E e \in Events : w.say = {<<k, e>>} /\ "active" = StatusAfter(e)
        \/ w.say = {} /\ "active" = status[k]
    <3>1. event = {} \/ event = {<<k, "updated">>}
      BY <2>1
    <3>2. "updated" \in Events /\ StatusAfter("updated") = "active"
      BY DEF Events, StatusAfter
    <3> QED
      BY <2>3, <2>5, <3>1, <3>2
  <2>7. sweep' = [sweep EXCEPT ![s] = w]
    BY <2>1
  <2> HIDE DEF w
  <2> QED
    BY <2>3, <2>4, <2>6, <2>7, WriteTells
<1>6. ASSUME NEW s \in Sweepers, NEW k \in Keys, Insert(s, k) PROVE TellInv'
  <2> DEFINE w == [sweep[s] EXCEPT !.todo = @ \ {k}, !.say = Sighting(k)]
  <2>1. Sighting(k) \subseteq Keys \X Events
    BY DEF Events, Sighting
  <2>2. w \in Sweep /\ w.stage = sweep[s].stage /\ w.say = {<<k, "activated">>}
    BY <1>1, <2>1 DEF Sweep, Sighting
  <2>3. /\ sweep[s].stage = "writing" /\ sweep[s].say = {}
        /\ status' = [status EXCEPT ![k] = "active"] /\ UNCHANGED told
        /\ Disturb(s)
        /\ sweep' = [sweep EXCEPT ![s] = w]
    BY <1>6 DEF Insert, FirstTodo
  <2>4. "activated" \in Events /\ StatusAfter("activated") = "active"
    BY DEF Events, StatusAfter
  <2> HIDE DEF w
  <2> QED
    BY <2>2, <2>3, <2>4, WriteTells
<1>7. ASSUME NEW s \in Sweepers, NEW k \in Keys, Clear(s, k) PROVE TellInv'
  <2> DEFINE w == [sweep[s] EXCEPT !.drop = @ \ {k}, !.say = {<<k, "cleared">>}]
  <2>1. {<<k, "cleared">>} \subseteq Keys \X Events
    BY DEF Events
  <2>2. w \in Sweep /\ w.stage = sweep[s].stage /\ w.say = {<<k, "cleared">>}
    BY <1>1, <2>1 DEF Sweep
  <2>3. /\ sweep[s].stage = "writing" /\ sweep[s].say = {}
        /\ status' = [status EXCEPT ![k] = "cleared"] /\ UNCHANGED told
        /\ Disturb(s)
        /\ sweep' = [sweep EXCEPT ![s] = w]
    BY <1>7 DEF Clear
  <2>4. "cleared" \in Events /\ StatusAfter("cleared") = "cleared"
    BY DEF Events, StatusAfter
  <2> HIDE DEF w
  <2> QED
    BY <2>2, <2>3, <2>4, WriteTells
<1>8. ASSUME NEW s \in Sweepers,
             Finish(s) \/ \E k \in Keys : Collide(s, k)
      PROVE  TellInv'
  BY <1>2, <1>8, SilentStep DEF Finish, Collide, FirstTodo
<1>9. ASSUME NEW s \in Sweepers, AppendStateEvent(s) PROVE TellInv'
  <2>1. PICK k \in Keys, e \in Events :
          /\ <<k, e>> \in sweep[s].say
          /\ told' = [told EXCEPT ![k] = e]
          /\ sweep' = [sweep EXCEPT ![s].say = {}]
          /\ UNCHANGED <<fact, status, disturbed>>
    BY <1>9 DEF AppendStateEvent
  <2>2. /\ sweep[s].stage = "writing" /\ status[k] = StatusAfter(e)
        /\ \A x \in sweep[s].say : x = <<k, e>>
    BY <1>1, <2>1 DEF SaySound
  <2>3. \A q \in Sweepers \ {s} : sweep[q].say = {}
    BY <2>2, OthersSilent
  <2> DEFINE w == [sweep[s] EXCEPT !.say = {}]
  <2>4. w.stage = "writing" /\ w.say = {}
    BY <1>1, <2>2 DEF Sweep
  <2>5. sweep' = [sweep EXCEPT ![s] = w]
    BY <2>1
  <2> HIDE DEF w
  <2>6. sweep'[s] = w /\ \A q \in Sweepers \ {s} : sweep'[q] = sweep[q]
    BY <2>5 DEF SweepInv, SweepTypes
  <2>7. ASSUME NEW q \in Sweepers PROVE SaySound(sweep'[q], status')
    <3>1. CASE q = s
      BY <2>4, <2>6, <3>1 DEF SaySound
    <3>2. CASE q # s
      BY <1>1, <2>1, <2>6, <3>2
    <3> QED
      BY <3>1, <3>2
  <2>8. Undisturbed'
    <3>1. \A q \in Sweepers : sweep'[q].stage = sweep[q].stage
      BY <2>2, <2>4, <2>6
    <3> QED
      BY <2>1, <3>1 DEF Undisturbed, TellInv
  <2>9. ASSUME NEW j \in Keys
        PROVE  /\ status[j] = "absent" <=> told'[j] = "none"
               /\ status[j] = "cleared" <=> told'[j] = "cleared"
    <3>1. CASE j = k
      BY <2>1, <2>2, <3>1 DEF StatusAfter, Events, TellInv
    <3>2. CASE j # k
      <4>1. \A q \in Sweepers, f \in Events : <<j, f>> \notin sweep[q].say
        BY <2>2, <2>3, <3>2
      <4>2. told'[j] = told[j]
        BY <2>1, <3>2 DEF TellInv
      <4> QED
        BY <4>1, <4>2 DEF TellInv, EventsTellStatus
    <3> QED
      BY <3>1, <3>2
  <2>10. EventsTellStatus'
    BY <2>1, <2>9 DEF EventsTellStatus
  <2> QED
    BY <2>1, <2>7, <2>8, <2>10 DEF TellInv
<1>10. ASSUME UNCHANGED <<status, told, sweep, disturbed>> PROVE TellInv'
  BY <1>10 DEF TellInv, Undisturbed, EventsTellStatus
<1>11. ASSUME NEW r \in Records, Age(r) \/ Edit(r) PROVE TellInv'
  BY <1>10, <1>11 DEF Age, Edit
<1>12. ASSUME UNCHANGED vars PROVE TellInv'
  BY <1>10, <1>12 DEF vars
<1>13. ASSUME NEW s \in Sweepers PROVE ~Fail(s)
  BY DEF Fail
<1> QED
  BY <1>3, <1>4, <1>5, <1>6, <1>7, <1>8, <1>9, <1>11, <1>12, <1>13
     DEF Next, SweepStep

\* Where sweeps write one at a time and none is cut off, any number of them
\* leave every row with a latest event that tells its status
\* (operational_continuity_service.py:425-435, 487-496, 542-551).
THEOREM SerialEventsTellStatus ==
    ASSUME ~MayFail
    PROVE  Spec /\ []OneWriter => []EventsTellStatus
<1>1. Init => TellInv
  BY DEF Init, TellInv, SaySound, Undisturbed, EventsTellStatus, Idle
<1>2. SweepInv /\ TellInv /\ OneWriter /\ [Next]_vars => TellInv'
  BY TellInvStep
<1>3. TellInv => EventsTellStatus
  BY DEF TellInv
<1> QED
  BY <1>1, <1>2, <1>3, SweepInvariant, PTL DEF Spec
-----------------------------------------------------------------------------
(* Sweeps that come to an end.                                             *)

\* Sweeper s has nothing left to do, or has met condition k since it began and
\* shows it, or is about to.
OnTo(s, k) ==
    \/ sweep[s].stage = "idle"
    \/ /\ k \in sweep[s].found
       /\ \/ sweep[s].stage = "read"
          \/ k \in sweep[s].todo
          \/ status[k] = "active"

\* A row is only ever made active or cleared.
LEMMA ShownStays ==
    ASSUME SweepInv, NEW k \in Keys, status[k] = "active", [Next]_vars
    PROVE  status'[k] \in {"active", "cleared"}
<1>1. status \in [Keys -> {"absent", "active", "cleared"}]
  BY DEF SweepInv, SweepTypes
<1>2. ASSUME NEW s \in Sweepers, SweepStep(s) \/ Fail(s)
      PROVE  status'[k] \in {"active", "cleared"}
  BY <1>1, <1>2 DEF SweepStep, Fail, Begin, ListActive, Refresh, Insert, Collide,
                    Clear, AppendStateEvent, Finish
<1> QED
  BY <1>2 DEF Next, Age, Edit, vars

\* A step of one sweeper leaves the others where they are, and writes no row
\* but active or cleared.
LEMMA OneSweepsAtATime ==
    ASSUME SweepInv, NEW s \in Sweepers, NEW q \in Sweepers \ {s},
           SweepStep(q) \/ Fail(q)
    PROVE  sweep'[s] = sweep[s]
<1>1. sweep \in [Sweepers -> Sweep]
  BY DEF SweepInv, SweepTypes
<1> QED
  BY <1>1 DEF SweepStep, Fail, Begin, ListActive, Refresh, Insert, Collide,
              Clear, AppendStateEvent, Finish

LEMMA OnToStep ==
    ASSUME SweepInv, NEW s \in Sweepers, NEW k \in Keys, k \in Holding,
           OnTo(s, k), status'[k] # "cleared", [Next]_vars
    PROVE  OnTo(s, k)'
<1>0. /\ sweep \in [Sweepers -> Sweep]
      /\ status \in [Keys -> {"absent", "active", "cleared"}]
      /\ sweep[s] \in Sweep /\ WorkSound(sweep[s])
  BY DEF SweepInv, SweepTypes
<1>1. status[k] = "active" => status'[k] = "active"
  BY ShownStays
<1>2. ASSUME sweep'[s] = sweep[s] PROVE OnTo(s, k)'
  BY <1>1, <1>2 DEF OnTo
<1>3. CASE Begin(s)
  <2>1. sweep'[s] = [sweep[s] EXCEPT !.stage = "read", !.found = Holding]
    BY <1>0, <1>3 DEF Begin
  <2> QED
    BY <1>0, <2>1 DEF OnTo, Sweep
<1>4. CASE ListActive(s)
  <2>1. k \in sweep[s].found
    BY <1>4 DEF ListActive, OnTo
  <2>2. sweep'[s] = [sweep[s] EXCEPT !.stage = "writing", !.listed = ActiveRows,
                        !.todo = sweep[s].found,
                        !.drop = ToDrop(ActiveRows, sweep[s].found)]
    BY <1>0, <1>4 DEF ListActive
  <2> QED
    BY <1>0, <2>1, <2>2 DEF OnTo, Sweep
<1>5. ASSUME NEW j \in Keys, Refresh(s, j) \/ Insert(s, j) PROVE OnTo(s, k)'
  <2>1. status'[j] = "active" /\ sweep[s].stage = "writing"
    BY <1>0, <1>5 DEF Refresh, Insert, FirstTodo
  <2>2. PICK say : sweep' = [sweep EXCEPT ![s].todo = @ \ {j}, ![s].say = say]
    BY <1>5 DEF Refresh, Insert
  <2>3. sweep'[s].found = sweep[s].found /\ sweep'[s].todo = sweep[s].todo \ {j}
    BY <1>0, <2>2 DEF Sweep
  <2> QED
    BY <1>1, <2>1, <2>3 DEF OnTo
\* What is to be cleared was not found, so it is not condition k.
<1>6. ASSUME NEW j \in Keys, Clear(s, j) PROVE OnTo(s, k)'
  <2>1. sweep' = [sweep EXCEPT ![s].drop = @ \ {j}, ![s].say = {<<j, "cleared">>}]
    BY <1>6 DEF Clear
  <2>2. /\ sweep'[s].found = sweep[s].found /\ sweep'[s].todo = sweep[s].todo
        /\ sweep'[s].stage = sweep[s].stage
    BY <1>0, <2>1 DEF Sweep
  <2> QED
    BY <1>1, <2>2 DEF OnTo
<1>7. CASE AppendStateEvent(s)
  <2>1. sweep' = [sweep EXCEPT ![s].say = {}]
    BY <1>7 DEF AppendStateEvent
  <2>2. /\ sweep'[s].found = sweep[s].found /\ sweep'[s].todo = sweep[s].todo
        /\ sweep'[s].stage = sweep[s].stage
    BY <1>0, <2>1 DEF Sweep
  <2> QED
    BY <1>1, <2>2 DEF OnTo
<1>8. CASE Finish(s) \/ Fail(s) \/ \E j \in Keys : Collide(s, j)
  <2>1. sweep'[s] = Idle
    BY <1>0, <1>8 DEF Finish, Fail, Collide
  <2> QED
    BY <2>1 DEF OnTo, Idle
<1>9. ASSUME NEW q \in Sweepers \ {s}, SweepStep(q) \/ Fail(q) PROVE OnTo(s, k)'
  BY <1>2, <1>9, OneSweepsAtATime
<1>10. ASSUME UNCHANGED sweep PROVE OnTo(s, k)'
  BY <1>2, <1>10
<1> QED
  BY <1>3, <1>4, <1>5, <1>6, <1>7, <1>8, <1>9, <1>10
     DEF Next, SweepStep, Age, Edit, vars

\* Some sweeper comes to the end of a sweep time and again. Others may overlap
\* with it, collide and be cut off.
SweepsEnd == \E s \in Sweepers : []<><<Finish(s)>>_vars

\* A condition that holds for good is shown for good in the row that is never
\* cleared, whatever becomes of other rows.
LEMMA RowSurfaces ==
    ASSUME NEW k \in Keys, NEW s \in Sweepers
    PROVE  Spec /\ []<><<Finish(s)>>_vars =>
             ([](status[k] # "cleared") /\ <>[](k \in Holding)
                => <>[](status[k] = "active"))
<1>1. SweepInv /\ k \in Holding /\ OnTo(s, k) /\ (status[k] # "cleared")' /\ [Next]_vars
        => OnTo(s, k)'
  BY OnToStep
<1>2. SweepInv /\ <<Finish(s)>>_vars => OnTo(s, k)'
  <2>1. ASSUME SweepInv, Finish(s) PROVE sweep'[s] = Idle
    BY <2>1 DEF Finish, SweepInv, SweepTypes
  <2> QED
    BY <2>1 DEF OnTo, Idle
<1>3. OnTo(s, k) /\ <<Finish(s)>>_vars => (status[k] = "active")'
  BY DEF OnTo, Finish
<1>4. SweepInv /\ status[k] = "active" /\ (status[k] # "cleared")' /\ [Next]_vars
        => (status[k] = "active")'
  BY ShownStays
<1> QED
  BY <1>1, <1>2, <1>3, <1>4, SweepInvariant, PTL DEF Spec

\* However many sweeps overlap and whatever cuts them off, as long as some come
\* to their end: a condition that holds for good is shown for good, where no row
\* has ever been cleared (operational_continuity_service.py:192-221).
THEOREM SweepsSurface == Spec /\ SweepsEnd => SurfacesAtFirst
<1>1. ASSUME NEW k \in Keys
      PROVE  Spec /\ SweepsEnd =>
               ([](\A j \in Keys : status[j] # "cleared") /\ <>[](k \in Holding)
                  => <>[](status[k] = "active"))
  <2>1. (\A j \in Keys : status[j] # "cleared") => status[k] # "cleared"
    OBVIOUS
  <2>2. [](\A j \in Keys : status[j] # "cleared") => [](status[k] # "cleared")
    BY <2>1, PTL
  <2> QED
    BY <2>2, RowSurfaces DEF SweepsEnd
<1> QED
  BY <1>1 DEF SurfacesAtFirst

-----------------------------------------------------------------------------
(* The handlers.                                                           *)

HandlerTypes ==
    /\ handler \in DOMAIN Scripts /\ script = Scripts[handler]
    /\ at \in 1..(Len(script) + 1)
    /\ {answered, early, missed, torn} \subseteq BOOLEAN
    /\ open \subseteq {"write", "want"}
    /\ over \in {"no", "returned", "raised", "killed"}

\* Where a handler has ended, and why.
EndsWhereItMay ==
    /\ over = "returned" => at \notin DOMAIN script \/ script[at].do = "return"
    /\ over = "raised" =>
         /\ at \in DOMAIN script /\ script[at].catch = 0
         /\ \/ script[at].do \in Raising \ Discord
            \/ script[at].do \in Firsts /\ answered
            \/ script[at].do \in FollowUps /\ ~answered
            \/ "discord" \in failed
         /\ script[at].do \in Discord \cup {"raise"} \/ failed # {}

HandlerInv == HandlerTypes /\ EndsWhereItMay

LEMMA SoundScript ==
    ASSUME HandlerTypes
    PROVE  /\ script \in Seq(StepType) /\ StaysInside(script)
           /\ RegionsClosed(script)
           /\ DOMAIN script = 1..Len(script) /\ Len(script) \in Nat
           /\ \A i \in DOMAIN script : script[i] \in StepType
<1>1. script \in Seq(StepType) /\ StaysInside(script) /\ RegionsClosed(script)
  BY ScriptsAreSound DEF HandlerTypes
<1> QED
  BY <1>1

\* A handler is at a step of its script, or has come to its end.
LEMMA AtAStep ==
    ASSUME HandlerTypes
    PROVE  /\ Running => at \in DOMAIN script
           /\ at \notin DOMAIN script => at = Len(script) + 1
  BY SoundScript DEF HandlerTypes, Running

LEMMA WhereItGoes ==
    ASSUME HandlerTypes,
           \/ DoWrite \/ DoCommit \/ BeginTransaction \/ DoWait
           \/ Acknowledge \/ FollowUp \/ Branch
    PROVE  at \in DOMAIN script /\ at' \in Goes(script, at)
<1>1. Running
  BY DEF DoWrite, DoCommit, BeginTransaction, DoWait, Acknowledge, FollowUp,
         Branch, Is, IsOne
<1>2. at \in DOMAIN script
  BY <1>1, AtAStep
<1>3. CASE ~Branch
  BY <1>2, <1>3 DEF DoWrite, DoCommit, BeginTransaction, DoWait, Acknowledge,
                    FollowUp, Is, IsOne, Goes, Firsts, FollowUps
<1>4. CASE Branch
  BY <1>2, <1>4 DEF Branch, Is, Goes
<1> QED
  BY <1>2, <1>3, <1>4

LEMMA WhereItLands ==
    ASSUME HandlerTypes, Throw
    PROVE  /\ at \in DOMAIN script /\ script[at].do \in Raising
           /\ \/ script[at].catch = 0 /\ over' = "raised" /\ at' = at
              \/ over' = over /\ at' \in Lands(script, at)
<1>1. Running
  BY DEF Throw, Refused, Is, IsOne
<1>2. at \in DOMAIN script
  BY <1>1, AtAStep
<1>3. script[at].do \in Raising
  BY DEF Throw, Refused, Is, IsOne, Raising, Discord
<1> QED
  BY <1>2, <1>3 DEF Throw, Lands

LEMMA HandlerStep == HandlerInv /\ [HandlerNext]_handlerVars => HandlerInv'
<1> SUFFICES ASSUME HandlerInv, [HandlerNext]_handlerVars PROVE HandlerInv'
  OBVIOUS
<1>0. HandlerTypes
  BY DEF HandlerInv
<1>1. ASSUME script' = script, at \in DOMAIN script, at' \in Leads(script, at)
      PROVE  at' \in 1..(Len(script') + 1)
  BY <1>0, <1>1, SoundScript DEF StaysInside
<1>2. CASE \/ DoWrite \/ DoCommit \/ BeginTransaction \/ DoWait
           \/ Acknowledge \/ FollowUp \/ Branch
  <2>1. at' \in 1..(Len(script') + 1)
    BY <1>0, <1>1, <1>2, WhereItGoes
       DEF Leads, DoWrite, DoCommit, BeginTransaction, DoWait, Acknowledge,
           FollowUp, Branch
  <2>2. over' = "no"
    BY <1>2 DEF DoWrite, DoCommit, BeginTransaction, DoWait, Acknowledge,
                FollowUp, Branch, Is, IsOne, Running
  <2> QED
    BY <1>0, <1>2, <2>1, <2>2
       DEF HandlerInv, HandlerTypes, EndsWhereItMay, DoWrite, DoCommit,
           BeginTransaction, DoWait, Acknowledge, FollowUp, Branch, Rows, IsOne
<1>3. CASE Leave
  BY <1>0, <1>3, AtAStep
     DEF Leave, HandlerInv, HandlerTypes, EndsWhereItMay, Rows, Is, Running
<1>4. CASE Throw
  <2>1. at' \in 1..(Len(script') + 1)
    BY <1>0, <1>1, <1>4, WhereItLands DEF Leads, Throw, HandlerTypes
  <2>2. HandlerTypes'
    BY <1>0, <1>4, <2>1 DEF HandlerTypes, Throw
  <2>3. EndsWhereItMay'
    <3>1. CASE over' = "raised"
      <4>1. /\ at' = at /\ at \in DOMAIN script /\ script[at].catch = 0
            /\ script[at].do \in Raising /\ Running
        BY <1>0, <1>4, <3>1, WhereItLands DEF Throw, Refused, Is, IsOne, Running
      <4>2. UNCHANGED <<script, answered>>
        BY <1>4 DEF Throw
      <4>3. Refused \/ "discord" \in failed' \/ script[at].do \notin Discord
        BY <1>4, <4>1 DEF Throw, IsOne
      <4>4. Refused \/ failed' # {}
        BY <1>4 DEF Throw
      <4> QED
        BY <3>1, <4>1, <4>2, <4>3, <4>4
           DEF EndsWhereItMay, Refused, Is, IsOne, Discord, Raising, Firsts, FollowUps
    <3>2. CASE over' # "raised"
      BY <1>0, <1>4, <3>2, WhereItLands DEF EndsWhereItMay, Throw, Refused, Is, IsOne, Running
    <3> QED
      BY <3>1, <3>2
  <2> QED
    BY <2>2, <2>3 DEF HandlerInv
<1>5. CASE OthersCommitOrRollBack
  BY <1>0, <1>5
     DEF OthersCommitOrRollBack, HandlerInv, HandlerTypes, EndsWhereItMay
<1>6. CASE Crash
  BY <1>0, <1>6 DEF Crash, HandlerInv, HandlerTypes, EndsWhereItMay
<1>7. CASE UNCHANGED handlerVars
  BY <1>0, <1>7 DEF handlerVars, HandlerInv, HandlerTypes, EndsWhereItMay
<1> QED
  BY <1>2, <1>3, <1>4, <1>5, <1>6, <1>7 DEF HandlerNext, Ended

LEMMA HandlerStart == HandlerInit => HandlerInv
<1> SUFFICES ASSUME HandlerInit PROVE HandlerInv
  OBVIOUS
<1>1. Len(script) \in Nat
  BY ScriptsAreSound DEF HandlerInit
<1>2. 1 \in 1..(Len(script) + 1)
  BY <1>1
<1>3. HandlerTypes
  BY <1>2 DEF HandlerInit, HandlerTypes
<1>4. EndsWhereItMay
  BY DEF HandlerInit, EndsWhereItMay
<1> QED
  BY <1>3, <1>4 DEF HandlerInv

LEMMA AlwaysHandler == HandlerSpec => []HandlerInv
  BY HandlerStart, HandlerStep, PTL DEF HandlerSpec

\* What an action that is no end of the handler, of its own or of the process,
\* leaves alone.
LEMMA OthersDisturbNot ==
    ASSUME HandlerTypes,
           \/ Leave \/ OthersCommitOrRollBack \/ Crash \/ Ended
           \/ UNCHANGED handlerVars
    PROVE  /\ UNCHANGED <<handler, script, at, answered, failed, early, missed, torn>>
           /\ open' \subseteq open
           /\ over = "no" \/ over' = over
  BY DEF Leave, OthersCommitOrRollBack, Crash, Ended, handlerVars, Rows, HandlerTypes

-----------------------------------------------------------------------------
(* Answers.                                                                *)

\* A handler is where its region says, as long as Discord does not fail.
AnswersWhereItMay ==
    "discord" \notin failed =>
        at \in IF answered THEN Answered(script) ELSE Unanswered(script)

LEMMA AnswerRegions ==
    ASSUME HandlerTypes
    PROVE  /\ 1 \in Unanswered(script)
           /\ \A i \in Unanswered(script) \cap DOMAIN script :
                /\ BeforeAnswer(script)[i] \subseteq Unanswered(script)
                /\ script[i].do \in Firsts => i + 1 \in Answered(script)
           /\ \A i \in Answered(script) \cap DOMAIN script :
                AfterAnswer(script)[i] \subseteq Answered(script)
<1>1. RegionsClosed(script)
  BY SoundScript
<1>2. DOMAIN BeforeAnswer(script) = DOMAIN script /\ DOMAIN AfterAnswer(script) = DOMAIN script
  BY DEF BeforeAnswer, AfterAnswer
<1>3. /\ IsClosed({1}, BeforeAnswer(script), Unanswered(script))
      /\ IsClosed(FirstAnswers(script), AfterAnswer(script), Answered(script))
  BY <1>1 DEF RegionsClosed
<1> HIDE DEF BeforeAnswer, AfterAnswer, Unanswered, Answered
<1>4. FirstAnswers(script) \subseteq Answered(script)
  BY <1>3 DEF IsClosed
<1>5. \A i \in Unanswered(script) \cap DOMAIN script :
        script[i].do \in Firsts => i + 1 \in FirstAnswers(script)
  BY DEF FirstAnswers, At
<1> QED
  BY <1>2, <1>3, <1>4, <1>5 DEF IsClosed

LEMMA AnswersStep ==
    HandlerInv /\ AnswersWhereItMay /\ [HandlerNext]_handlerVars => AnswersWhereItMay'
<1> SUFFICES ASSUME HandlerInv, AnswersWhereItMay, [HandlerNext]_handlerVars,
                    "discord" \notin failed'
             PROVE  at' \in IF answered' THEN Answered(script') ELSE Unanswered(script')
  BY DEF AnswersWhereItMay
<1>0. HandlerTypes
  BY DEF HandlerInv
<1>1. CASE Leave \/ OthersCommitOrRollBack \/ Crash \/ Ended \/ UNCHANGED handlerVars
  BY <1>0, <1>1, OthersDisturbNot DEF AnswersWhereItMay
<1>2. CASE DoWrite \/ DoCommit \/ BeginTransaction \/ DoWait \/ Branch
  <2>1. at \in DOMAIN script /\ at' \in Goes(script, at)
    BY <1>0, <1>2, WhereItGoes
  <2>2. UNCHANGED <<script, answered, failed>>
    BY <1>2 DEF DoWrite, DoCommit, BeginTransaction, DoWait, Branch
  <2>3. script[at].do \notin Firsts \cup FollowUps
    BY <1>2 DEF DoWrite, DoCommit, BeginTransaction, DoWait, Branch, Is, IsOne,
                Firsts, FollowUps
  <2>4. script[at].do = "answered?" =>
          at' = IF answered THEN at + 1 ELSE at + script[at].to
    BY <1>2 DEF DoWrite, DoCommit, BeginTransaction, DoWait, Branch, Is, IsOne
  <2>5. script[at].do = "post" => at' = at + 1
    BY <2>1 DEF Goes
  <2>6. at' \in IF answered THEN AfterAnswer(script)[at] ELSE BeforeAnswer(script)[at]
    BY <2>1, <2>3, <2>4, <2>5 DEF AfterAnswer, BeforeAnswer, Leads
  <2> QED
    BY <1>0, <2>1, <2>2, <2>6, AnswerRegions DEF AnswersWhereItMay
<1>3. CASE Acknowledge
  <2>1. at \in DOMAIN script /\ script[at].do \in Firsts /\ ~answered
    BY <1>0, <1>3, WhereItGoes DEF Acknowledge, IsOne
  <2>2. at' = at + 1 /\ answered' /\ UNCHANGED <<script, failed>>
    BY <1>3 DEF Acknowledge
  <2> QED
    BY <1>0, <2>1, <2>2, AnswerRegions DEF AnswersWhereItMay
<1>4. CASE FollowUp
  <2>1. at \in DOMAIN script /\ script[at].do \in FollowUps /\ answered
    BY <1>0, <1>4, WhereItGoes DEF FollowUp, IsOne
  <2>2. at' = at + 1 /\ answered' /\ UNCHANGED <<script, failed>>
    BY <1>4, <2>1 DEF FollowUp
  <2>3. at' \in AfterAnswer(script)[at]
    BY <2>1, <2>2 DEF AfterAnswer, Firsts, FollowUps
  <2> QED
    BY <1>0, <2>1, <2>2, <2>3, AnswerRegions DEF AnswersWhereItMay
\* What Discord refuses is caught where anything else is.
<1>5. CASE Throw
  <2>1. at \in DOMAIN script /\ UNCHANGED <<script, answered>>
    BY <1>0, <1>5, WhereItLands DEF Throw
  <2>2. failed \subseteq failed'
    BY <1>5 DEF Throw
  <2>3. CASE at' = at
    BY <2>1, <2>2, <2>3 DEF AnswersWhereItMay
  <2>4. CASE at' \in Lands(script, at)
    <3>1. Refused \/ script[at].do \notin Discord
      BY <1>5 DEF Throw, IsOne, Refused, Is
    <3>2. at' \in IF answered THEN AfterAnswer(script)[at] ELSE BeforeAnswer(script)[at]
      BY <2>1, <2>4, <3>1
         DEF AfterAnswer, BeforeAnswer, Leads, Refused, Is, IsOne, Discord,
             Firsts, FollowUps, Lands, Raising
    <3> QED
      BY <1>0, <2>1, <2>2, <3>2, AnswerRegions DEF AnswersWhereItMay
  <2> QED
    BY <1>0, <1>5, <2>3, <2>4, WhereItLands
<1> QED
  BY <1>1, <1>2, <1>3, <1>4, <1>5 DEF HandlerNext

LEMMA AlwaysAnswers == HandlerSpec => [](HandlerInv /\ AnswersWhereItMay)
<1>1. HandlerInit => AnswersWhereItMay
  BY HandlerStart, AnswerRegions DEF HandlerInit, HandlerInv, AnswersWhereItMay
<1> QED
  BY <1>1, AlwaysHandler, AnswersStep, PTL DEF HandlerSpec

\* No interaction of the handlers that keep the rule is answered twice or
\* followed up before it was answered, whatever raises in between and whoever
\* then handles it (leisureLLM.py:418-457; the handlers are mapped by name).
THEOREM EveryHandlerAnswersOnce == HandlerSpec => []AnsweredOnce
<1>1. HandlerInv /\ AnswersWhereItMay => AnsweredOnce
  <2> SUFFICES ASSUME HandlerInv, AnswersWhereItMay, Asked, "discord" \notin failed,
                      handler \notin AnswersTwice
               PROVE  ~(IsOne(Firsts) /\ answered) /\ ~(IsOne(FollowUps) /\ ~answered)
    BY DEF AnsweredOnce
  <2>0. HandlerTypes
    BY DEF HandlerInv
  <2>1. AnswersOnce(script)
    BY <2>0, RulesAreKept DEF HandlerTypes, Asked
  <2>2. Running => at \in DOMAIN script
    BY <2>0, AtAStep
  <2> QED
    BY <2>1, <2>2 DEF AnswersOnce, AnswersWhereItMay, IsOne, At
<1> QED
  BY <1>1, AlwaysAnswers, PTL

\* The handlers that keep the rules have answered before they ask a model or read
\* the index, and when they end, by whatever exception of the store or the model
\* (leisureLLM.py:418-457; the handlers are mapped by name).
THEOREM EveryHandlerAnswersInTime == HandlerSpec => []AnsweredInTime
<1>1. HandlerInv /\ AnswersWhereItMay => AnsweredInTime
  <2> SUFFICES ASSUME HandlerInv, AnswersWhereItMay, Asked, "discord" \notin failed,
                      ~answered
               PROVE  /\ Is("slow") => handler \in AnswersLate
                      /\ Done => handler \in NeverAnswers
    BY DEF AnsweredInTime
  <2>0. HandlerTypes /\ at \in Unanswered(script)
    BY DEF HandlerInv, AnswersWhereItMay
  <2>1. Is("slow") => handler \in AnswersLate
    <3>1. handler \notin AnswersLate => AnswersFirst(script)
      BY <2>0, RulesAreKept DEF HandlerTypes, Asked
    <3> QED
      BY <2>0, <3>1, AtAStep DEF AnswersFirst, Is, At
  <2>2. Done => handler \in NeverAnswers
    <3>1. handler \notin NeverAnswers => AnswersAtAll(script)
      BY <2>0, RulesAreKept DEF HandlerTypes, Asked
    <3>2. Done => MayEnd(script, at)
      BY DEF HandlerInv, EndsWhereItMay, Done, MayEnd, Discord, Firsts, FollowUps, Raising
    <3> QED
      BY <2>0, <3>1, <3>2 DEF AnswersAtAll
  <2> QED
    BY <2>1, <2>2
<1> QED
  BY <1>1, AlwaysAnswers, PTL

-----------------------------------------------------------------------------
(* Writes.                                                                 *)

\* Where a handler may be while a write failed that it is to tell of, while one
\* waits for its commit, after a commit, and while anything waits for one.
WritesWhereItMay ==
    /\ over = "no" /\ missed => at \in AfterFailure(script)
    /\ "want" \in open => at \in Pending(script)
    /\ early => at \in AfterCommit(script)
    /\ handler \notin HoldsLock /\ failed = {} /\ open # {} => at \in Open(script)

LEMMA WriteRegions ==
    ASSUME HandlerTypes, NEW i \in DOMAIN script
    PROVE  /\ i \in AfterFailure(script) => Leads(script, i) \subseteq AfterFailure(script)
           /\ script[i].do = "want" => /\ Lands(script, i) \subseteq AfterFailure(script)
                                       /\ i + 1 \in Pending(script)
           /\ i \in Pending(script) /\ script[i].do # "commit" =>
                /\ Goes(script, i) \subseteq Pending(script)
                /\ ~script[i].undo => Lands(script, i) \subseteq Pending(script)
           /\ script[i].do = "commit" => i + 1 \in AfterCommit(script)
           /\ i \in AfterCommit(script) /\ script[i].do # "begin" =>
                Leads(script, i) \subseteq AfterCommit(script)
           /\ script[i].do \in {"write", "want"} => i + 1 \in Open(script)
           /\ i \in Open(script) /\ script[i].do # "commit" =>
                Goes(script, i) \subseteq Open(script)
<1>1. RegionsClosed(script)
  BY SoundScript
<1>2. i \in AfterFailure(script) => Leads(script, i) \subseteq AfterFailure(script)
  <2>1. IsClosed(Failures(script), AnyLead(script), AfterFailure(script))
    BY <1>1 DEF RegionsClosed
  <2> QED
    BY <2>1 DEF IsClosed, AnyLead
<1>3. script[i].do = "want" => Lands(script, i) \subseteq AfterFailure(script)
  <2>1. Failures(script) \subseteq AfterFailure(script)
    BY <1>1 DEF RegionsClosed, IsClosed
  <2> QED
    BY <2>1 DEF Failures, At
<1>4. script[i].do = "want" => i + 1 \in Pending(script)
  <2>1. Wanted(script) \subseteq Pending(script)
    BY <1>1 DEF RegionsClosed, IsClosed
  <2> QED
    BY <2>1 DEF Wanted, At
<1>5. i \in Pending(script) /\ script[i].do # "commit" =>
        /\ Goes(script, i) \subseteq Pending(script)
        /\ ~script[i].undo => Lands(script, i) \subseteq Pending(script)
  <2>1. IsClosed(Wanted(script), UntilCommit(script), Pending(script))
    BY <1>1 DEF RegionsClosed
  <2>2. i \in Pending(script) => UntilCommit(script)[i] \subseteq Pending(script)
    BY <2>1 DEF IsClosed, UntilCommit
  <2> QED
    BY <2>2 DEF UntilCommit
<1>6. script[i].do = "commit" => i + 1 \in AfterCommit(script)
  <2>1. Commits(script) \subseteq AfterCommit(script)
    BY <1>1 DEF RegionsClosed, IsClosed
  <2> QED
    BY <2>1 DEF Commits, At
<1>7. i \in AfterCommit(script) /\ script[i].do # "begin" =>
        Leads(script, i) \subseteq AfterCommit(script)
  <2>1. IsClosed(Commits(script), UntilBegin(script), AfterCommit(script))
    BY <1>1 DEF RegionsClosed
  <2> QED
    BY <2>1 DEF IsClosed, UntilBegin
<1>8. script[i].do \in {"write", "want"} => i + 1 \in Open(script)
  <2>1. Writes(script) \subseteq Open(script)
    BY <1>1 DEF RegionsClosed, IsClosed
  <2> QED
    BY <2>1 DEF Writes, At
<1>9. i \in Open(script) /\ script[i].do # "commit" =>
        Goes(script, i) \subseteq Open(script)
  <2>1. IsClosed(Writes(script), Untroubled(script), Open(script))
    BY <1>1 DEF RegionsClosed
  <2> QED
    BY <2>1 DEF IsClosed, Untroubled
<1> QED
  BY <1>2, <1>3, <1>4, <1>5, <1>6, <1>7, <1>8, <1>9

\* A write is kept whole: while one waits that its user is to be told of, none
\* has failed. Nothing is undone too late.
WritesSound ==
    /\ handler \notin LeavesHalf \cup OneByOne =>
         ("want" \in open => ~missed)
    /\ ~torn

WriteInv == WritesWhereItMay /\ WritesSound

LEMMA WriteRules ==
    ASSUME HandlerTypes
    PROVE  /\ handler \notin SwallowsFailure => TellsOfStored(script)
           /\ handler \notin LeavesHalf \cup OneByOne => WritesWhole(script)
           /\ handler \notin HoldsLock => CommitsBeforeItWaits(script)
           /\ UndoesInTime(script)
  BY RulesAreKept DEF HandlerTypes

LEMMA WritesStep ==
    HandlerInv /\ WriteInv /\ [HandlerNext]_handlerVars => WriteInv'
<1> SUFFICES ASSUME HandlerInv, WriteInv, [HandlerNext]_handlerVars PROVE WriteInv'
  OBVIOUS
<1>0. HandlerTypes
  BY DEF HandlerInv
<1>1. CASE Leave \/ OthersCommitOrRollBack \/ Crash \/ Ended \/ UNCHANGED handlerVars
  <2>1. failed' = failed
    BY <1>1 DEF Leave, OthersCommitOrRollBack, Crash, Ended, handlerVars
  <2>2. over' = "no" => over = "no"
    BY <1>0, <1>1, OthersDisturbNot
  <2> QED
    BY <1>0, <1>1, <2>1, <2>2, OthersDisturbNot DEF WriteInv, WritesWhereItMay, WritesSound
<1>2. CASE DoWrite
  <2>1. at \in DOMAIN script /\ at' = at + 1 /\ Goes(script, at) = {at + 1}
    BY <1>0, <1>2, WhereItGoes DEF DoWrite, IsOne, Goes
  <2>2. /\ over = "no" /\ script[at].do \in {"write", "want"}
        /\ open' = open \cup {script[at].do}
        /\ UNCHANGED <<handler, script, over, failed, early, missed, torn>>
    BY <1>2 DEF DoWrite, IsOne, Running
  <2>3. handler \notin LeavesHalf \cup OneByOne /\ script[at].do = "want" => ~missed
    BY <1>0, <2>1, <2>2, WriteRules DEF WritesWhole, At, WriteInv, WritesWhereItMay
  <2> QED
    BY <1>0, <2>1, <2>2, <2>3, WriteRegions DEF WriteInv, WritesWhereItMay, WritesSound, Leads
<1>3. CASE DoCommit
  <2>1. at \in DOMAIN script /\ at' = at + 1 /\ Goes(script, at) = {at + 1}
    BY <1>0, <1>3, WhereItGoes DEF DoCommit, Is, Goes
  <2>2. /\ over = "no" /\ script[at].do = "commit" /\ open' = {}
        /\ UNCHANGED <<handler, script, over, failed, missed, torn>>
    BY <1>3 DEF DoCommit, Is, Running
  <2>3. over = "no" /\ missed => at + 1 \in AfterFailure(script)
    BY <1>0, <2>1, WriteRegions DEF WriteInv, WritesWhereItMay, Leads
  <2> QED
    BY <1>0, <2>1, <2>2, <2>3, WriteRegions DEF WriteInv, WritesWhereItMay, WritesSound
<1>4. CASE BeginTransaction \/ DoWait \/ Acknowledge \/ FollowUp \/ Branch
  <2>1. at \in DOMAIN script /\ at' \in Goes(script, at)
    BY <1>0, <1>4, WhereItGoes
  <2>2. UNCHANGED <<handler, script, over, failed, open, missed, torn>>
    BY <1>4 DEF BeginTransaction, DoWait, Acknowledge, FollowUp, Branch, Rows
  <2>3. early' = FALSE \/ (early' = early /\ script[at].do # "begin")
    <3>1. CASE BeginTransaction
      BY <3>1 DEF BeginTransaction
    <3>2. CASE DoWait \/ Acknowledge \/ FollowUp \/ Branch
      <4>1. early' = early
        BY <3>2 DEF DoWait, Acknowledge, FollowUp, Branch, Rows
      <4>2. script[at].do # "begin"
        BY <3>2 DEF DoWait, Acknowledge, FollowUp, Branch, Is, IsOne, Firsts, FollowUps
      <4> QED
        BY <4>1, <4>2
    <3> QED
      BY <1>4, <3>1, <3>2
  <2>4. script[at].do # "commit"
    BY <1>4 DEF BeginTransaction, DoWait, Acknowledge, FollowUp, Branch, Is,
                IsOne, Firsts, FollowUps
  <2>5. WritesSound'
    BY <2>2 DEF WriteInv, WritesSound
  <2>6. early' => at' \in AfterCommit(script)
    BY <1>0, <2>1, <2>3, WriteRegions DEF WriteInv, WritesWhereItMay, Leads
  <2>7. over' = "no" /\ missed' => at' \in AfterFailure(script)
    BY <1>0, <2>1, <2>2, WriteRegions DEF WriteInv, WritesWhereItMay, Leads
  <2>8. "want" \in open' => at' \in Pending(script)
    BY <1>0, <2>1, <2>2, <2>4, WriteRegions DEF WriteInv, WritesWhereItMay
  <2>9. handler' \notin HoldsLock /\ failed' = {} /\ open' # {} => at' \in Open(script)
    BY <1>0, <2>1, <2>2, <2>4, WriteRegions DEF WriteInv, WritesWhereItMay
  <2> QED
    BY <2>2, <2>5, <2>6, <2>7, <2>8, <2>9 DEF WriteInv, WritesWhereItMay
<1>5. CASE Throw
  <2>1. /\ at \in DOMAIN script /\ script[at].do \in Raising
        /\ \/ at' = at /\ over' = "raised"
           \/ over' = over /\ at' \in Lands(script, at)
    BY <1>0, <1>5, WhereItLands
  <2>2. /\ over = "no" /\ UNCHANGED <<handler, script, early>>
        /\ open' = IF script[at].undo THEN {} ELSE open
        /\ torn' = IF script[at].undo THEN torn \/ early ELSE torn
        /\ missed' = (missed \/ script[at].do = "want")
    BY <1>5 DEF Throw, Refused, Is, IsOne, Running
  <2>3. script[at].do \notin {"commit", "begin"}
    BY <2>1 DEF Raising, Discord, Firsts, FollowUps
  <2>4. ~torn'
    BY <1>0, <2>1, <2>2, WriteRules DEF UndoesInTime, At, WriteInv, WritesWhereItMay, WritesSound
  <2>5. handler \notin LeavesHalf \cup OneByOne => ("want" \in open' => ~missed')
    <3>1. ASSUME WritesWhole(script), "want" \in open' PROVE script[at].do # "want"
      BY <2>1, <2>2, <3>1 DEF WritesWhole, At, WriteInv, WritesWhereItMay
    <3> QED
      BY <1>0, <2>2, <3>1, WriteRules DEF WriteInv, WritesSound
  <2>6. over' = "no" /\ missed' => at' \in AfterFailure(script)
    BY <1>0, <2>1, <2>2, WriteRegions DEF WriteInv, WritesWhereItMay, Leads
  <2>7. "want" \in open' => at' \in Pending(script)
    BY <1>0, <2>1, <2>2, <2>3, WriteRegions DEF WriteInv, WritesWhereItMay
  <2>8. early' => at' \in AfterCommit(script)
    BY <1>0, <2>1, <2>2, <2>3, WriteRegions DEF WriteInv, WritesWhereItMay, Leads
  <2>9. handler \notin HoldsLock /\ failed' = {} => open' = {}
    <3>1. failed' = {} => failed = {} /\ Refused
      BY <1>5 DEF Throw
    <3>2. Refused => script[at].do \in Discord \cup {"raise"}
      BY DEF Refused, Is, IsOne, Discord
    <3>3. handler \notin HoldsLock /\ Refused => at \notin Open(script)
      BY <1>0, <2>1, <3>2, WriteRules DEF CommitsBeforeItWaits, At
    <3> QED
      BY <2>2, <3>1, <3>3 DEF WriteInv, WritesWhereItMay
  <2> QED
    BY <2>2, <2>4, <2>5, <2>6, <2>7, <2>8, <2>9 DEF WriteInv, WritesWhereItMay, WritesSound
<1> QED
  BY <1>1, <1>2, <1>3, <1>4, <1>5 DEF HandlerNext


LEMMA AlwaysWrites == HandlerSpec => [](HandlerInv /\ WriteInv)
<1>1. HandlerInit => WriteInv
  BY DEF HandlerInit, WriteInv, WritesWhereItMay, WritesSound
<1> QED
  BY <1>1, AlwaysHandler, WritesStep, PTL DEF HandlerSpec

\* Whoever is told by a handler that keeps the rule that something was done can
\* rely on it: it was written and committed (database.py:229-307; the handlers
\* are mapped by name).
THEOREM EveryHandlerTellsOfStored == HandlerSpec => []ToldIsStored
<1>1. HandlerInv /\ WriteInv => ToldIsStored
  <2> SUFFICES ASSUME HandlerInv, WriteInv, handler \notin SwallowsFailure, IsOne(Success)
               PROVE  "want" \notin open /\ ~missed
    BY DEF ToldIsStored
  <2>0. HandlerTypes
    BY DEF HandlerInv
  <2>1. at \in At(script, Success) /\ over = "no"
    BY <2>0, AtAStep DEF IsOne, At, Running
  <2>2. at \notin AfterFailure(script) \cup Pending(script)
    BY <2>0, <2>1, WriteRules DEF TellsOfStored
  <2> QED
    BY <2>1, <2>2 DEF WriteInv, WritesWhereItMay
<1> QED
  BY <1>1, AlwaysWrites, PTL

\* What is asked of a handler that keeps the rule is stored as a whole or not at
\* all, and no handler rolls back after a call inside its transaction committed
\* (database.py:289-307; the handlers are mapped by name).
THEOREM NoHandlerLeavesHalf == HandlerSpec => []NothingHalfDone
<1>1. WriteInv => NothingHalfDone
  BY DEF WriteInv, WritesSound, NothingHalfDone
<1> QED
  BY <1>1, AlwaysWrites, PTL

\* As long as nothing fails, no handler that keeps the rule waits for a model or
\* for Discord with a write open, or ends and leaves one behind
\* (database.py:229-286; the handlers are mapped by name).
THEOREM NoHandlerHoldsTheLock == HandlerSpec => []LockIsBrief
<1>1. HandlerInv /\ WriteInv => LockIsBrief
  <2> SUFFICES ASSUME HandlerInv, WriteInv, failed = {}, handler \notin HoldsLock,
                      open # {}
               PROVE  ~IsOne(Discord \cup {"slow"}) /\ ~Done
    BY DEF LockIsBrief
  <2>0. HandlerTypes
    BY DEF HandlerInv
  <2>1. at \in Open(script)
    BY DEF WriteInv, WritesWhereItMay
  <2>2. at \in DOMAIN script /\ script[at].do \notin Discord \cup {"slow", "return", "raise"}
    BY <2>0, <2>1, WriteRules DEF CommitsBeforeItWaits, At
  <2> QED
    BY <2>2 DEF IsOne, Done, HandlerInv, EndsWhereItMay
<1> QED
  BY <1>1, AlwaysWrites, PTL
=============================================================================
