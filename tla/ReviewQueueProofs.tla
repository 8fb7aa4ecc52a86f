-------------------------- MODULE ReviewQueueProofs --------------------------
(***************************************************************************)
(* For any items, reviewers and policy: what the overlay keeps of repeated *)
(* deferrals survives every race between reviewers and every action that   *)
(* is cut off, and a proposal that is put off is hidden.                   *)
(***************************************************************************)
EXTENDS ReviewQueue, TLAPS

\* What holds of an overlay row of an item that was put off n times.
RowSound(i, w, n) ==
    /\ w.count >= EscalateAfter => w.flagged
    /\ w.count <= n
    /\ Type[i] # "pending_human_review" /\ w.last = "defer"
         /\ w.count >= EscalateAfter => w.override >= High

\* What an action in flight remembers of its item: a row that was not ahead of
\* the deferrals written, and a severity the item was derived with or worse.
OpSound(o) ==
    /\ o.row.count <= deferrals[o.item]
    /\ o.act = "defer" /\ Type[o.item] # "pending_human_review"
         => o.severity >= Medium

RowsSound ==
    \A i \in Items :
        overlay[i] # NoOverlay => RowSound(i, overlay[i], deferrals[i])

OpsSound == \A r \in Reviewers : op[r] # Idle => OpSound(op[r])

QueueInv == TypeOK /\ RowsSound /\ OpsSound

-----------------------------------------------------------------------------
(* Rows and severities.                                                    *)

LEMMA BlankIsOverlay == Blank \in Overlay
  BY DEF Blank, Overlay, Routes

LEMMA RowOfSound ==
    ASSUME QueueInv, NEW i \in Items
    PROVE  RowOf(i) \in Overlay /\ RowSound(i, RowOf(i), deferrals[i])
<1>1. CASE overlay[i] = NoOverlay
  BY <1>1, BlankIsOverlay, QueueAssumption
     DEF RowOf, RowSound, Blank, QueueInv, TypeOK
<1>2. CASE overlay[i] # NoOverlay
  BY <1>2 DEF RowOf, QueueInv, RowsSound, TypeOK
<1> QED
  BY <1>1, <1>2

\* An item that is not of the one low type is never derived as low.
LEMMA SeverityFloor ==
    ASSUME QueueInv, NEW i \in Items, base[i] # 0
    PROVE  /\ Severity(i) \in Severities
           /\ Type[i] # "pending_human_review" => Severity(i) >= Medium
<1>1. RowOf(i).override \in Severities \cup {0}
  BY RowOfSound DEF Overlay
<1>2. base[i] \in Severities /\ base[i] \in SeveritiesOf(Type[i])
  BY DEF QueueInv, TypeOK
<1>3. Type[i] # "pending_human_review" => base[i] >= Medium
  BY <1>2 DEF SeveritiesOf, Low, Medium, High, Critical
<1> QED
  BY <1>1, <1>2, <1>3 DEF Severity, Severities, Low, Medium, High, Critical

LEMMA BumpRises ==
    ASSUME NEW s \in Severities
    PROVE  Bump(s) \in Severities /\ (s >= Medium => Bump(s) >= High)
  BY DEF Bump, Severities, Low, Medium, High, Critical

-----------------------------------------------------------------------------
(* What a step does to the invariant.                                      *)

\* A step of one reviewer that leaves the overlay alone.
LEMMA OpStep ==
    ASSUME QueueInv, NEW r \in Reviewers, NEW o \in Op \cup {Idle},
           op' = [op EXCEPT ![r] = o], o # Idle => OpSound(o),
           UNCHANGED <<overlay, deferrals>>,
           base' \in [Items -> Severities \cup {0}],
           \A i \in Items : base'[i] \in SeveritiesOf(Type[i]) \cup {0},
           actions' \in Nat
    PROVE  QueueInv'
<1>1. TypeOK'
  BY DEF QueueInv, TypeOK
<1>2. RowsSound'
  BY DEF QueueInv, RowsSound, RowSound
<1>3. OpsSound'
  BY DEF QueueInv, OpsSound, OpSound, TypeOK
<1> QED
  BY <1>1, <1>2, <1>3 DEF QueueInv

\* A reviewer begins an action.
LEMMA BeginStep ==
    ASSUME QueueInv, NEW r \in Reviewers, NEW i \in Items, NEW act \in Acts,
           NEW stage \in {"settle", "look"}, NEW days \in Nat,
           NEW target \in Severities \cup {0}, NEW route \in Routes,
           Begin(r, i, Asked(act, i, stage, days, target, route))
    PROVE  QueueInv'
<1> DEFINE o == Asked(act, i, stage, days, target, route)
<1>1. base[i] # 0
  BY DEF Begin
<1>2. o \in Op
  BY <1>1, SeverityFloor, BlankIsOverlay DEF Asked, Op
<1>3. OpSound(o)
  BY <1>1, SeverityFloor DEF Asked, OpSound, Blank, QueueInv, TypeOK
<1> HIDE DEF o
<1>4. op' = [op EXCEPT ![r] = o] /\ UNCHANGED <<base, overlay, deferrals>>
  BY DEF Begin, o
<1>5. actions' \in Nat
  BY DEF Begin, QueueInv, TypeOK
<1> QED
  BY <1>2, <1>3, <1>4, <1>5, OpStep DEF QueueInv, TypeOK

LEMMA InFlight ==
    ASSUME QueueInv, NEW r \in Reviewers, op[r] # Idle
    PROVE  op[r] \in Op /\ OpSound(op[r]) /\ op[r].item \in Items
  BY DEF QueueInv, TypeOK, OpsSound, Op

\* The row an action writes is sound, whatever happened since it looked.
LEMMA NewRowSound ==
    ASSUME QueueInv, NEW r \in Reviewers, At(r, "write"),
           NEW was, was = RowOf(op[r].item),
           NEW n, n = IF op[r].act = "defer" THEN deferrals[op[r].item] + 1
                                             ELSE deferrals[op[r].item]
    PROVE  /\ NewRow(op[r], was) \in Overlay
           /\ RowSound(op[r].item, NewRow(op[r], was), n)
<1> DEFINE o == op[r]
           i == op[r].item
<1>1. o \in Op /\ OpSound(o) /\ i \in Items
  BY InFlight DEF At
<1>2. was \in Overlay /\ RowSound(i, was, deferrals[i])
  BY <1>1, RowOfSound
<1>3. deferrals[i] \in Nat
  BY <1>1 DEF QueueInv, TypeOK
<1>4. /\ o.row \in Overlay /\ o.days \in Nat /\ o.severity \in Severities
      /\ o.target \in Severities \cup {0} /\ o.route \in Routes /\ o.act \in Acts
  BY <1>1 DEF Op
<1>5. CASE o.act = "defer"
  <2> DEFINE w == Deferral(o, was)
         over == IF Count(o) >= BumpAfter THEN Bump(o.severity) ELSE 0
         flag == IF RouteAfter(o) # "nowhere" THEN TRUE ELSE o.row.flagged
  <2>1. w = [left |-> o.days, count |-> o.row.count + 1, override |-> over,
             route |-> RouteAfter(o), flagged |-> flag,
             resolved |-> was.resolved, last |-> "defer"]
    BY DEF Deferral, Count
  <2>2. RouteAfter(o) \in Routes
    BY <1>4 DEF RouteAfter, Routes, Overlay
  <2>3. over \in Severities \cup {0}
    BY <1>4, BumpRises
  <2>4. flag \in BOOLEAN /\ o.row.count + 1 \in Nat
    <3>1. o.row.flagged \in BOOLEAN /\ o.row.count \in Nat
      BY <1>4 DEF Overlay
    <3>2. RouteAfter(o) # "nowhere" => flag = TRUE
      OBVIOUS
    <3>3. RouteAfter(o) = "nowhere" => flag = o.row.flagged
      OBVIOUS
    <3> HIDE DEF flag
    <3>4. flag \in BOOLEAN
      BY <3>1, <3>2, <3>3
    <3> QED
      BY <3>1, <3>4
  <2>5. w \in Overlay
    <3>1. was.resolved \in BOOLEAN /\ "defer" \in Acts
      BY <1>2 DEF Overlay, Acts
    <3> HIDE DEF w, over, flag
    <3> QED
      BY <1>4, <2>1, <2>2, <2>3, <2>4, <3>1 DEF Overlay
  <2>6. w.count <= n
    BY <1>1, <1>3, <1>4, <1>5, <2>1 DEF OpSound, Overlay
  <2>7. w.count >= EscalateAfter => w.flagged
    BY <2>1 DEF RouteAfter, Count
  <2>8. w.count >= EscalateAfter /\ Type[i] # "pending_human_review"
          => w.override >= High
    <3>1. w.count >= EscalateAfter => Count(o) >= BumpAfter
      BY <2>1, <2>4, QueueAssumption DEF Count
    <3>2. Type[i] # "pending_human_review" => o.severity >= Medium
      BY <1>1, <1>5 DEF OpSound
    <3> QED
      BY <1>4, <2>1, <3>1, <3>2, BumpRises
  <2>9. NewRow(o, was) = w
    BY <1>5 DEF NewRow
  <2> HIDE DEF w
  <2> QED
    BY <2>5, <2>6, <2>7, <2>8, <2>9 DEF RowSound
<1>6. CASE o.act = "escalate"
  <2> DEFINE w == Escalation(o, was)
  <2>1. /\ w \in Overlay /\ w.count = was.count /\ w.flagged = TRUE
        /\ w.last = "escalate"
    BY <1>2, <1>4, <1>6 DEF Escalation, Overlay
  <2>2. NewRow(o, was) = w
    BY <1>6 DEF NewRow
  <2> HIDE DEF w
  <2> QED
    BY <1>2, <1>3, <1>6, <2>1, <2>2 DEF RowSound
<1>7. CASE o.act \notin {"defer", "escalate"}
  <2> DEFINE w == Settlement(o, was)
  <2>1. /\ w \in Overlay /\ w.count = was.count /\ w.flagged = was.flagged
        /\ w.last = o.act
    BY <1>2, <1>4, <1>7 DEF Settlement, Overlay
  <2>2. NewRow(o, was) = w
    BY <1>7 DEF NewRow
  <2> HIDE DEF w
  <2> QED
    BY <1>2, <1>3, <1>7, <2>1, <2>2 DEF RowSound
<1> QED
  BY <1>5, <1>6, <1>7

\* An action writes its row and is done.
LEMMA WriteStep ==
    ASSUME QueueInv, NEW r \in Reviewers, Write(r)
    PROVE  QueueInv'
<1> DEFINE i == op[r].item
           w == NewRow(op[r], RowOf(i))
           n == IF op[r].act = "defer" THEN deferrals[i] + 1 ELSE deferrals[i]
<1>1. op[r] \in Op /\ i \in Items
  BY InFlight DEF Write, At
<1>2. w \in Overlay /\ RowSound(i, w, n)
  BY NewRowSound DEF Write
<1>3. /\ overlay' = [overlay EXCEPT ![i] = w]
      /\ deferrals' = [deferrals EXCEPT ![i] = n]
      /\ op' = [op EXCEPT ![r] = Idle]
      /\ UNCHANGED <<base, actions>>
  BY DEF Write, Done
<1>4. n \in Nat /\ n >= deferrals[i]
  BY <1>1 DEF QueueInv, TypeOK
<1> HIDE DEF w, n
<1>5. TypeOK'
  BY <1>1, <1>2, <1>3, <1>4 DEF QueueInv, TypeOK
<1>6. RowsSound'
  <2> SUFFICES ASSUME NEW j \in Items, overlay'[j] # NoOverlay
               PROVE  RowSound(j, overlay'[j], deferrals'[j])
    BY DEF RowsSound, RowSound
  <2>1. CASE j = i
    BY <2>1, <1>1, <1>2, <1>3 DEF QueueInv, TypeOK
  <2>2. CASE j # i
    <3>1. overlay'[j] = overlay[j] /\ deferrals'[j] = deferrals[j]
      BY <2>2, <1>1, <1>3 DEF QueueInv, TypeOK
    <3> QED
      BY <3>1 DEF QueueInv, RowsSound
  <2> QED
    BY <2>1, <2>2
<1>7. OpsSound'
  <2> SUFFICES ASSUME NEW q \in Reviewers, op'[q] # Idle
               PROVE  OpSound(op[q])'
    BY DEF OpsSound, OpSound
  <2>1. q # r /\ op'[q] = op[q]
    BY <1>3 DEF QueueInv, TypeOK
  <2>2. op[q] \in Op /\ OpSound(op[q]) /\ op[q].item \in Items
    BY <2>1, InFlight
  <2>3. op[q].row.count \in Nat
    BY <2>2 DEF Op, Overlay
  <2>4. /\ deferrals[op[q].item] \in Nat
        /\ deferrals'[op[q].item] \in Nat
        /\ deferrals[op[q].item] <= deferrals'[op[q].item]
    BY <1>1, <1>3, <1>4, <2>2 DEF QueueInv, TypeOK
  <2> QED
    BY <2>1, <2>2, <2>3, <2>4 DEF OpSound
<1> QED
  BY <1>5, <1>6, <1>7 DEF QueueInv

\* A reviewer reads the row it will build on.
LEMMA LookStep ==
    ASSUME QueueInv, NEW r \in Reviewers, Look(r)
    PROVE  QueueInv'
<1> DEFINE o == [op[r] EXCEPT !.row = RowOf(op[r].item), !.stage = "check"]
<1>1. op[r] \in Op /\ OpSound(op[r]) /\ op[r].item \in Items
  BY InFlight DEF Look, At
<1>2. RowOf(op[r].item) \in Overlay
      /\ RowSound(op[r].item, RowOf(op[r].item), deferrals[op[r].item])
  BY <1>1, RowOfSound
<1>3. o \in Op
  BY <1>1, <1>2 DEF Op
<1>4. OpSound(o)
  <2>1. /\ o.row = RowOf(op[r].item) /\ o.item = op[r].item
        /\ o.act = op[r].act /\ o.severity = op[r].severity
    BY <1>1 DEF Op
  <2> QED
    BY <1>1, <1>2, <2>1 DEF OpSound, RowSound
<1>5. op' = [op EXCEPT ![r] = o] /\ UNCHANGED <<base, overlay, deferrals, actions>>
  BY DEF Look
<1> HIDE DEF o
<1> QED
  BY <1>3, <1>4, <1>5, OpStep DEF QueueInv, TypeOK

\* A reviewer looks whether there is a row to update.
LEMMA CheckStep ==
    ASSUME QueueInv, NEW r \in Reviewers, Check(r)
    PROVE  QueueInv'
<1> DEFINE o == [op[r] EXCEPT !.exists = overlay[op[r].item] # NoOverlay,
                              !.stage = "write"]
<1>1. op[r] \in Op /\ OpSound(op[r])
  BY InFlight DEF Check, At
<1>2. o \in Op
  BY <1>1 DEF Op
<1>3. OpSound(o)
  <2>1. /\ o.row = op[r].row /\ o.item = op[r].item
        /\ o.act = op[r].act /\ o.severity = op[r].severity
    BY <1>1 DEF Op
  <2> QED
    BY <1>1, <2>1 DEF OpSound
<1>4. op' = [op EXCEPT ![r] = o] /\ UNCHANGED <<base, overlay, deferrals, actions>>
  BY DEF Check
<1> HIDE DEF o
<1> QED
  BY <1>2, <1>3, <1>4, OpStep DEF QueueInv, TypeOK

\* What the item is derived from changes.
LEMMA SettleStep ==
    ASSUME QueueInv, NEW r \in Reviewers, Settle(r)
    PROVE  QueueInv'
<1> DEFINE o == [op[r] EXCEPT !.stage = "look"]
           i == op[r].item
<1>1. op[r] \in Op /\ OpSound(op[r]) /\ i \in Items
  BY InFlight DEF Settle, At
<1>2. o \in Op
  BY <1>1 DEF Op
<1>3. OpSound(o)
  <2>1. /\ o.row = op[r].row /\ o.item = op[r].item
        /\ o.act = op[r].act /\ o.severity = op[r].severity
    BY <1>1 DEF Op
  <2> QED
    BY <1>1, <2>1 DEF OpSound
<1>4. op' = [op EXCEPT ![r] = o] /\ UNCHANGED <<overlay, deferrals, actions>>
  BY DEF Settle, Advance
<1>5. PICK s \in Outcomes(i, op[r].act) : base' = [base EXCEPT ![i] = s]
  BY DEF Settle
<1>6. s \in {0, base[i]}
  BY DEF Outcomes
<1>7. /\ base' \in [Items -> Severities \cup {0}]
      /\ \A j \in Items : base'[j] \in SeveritiesOf(Type[j]) \cup {0}
  BY <1>1, <1>5, <1>6 DEF QueueInv, TypeOK
<1> HIDE DEF o
<1> QED
  BY <1>2, <1>3, <1>4, <1>7, OpStep DEF QueueInv, TypeOK

\* An action ends without a row written.
LEMMA EndStep ==
    ASSUME QueueInv, NEW r \in Reviewers, Refuse(r) \/ Collide(r) \/ Fail(r)
    PROVE  QueueInv'
<1>1. op' = [op EXCEPT ![r] = Idle] /\ UNCHANGED <<base, overlay, deferrals, actions>>
  BY DEF Refuse, Collide, Fail, Done
<1> QED
  BY <1>1, OpStep DEF QueueInv, TypeOK

\* A day passes.
LEMMA TickStep ==
    ASSUME QueueInv, Tick
    PROVE  QueueInv'
<1>1. \A n \in Nat : Before(n) \in Nat
  BY DEF Before
<1>2. ASSUME NEW w \in Overlay
      PROVE  /\ [w EXCEPT !.left = Before(@)] \in Overlay
             /\ [w EXCEPT !.left = Before(@)].count = w.count
             /\ [w EXCEPT !.left = Before(@)].flagged = w.flagged
             /\ [w EXCEPT !.left = Before(@)].override = w.override
             /\ [w EXCEPT !.left = Before(@)].last = w.last
  BY <1>1 DEF Overlay
<1>3. ASSUME NEW o \in Op
      PROVE  /\ [o EXCEPT !.days = Before(@)] \in Op
             /\ [o EXCEPT !.days = Before(@)].row = o.row
             /\ [o EXCEPT !.days = Before(@)].item = o.item
             /\ [o EXCEPT !.days = Before(@)].act = o.act
             /\ [o EXCEPT !.days = Before(@)].severity = o.severity
  BY <1>1 DEF Op
<1>4. ASSUME NEW i \in Items
      PROVE  IF overlay[i] = NoOverlay THEN overlay'[i] = NoOverlay
             ELSE /\ overlay[i] \in Overlay
                  /\ overlay'[i] = [overlay[i] EXCEPT !.left = Before(@)]
  BY DEF Tick, QueueInv, TypeOK
<1>5. ASSUME NEW r \in Reviewers
      PROVE  IF op[r] = Idle THEN op'[r] = Idle
             ELSE /\ op[r] \in Op
                  /\ op'[r] = [op[r] EXCEPT !.days = Before(@)]
  BY DEF Tick, QueueInv, TypeOK
<1>6. UNCHANGED <<base, deferrals, actions>>
  BY DEF Tick
<1>7. TypeOK'
  <2>1. overlay' \in [Items -> Overlay \cup {NoOverlay}]
    <3>1. \A i \in Items : overlay'[i] \in Overlay \cup {NoOverlay}
      BY <1>2, <1>4
    <3>2. overlay' = [i \in Items |-> overlay'[i]]
      BY DEF Tick
    <3> QED
      BY <3>1, <3>2
  <2>2. op' \in [Reviewers -> Op \cup {Idle}]
    <3>1. \A r \in Reviewers : op'[r] \in Op \cup {Idle}
      BY <1>3, <1>5
    <3>2. op' = [r \in Reviewers |-> op'[r]]
      BY DEF Tick
    <3> QED
      BY <3>1, <3>2
  <2> QED
    BY <1>6, <2>1, <2>2 DEF QueueInv, TypeOK
<1>8. RowsSound'
  <2> SUFFICES ASSUME NEW i \in Items, overlay'[i] # NoOverlay
               PROVE  RowSound(i, overlay'[i], deferrals'[i])
    BY DEF RowsSound, RowSound
  <2>1. overlay[i] # NoOverlay /\ overlay[i] \in Overlay
        /\ overlay'[i] = [overlay[i] EXCEPT !.left = Before(@)]
    BY <1>4
  <2>2. RowSound(i, overlay[i], deferrals[i])
    BY <2>1 DEF QueueInv, RowsSound
  <2> QED
    BY <1>2, <1>6, <2>1, <2>2 DEF RowSound
<1>9. OpsSound'
  <2> SUFFICES ASSUME NEW r \in Reviewers, op'[r] # Idle
               PROVE  OpSound(op[r])'
    BY DEF OpsSound, OpSound
  <2>1. op[r] # Idle /\ op[r] \in Op
        /\ op'[r] = [op[r] EXCEPT !.days = Before(@)]
    BY <1>5
  <2>2. OpSound(op[r])
    BY <2>1 DEF QueueInv, OpsSound
  <2> QED
    BY <1>3, <1>6, <2>1, <2>2 DEF OpSound
<1> QED
  BY <1>7, <1>8, <1>9 DEF QueueInv

\* A sweep derives an item anew.
LEMMA RederiveStep ==
    ASSUME QueueInv, NEW i \in Items, Rederive(i)
    PROVE  QueueInv'
<1>1. PICK s \in SeveritiesOf(Type[i]) \cup {0} : base' = [base EXCEPT ![i] = s]
  BY DEF Rederive
<1>2. s \in Severities \cup {0}
  BY DEF SeveritiesOf, Severities, Low, Medium, High, Critical
<1>3. UNCHANGED <<overlay, op, deferrals, actions>>
  BY DEF Rederive
<1> QED
  BY <1>1, <1>2, <1>3
     DEF QueueInv, TypeOK, RowsSound, RowSound, OpsSound, OpSound

-----------------------------------------------------------------------------
(* The invariant.                                                          *)

LEMMA QueueInvInit == Init => QueueInv
<1> SUFFICES ASSUME Init
             PROVE  QueueInv
  OBVIOUS
<1>1. TypeOK
  BY QueueAssumption DEF Init, TypeOK
<1> QED
  BY <1>1 DEF Init, QueueInv, RowsSound, OpsSound

LEMMA QueueInvStep == QueueInv /\ [Next]_vars => QueueInv'
<1> SUFFICES ASSUME QueueInv, [Next]_vars
             PROVE  QueueInv'
  OBVIOUS
<1>1. ASSUME NEW r \in Reviewers, NEW i \in Items, BeginDefer(r, i)
      PROVE  QueueInv'
  <2>1. base[i] # 0
    BY <1>1 DEF BeginDefer
  <2>2. DeferLimit(i) \in Nat
    BY <2>1, SeverityFloor, QueueAssumption DEF DeferLimit, Smaller
  <2>3. PICK days \in 1..DeferLimit(i) :
           Begin(r, i, Asked("defer", i, "look", days, 0, "nowhere"))
    BY <1>1 DEF BeginDefer
  <2>4. days \in Nat
    BY <2>2
  <2> QED
    BY <2>3, <2>4, BeginStep DEF Acts, Routes
<1>2. ASSUME NEW r \in Reviewers, NEW i \in Items, BeginEscalate(r, i)
      PROVE  QueueInv'
  BY <1>2, BeginStep DEF BeginEscalate, Acts, Routes
<1>3. ASSUME NEW r \in Reviewers, NEW i \in Items, BeginSettle(r, i)
      PROVE  QueueInv'
  BY <1>3, BeginStep DEF BeginSettle, SettlingActs, Acts, Routes
<1>4. ASSUME NEW r \in Reviewers,
             Settle(r) \/ Refuse(r) \/ Look(r) \/ Check(r) \/ Write(r)
               \/ Collide(r) \/ Fail(r)
      PROVE  QueueInv'
  BY <1>4, SettleStep, LookStep, CheckStep, WriteStep, EndStep
<1>5. CASE Tick
  BY <1>5, TickStep
<1>6. ASSUME NEW i \in Items, Rederive(i)
      PROVE  QueueInv'
  BY <1>6, RederiveStep
<1>7. CASE UNCHANGED vars
  BY <1>7 DEF vars, QueueInv, TypeOK, RowsSound, RowSound, OpsSound, OpSound
<1> QED
  BY <1>1, <1>2, <1>3, <1>4, <1>5, <1>6, <1>7 DEF Next

LEMMA QueueInvAlways == Spec => []QueueInv
  BY QueueInvInit, QueueInvStep, PTL DEF Spec

-----------------------------------------------------------------------------

\* Items, overlay rows and actions in flight keep their shape; a bump never
\* leaves the four severities.
THEOREM QueueTypes == Spec => []TypeOK
<1>1. QueueInv => TypeOK
  BY DEF QueueInv
<1> QED
  BY <1>1, QueueInvAlways, PTL

\* An item put off as often as the policy allows carries the escalation flag
\* from then on, whatever overtook the reviewer who put it off last.
THEOREM RepeatedAlwaysFlagged == Spec => []RepeatedFlagged
<1>1. QueueInv => RepeatedFlagged
  BY RowOfSound DEF RepeatedFlagged, RowSound
<1> QED
  BY <1>1, QueueInvAlways, PTL

\* Such an item enters the weekly review in spite of the deferral.
THEOREM RepeatedAlwaysSurface == Spec => []RepeatedSurface
<1>1. QueueInv => RepeatedSurface
  <2> SUFFICES ASSUME QueueInv, NEW i \in Items, base[i] # 0,
                      Type[i] # "pending_human_review",
                      RowOf(i).last = "defer", RowOf(i).count >= EscalateAfter
               PROVE  MustSurface(i)
    BY DEF RepeatedSurface
  <2>1. RowOf(i).override \in Severities \cup {0} /\ RowOf(i).override >= High
    BY RowOfSound DEF RowSound, Overlay
  <2>2. base[i] \in Severities \cup {0}
    BY DEF QueueInv, TypeOK
  <2> QED
    BY <2>1, <2>2 DEF MustSurface, Severity, Severities, Low, High, Critical
<1> QED
  BY <1>1, QueueInvAlways, PTL

\* The count an overlay keeps never exceeds the deferrals that were written,
\* although two reviewers may count the same one twice or not at all.
THEOREM NeverCountedTwice == Spec => []NeverOvercounted
<1>1. QueueInv => NeverOvercounted
  BY RowOfSound DEF NeverOvercounted, RowSound
<1> QED
  BY <1>1, QueueInvAlways, PTL

-----------------------------------------------------------------------------
(* DeferralHides is false of the code, since nothing clears resolved_at. A *)
(* proposal is not hit: what is decided is gone from the list for good.    *)

IsProposal(i) == Type[i] \in ProposalTypes

\* What is listed of the proposals was not settled: neither by a row nor by an
\* action that is about to write one.
ListedUnsettled ==
    /\ \A i \in Items :
         IsProposal(i) /\ base[i] # 0 => ~RowOf(i).resolved
    /\ \A r \in Reviewers :
         op[r] # Idle /\ IsProposal(op[r].item) /\ op[r].act \notin {"defer", "escalate"}
           => op[r].act = "decide" /\ (op[r].stage # "settle" => base[op[r].item] = 0)

\* A proposal on the list that was put off last, until a day to come, is deferred.
ProposalDeferralHides ==
    \A i \in Items :
        /\ IsProposal(i)
        /\ base[i] # 0
        /\ RowOf(i).last = "defer"
        /\ RowOf(i).left > 0
        => Deferred(i)

\* No step brings a proposal back.
LEMMA GoneForGood ==
    ASSUME QueueInv, [Next]_vars, NEW i \in Items, IsProposal(i), base[i] = 0
    PROVE  base'[i] = 0
<1>1. ASSUME NEW r \in Reviewers, Settle(r) PROVE base'[i] = 0
  <2>1. op[r].item \in Items
    BY <1>1, InFlight DEF Settle, At
  <2> QED
    BY <1>1, <2>1 DEF Settle, Outcomes, QueueInv, TypeOK
<1>2. ASSUME NEW j \in Items, Rederive(j) PROVE base'[i] = 0
  BY <1>2 DEF Rederive, IsProposal, QueueInv, TypeOK
<1> QED
  BY <1>1, <1>2
     DEF Next, vars, BeginDefer, BeginEscalate, BeginSettle, Begin, Refuse,
         Look, Check, Write, Collide, Fail, Tick

\* An action that goes on, or a new one.
LEMMA UnsettledStep ==
    ASSUME QueueInv, ListedUnsettled, [Next]_vars, UNCHANGED overlay,
           NEW r \in Reviewers, NEW o, op' = [op EXCEPT ![r] = o],
           o # Idle /\ IsProposal(o.item) /\ o.act \notin {"defer", "escalate"}
             => o.act = "decide" /\ (o.stage # "settle" => base'[o.item] = 0)
    PROVE  ListedUnsettled'
<1>1. \A i \in Items : IsProposal(i) /\ base'[i] # 0 => ~RowOf(i)'.resolved
  BY GoneForGood DEF ListedUnsettled, RowOf
<1>2. ASSUME NEW q \in Reviewers, op'[q] # Idle, IsProposal(op'[q].item),
             op'[q].act \notin {"defer", "escalate"}
      PROVE  op'[q].act = "decide" /\ (op'[q].stage # "settle" => base'[op'[q].item] = 0)
  <2>1. CASE q = r
    BY <1>2, <2>1 DEF QueueInv, TypeOK
  <2>2. CASE q # r
    <3>1. op'[q] = op[q] /\ op[q].item \in Items
      BY <1>2, <2>2, InFlight DEF QueueInv, TypeOK
    <3> QED
      BY <1>2, <3>1, GoneForGood DEF ListedUnsettled
  <2> QED
    BY <2>1, <2>2
<1> QED
  BY <1>1, <1>2 DEF ListedUnsettled

LEMMA ListedUnsettledStep == QueueInv /\ ListedUnsettled /\ [Next]_vars => ListedUnsettled'
<1> SUFFICES ASSUME QueueInv, ListedUnsettled, [Next]_vars PROVE ListedUnsettled'
  OBVIOUS
<1>1. ASSUME NEW r \in Reviewers, NEW i \in Items, NEW act \in Acts, NEW stage, NEW days,
             NEW target, NEW route, Begin(r, i, Asked(act, i, stage, days, target, route)),
             IsProposal(i) /\ act \notin {"defer", "escalate"}
               => act = "decide" /\ stage = "settle"
      PROVE  ListedUnsettled'
  <2> DEFINE o == Asked(act, i, stage, days, target, route)
  <2>1. o.item = i /\ o.act = act /\ o.stage = stage
    BY DEF Asked
  <2>2. op' = [op EXCEPT ![r] = o] /\ UNCHANGED overlay
    BY <1>1 DEF Begin
  <2> HIDE DEF o
  <2> QED
    BY <1>1, <2>1, <2>2, UnsettledStep
<1>2. ASSUME NEW r \in Reviewers, Settle(r) PROVE ListedUnsettled'
  <2>1. op[r] \in Op /\ op[r].item \in Items /\ op[r] # Idle
    BY <1>2, InFlight DEF Settle, At
  <2> DEFINE o == [op[r] EXCEPT !.stage = "look"]
  <2>2. o.item = op[r].item /\ o.act = op[r].act /\ op' = [op EXCEPT ![r] = o]
    BY <1>2, <2>1 DEF Settle, Advance, Op
  <2>3. op[r].act = "decide" => base'[op[r].item] = 0
    BY <1>2, <2>1 DEF Settle, Outcomes, QueueInv, TypeOK
  <2> HIDE DEF o
  <2> QED
    BY <1>2, <2>1, <2>2, <2>3, UnsettledStep DEF Settle, ListedUnsettled
<1>3. ASSUME NEW r \in Reviewers, Refuse(r) \/ Collide(r) \/ Fail(r) PROVE ListedUnsettled'
  BY <1>3, UnsettledStep DEF Refuse, Collide, Fail, Done
<1>4. ASSUME NEW r \in Reviewers, Look(r) \/ Check(r) PROVE ListedUnsettled'
  <2>1. /\ op[r] \in Op /\ op[r].item \in Items /\ op[r] # Idle /\ op[r].stage # "settle"
        /\ UNCHANGED <<base, overlay>>
    BY <1>4, InFlight DEF Look, Check, At
  <2>2. PICK o : /\ op' = [op EXCEPT ![r] = o]
                 /\ o.item = op[r].item /\ o.act = op[r].act
    <3>1. CASE Look(r)
      <4> DEFINE o == [op[r] EXCEPT !.row = RowOf(op[r].item), !.stage = "check"]
      <4>1. o.item = op[r].item /\ o.act = op[r].act
        BY <2>1 DEF Op
      <4>2. op' = [op EXCEPT ![r] = o]
        BY <3>1 DEF Look
      <4> QED
        BY <4>1, <4>2
    <3>2. CASE Check(r)
      <4> DEFINE o == [op[r] EXCEPT !.exists = overlay[op[r].item] # NoOverlay,
                                    !.stage = "write"]
      <4>1. o.item = op[r].item /\ o.act = op[r].act
        BY <2>1 DEF Op
      <4>2. op' = [op EXCEPT ![r] = o]
        BY <3>2 DEF Check
      <4> QED
        BY <4>1, <4>2
    <3> QED
      BY <1>4, <3>1, <3>2
  <2> QED
    BY <2>1, <2>2, UnsettledStep DEF ListedUnsettled
<1>5. ASSUME NEW r \in Reviewers, Write(r) PROVE ListedUnsettled'
  <2>0. PICK j \in Items : j = op[r].item
    BY <1>5, InFlight DEF Write, At
  <2>1. /\ op[r] \in Op /\ op[r] # Idle /\ op[r].stage = "write"
        /\ UNCHANGED base /\ op' = [op EXCEPT ![r] = Idle]
        /\ overlay' = [overlay EXCEPT ![j] = NewRow(op[r], RowOf(j))]
    BY <1>5, <2>0, InFlight DEF Write, At, Done
  <2>2. RowOf(j) \in Overlay
    BY <2>1, RowOfSound
  <2>3. NewRow(op[r], RowOf(j)) \in Overlay
    BY <1>5, <2>0, NewRowSound DEF Write
  <2>4. NoOverlay \notin Overlay
    BY DEF NoOverlay, Overlay, Acts
  <2>5. RowOf(j)' = NewRow(op[r], RowOf(j))
    BY <2>1, <2>3, <2>4 DEF RowOf, QueueInv, TypeOK
  <2>6. op[r].act \in {"defer", "escalate"} => RowOf(j)'.resolved = RowOf(j).resolved
    BY <2>2, <2>5 DEF NewRow, Deferral, Escalation, Overlay
  <2>7. \A i \in Items \ {j} : RowOf(i)' = RowOf(i)
    BY <2>1 DEF RowOf, QueueInv, TypeOK
  <2>8. ASSUME NEW i \in Items, IsProposal(i), base'[i] # 0 PROVE ~RowOf(i)'.resolved
    BY <2>0, <2>1, <2>6, <2>7, <2>8 DEF ListedUnsettled
  <2> QED
    BY <2>1, <2>8 DEF ListedUnsettled, QueueInv, TypeOK
<1>6. CASE Tick
  <2>1. ASSUME NEW i \in Items PROVE RowOf(i)'.resolved = RowOf(i).resolved
    <3>1. CASE overlay[i] = NoOverlay
      BY <1>6, <3>1 DEF Tick, RowOf
    <3>2. CASE overlay[i] # NoOverlay
      <4>1. overlay[i] \in Overlay /\ overlay'[i] = [overlay[i] EXCEPT !.left = Before(@)]
        BY <1>6, <3>2 DEF Tick, QueueInv, TypeOK
      <4>2. overlay'[i].resolved = overlay[i].resolved /\ overlay'[i].last = overlay[i].last
        BY <4>1 DEF Overlay
      <4>3. overlay'[i] # NoOverlay
        BY <4>1, <4>2 DEF NoOverlay, Overlay, Acts
      <4> QED
        BY <3>2, <4>2, <4>3 DEF RowOf
    <3> QED
      BY <3>1, <3>2
  <2>2. ASSUME NEW r \in Reviewers, op'[r] # Idle
        PROVE  /\ op[r] # Idle /\ op'[r].item = op[r].item
               /\ op'[r].act = op[r].act /\ op'[r].stage = op[r].stage
    <3>1. op[r] # Idle
      BY <1>6, <2>2 DEF Tick
    <3> QED
      BY <1>6, <3>1, InFlight DEF Tick, Op
  <2> QED
    BY <1>6, <2>1, <2>2 DEF Tick, ListedUnsettled
<1>7. ASSUME NEW i \in Items, Rederive(i) PROVE ListedUnsettled'
  <2>1. \A j \in Items : IsProposal(j) => base'[j] = base[j]
    BY <1>7 DEF Rederive, IsProposal, QueueInv, TypeOK
  <2> QED
    BY <1>7, <2>1, InFlight DEF Rederive, ListedUnsettled, RowOf
<1>8. CASE UNCHANGED vars
  BY <1>8 DEF vars, ListedUnsettled, RowOf
<1>9. ASSUME NEW r \in Reviewers, NEW i \in Items,
             BeginDefer(r, i) \/ BeginEscalate(r, i) \/ BeginSettle(r, i)
      PROVE  ListedUnsettled'
  BY <1>1, <1>9 DEF BeginDefer, BeginEscalate, BeginSettle, SettlingActs, Acts, IsProposal
<1> QED
  BY <1>2, <1>3, <1>4, <1>5, <1>6, <1>7, <1>8, <1>9 DEF Next

\* However reviewers race, a proposal that is still on the list and was put off
\* last, until a day to come, is deferred: the timestamp of an earlier settlement
\* that undoes other deferrals (review_queue_service.py:870) is on no such
\* row.
THEOREM DeferredProposalsHide == Spec => []ProposalDeferralHides
<1>1. Init => ListedUnsettled
  BY DEF Init, ListedUnsettled, RowOf, Blank
<1>2. QueueInv /\ ListedUnsettled /\ [Next]_vars => ListedUnsettled'
  BY ListedUnsettledStep
<1>3. ListedUnsettled => ProposalDeferralHides
  BY DEF ListedUnsettled, ProposalDeferralHides, Deferred
<1> QED
  BY <1>1, <1>2, <1>3, QueueInvAlways, PTL DEF Spec
=============================================================================
