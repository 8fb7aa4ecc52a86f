------------------------- MODULE RecordServiceProofs -------------------------
(***************************************************************************)
(* For any number of clients and records: types, and the agreement of a    *)
(* record's timestamps with its state. For any number of clients of which  *)
(* no two work on one record at a time: the service implements the         *)
(* abstract lifecycle, and the two logs tell what happened.                *)
(***************************************************************************)
EXTENDS RecordService, TLAPS

-----------------------------------------------------------------------------
(* Facts about the state machines. The proofs below use these and never    *)
(* look at the machines themselves.                                        *)

\* An archived state is final: from it a source link can only stay.
LEMMA ArchivedIsFinal ==
    ASSUME NEW t, NEW s, NEW u, ValidTransition(t, s, u),
           s \in ArchivedStates(t)
    PROVE  u \in ArchivedStates(t)
  BY DEF ValidTransition, ArchivedStates, StatesOf, NextStates, SourceLinkNext,
         SourceLinkStates

\* The states of every type are record states.
LEMMA StatesAreRecordStates == \A t : StatesOf(t) \subseteq RecordStates
  BY DEF StatesOf, RecordStates

\* "none" is the type of no record: it has no states.
LEMMA NoneHasNoStates ==
    /\ "none" \notin RecordTypes
    /\ StatesOf("none") = {}
    /\ ResolvedStates("none") = {}
    /\ ArchivedStates("none") = {}
  BY DEF RecordTypes, StatesOf, ResolvedStates, ArchivedStates

-----------------------------------------------------------------------------
(* The inductive invariant.                                                *)

\* The timestamps of a row agree with its state.
RowSound(w) ==
    /\ w # NoRow => w.state \in StatesOf(w.type)
    /\ w.resolved <=> w.state \in ResolvedStates(w.type)
    /\ w.state \in ArchivedStates(w.type) => w.archived

\* What an operation read, and is about to write from, was a sound row, and
\* the transition asked for is one of its type.
ReadSound(o) ==
    /\ o \in Op
    /\ o.seen # NoRow
    /\ RowSound(o.seen)
    /\ o.kind = "transition" =>
         ValidTransition(o.seen.type, o.seen.state, o.target)

\* A record never changes its type while an operation is about to write it.
ReadsSound ==
    \A c \in Clients : op[c].stage = "read" =>
        ReadSound(op[c]) /\ op[c].seen.type = row[op[c].rec].type

RecordInv == TypeOK /\ StampsAgree /\ ReadsSound

\* A row in use has a type with states.
LEMMA RowInUse ==
    ASSUME TypeOK, StampsAgree, NEW r \in Records
    PROVE  /\ row[r] # NoRow <=> row[r].type # "none"
           /\ row[r] \in Row
           /\ RowSound(row[r])
  BY NoneHasNoStates DEF TypeOK, StampsAgree, RowSound, NoRow, Row

\* An operation that is not idle is one of Op.
LEMMA BusyIsOp ==
    ASSUME TypeOK, NEW c \in Clients, op[c].stage # "idle"
    PROVE  op[c] \in Op
  BY DEF TypeOK, Idle

\* Replacing one row by a sound one of the same type keeps all of the
\* invariant that speaks of rows.
LEMMA RowReplaced ==
    ASSUME TypeOK, StampsAgree, NEW r \in Records, NEW w \in Row, RowSound(w),
           row' = [row EXCEPT ![r] = w],
           row[r].type # "none" => w.type = row[r].type
    PROVE  /\ row' \in [Records -> Row]
           /\ \A q \in Records :
                row'[q] # NoRow => row'[q].state \in StatesOf(row'[q].type)
           /\ StampsAgree'
           /\ \A q \in Records :
                row[q].type # "none" => row'[q].type = row[q].type
<1>1. \A q \in Records : row'[q] = IF q = r THEN w ELSE row[q]
  BY DEF TypeOK
<1>2. \A q \in Records : RowSound(row'[q])
  BY <1>1, RowInUse
<1> QED
  BY <1>1, <1>2 DEF TypeOK, StampsAgree, RowSound

\* What a client that starts an operation, or goes on with one, adds to the
\* invariant.
LEMMA OneOpChanged ==
    ASSUME RecordInv, NEW c \in Clients, NEW o,
           op' = [op EXCEPT ![c] = o],
           \A q \in Records : row[q].type # "none" => row'[q].type = row[q].type,
           o.stage = "read" => ReadSound(o) /\ o.seen.type = row'[o.rec].type
    PROVE  ReadsSound'
<1> SUFFICES ASSUME NEW d \in Clients, op'[d].stage = "read"
             PROVE  /\ ReadSound(op'[d])
                    /\ op'[d].seen.type = row'[op'[d].rec].type
  BY DEF ReadsSound
<1>1. CASE d = c
  BY <1>1 DEF RecordInv, TypeOK
<1>2. CASE d # c
  <2>1. op'[d] = op[d]
    BY <1>2 DEF RecordInv, TypeOK
  <2>2. ReadSound(op[d]) /\ op[d].seen.type = row[op[d].rec].type
    BY <2>1 DEF RecordInv, ReadsSound
  <2>3. row[op[d].rec].type # "none"
    BY <2>2, NoneHasNoStates DEF ReadSound, RowSound
  <2> QED
    BY <2>1, <2>2, <2>3 DEF ReadSound, Op
<1> QED
  BY <1>1, <1>2

\* A transition writes a sound row of the same type, whatever happened to the
\* record since it was read.
LEMMA TransitionedRowSound ==
    ASSUME RecordInv, NEW c \in Clients, op[c].stage = "read",
           op[c].kind = "transition"
    PROVE  /\ TransitionedRow(op[c].rec, op[c]) \in Row
           /\ RowSound(TransitionedRow(op[c].rec, op[c]))
           /\ TransitionedRow(op[c].rec, op[c]).type = row[op[c].rec].type
<1> DEFINE o == op[c]
           t == o.seen.type
           w == TransitionedRow(o.rec, o)
<1>1. o \in Op /\ ReadSound(o) /\ t = row[o.rec].type
  BY DEF RecordInv, ReadsSound, ReadSound
<1>2. /\ o.rec \in Records /\ row[o.rec] \in Row
      /\ o.seen \in Row /\ o.target \in MaybeState
  BY <1>1 DEF Op, RecordInv, TypeOK
<1>3. /\ w \in Row
      /\ w.type = row[o.rec].type
      /\ w.state = o.target
      /\ w.resolved = Stamp(o.seen.resolved, ResolvedStates(t), o.seen.state, o.target)
      /\ w.archived = Stamp(o.seen.archived, ArchivedStates(t), o.seen.state, o.target)
  BY <1>2 DEF TransitionedRow, Row, Stamp
<1>4. w.type = t /\ o.target \in StatesOf(t)
  BY <1>1, <1>3 DEF ReadSound, ValidTransition
<1>5. RowSound(w)
  BY <1>1, <1>3, <1>4 DEF ReadSound, RowSound, Stamp
<1> QED
  BY <1>3, <1>5

-----------------------------------------------------------------------------
\* Every step of the service keeps the invariant.
LEMMA RecordInvStep == RecordInv /\ [Next]_vars => RecordInv'
<1> SUFFICES ASSUME RecordInv, [Next]_vars PROVE RecordInv'
  OBVIOUS
<1> USE DEF MaybeState, MaybeOwner
<1>1. ASSUME NEW c \in Clients, NEW r \in Records, Create(c, r)
      PROVE  RecordInv'
  <2>1. PICK t \in Types, s \in RecordStates, o \in MaybeOwner :
          /\ ValidInput(t, s, o)
          /\ row' = [row EXCEPT ![r] =
                       [type |-> t, state |-> s, owner |-> o,
                        resolved |-> s \in ResolvedStates(t),
                        archived |-> s \in ArchivedStates(t)]]
          /\ Start(c, [kind |-> "create", rec |-> r, stage |-> "written",
                       seen |-> NoRow, after |-> "none",
                       target |-> s, owner |-> o])
    BY <1>1 DEF Create
  <2> DEFINE w == [type |-> t, state |-> s, owner |-> o,
                   resolved |-> s \in ResolvedStates(t),
                   archived |-> s \in ArchivedStates(t)]
             new == [kind |-> "create", rec |-> r, stage |-> "written",
                     seen |-> NoRow, after |-> "none",
                     target |-> s, owner |-> o]
  <2>2. w \in Row
    BY <2>1 DEF Row, ValidInput
  <2>3. RowSound(w)
    BY <2>1 DEF RowSound, ValidInput
  <2>4. row[r].type = "none"
    BY <1>1 DEF Create, NoRow
  <2>5. NoRow \in Row
    BY DEF NoRow, Row
  <2>6. new \in Op /\ new.stage # "read"
    BY <2>5 DEF Op, Kinds, Stages
  <2> HIDE DEF w, new
  <2>7. row' = [row EXCEPT ![r] = w] /\ Start(c, new)
    BY <2>1 DEF w, new
  <2>8. /\ row' \in [Records -> Row]
        /\ \A q \in Records :
             row'[q] # NoRow => row'[q].state \in StatesOf(row'[q].type)
        /\ StampsAgree'
        /\ \A q \in Records : row[q].type # "none" => row'[q].type = row[q].type
    BY <2>2, <2>3, <2>4, <2>7, RowReplaced DEF RecordInv
  <2>9. ReadsSound'
    BY <2>6, <2>7, <2>8, OneOpChanged DEF Start
  <2>10. TypeOK'
    BY <1>1, <2>6, <2>7, <2>8 DEF Create, Start, RecordInv, TypeOK
  <2> QED
    BY <2>8, <2>9, <2>10 DEF RecordInv
<1>2. ASSUME NEW c \in Clients, NEW r \in Records, NEW k \in Kinds,
             NEW s \in MaybeState, NEW o \in MaybeOwner,
             row[r] # NoRow, Start(c, Reading(r, k, s, o)),
             UNCHANGED <<row, trail, audited, torn>>,
             k = "transition" => ValidTransition(row[r].type, row[r].state, s)
      PROVE  RecordInv'
  <2> DEFINE new == Reading(r, k, s, o)
  <2>1. row[r] \in Row /\ RowSound(row[r])
    BY RowInUse DEF RecordInv
  <2>2. new \in Op
    BY <2>1 DEF Reading, Op, Stages
  <2>3. ReadSound(new) /\ new.seen.type = row'[new.rec].type
    BY <1>2, <2>1, <2>2 DEF ReadSound, Reading
  <2> HIDE DEF new
  <2>4. ReadsSound'
    BY <1>2, <2>3, OneOpChanged DEF Start, new
  <2>5. TypeOK' /\ StampsAgree'
    BY <1>2, <2>2 DEF RecordInv, TypeOK, StampsAgree, Start, new
  <2> QED
    BY <2>4, <2>5 DEF RecordInv
<1>3. ASSUME NEW c \in Clients, NEW o \in Op \cup {Idle}, o.stage # "read",
             op' = [op EXCEPT ![c] = o], UNCHANGED <<row, opsLeft>>,
             trail' \in [Records -> MaybeState],
             audited' \in [Records -> MaybeState],
             torn' \subseteq Records
      PROVE  RecordInv'
  <2>1. TypeOK' /\ StampsAgree'
    BY <1>3 DEF RecordInv, TypeOK, StampsAgree
  <2>2. ReadsSound'
    BY <1>3, OneOpChanged
  <2> QED
    BY <2>1, <2>2 DEF RecordInv
<1>4. ASSUME NEW c \in Clients, NEW k \in Kinds, NEW w \in Row,
             Write(c, k, w), RowSound(w), w.type = row[op[c].rec].type
      PROVE  RecordInv'
  <2> DEFINE new == [op[c] EXCEPT !.stage = "written"]
  <2>1. op[c] \in Op
    BY <1>4, BusyIsOp DEF Write, RecordInv
  <2>2. op[c].rec \in Records /\ new \in Op /\ new.stage # "read"
    BY <2>1 DEF Op, Stages
  <2>3. op' = [op EXCEPT ![c] = new]
    BY <1>4 DEF Write, Advance
  <2> HIDE DEF new
  <2>4. /\ row' \in [Records -> Row]
        /\ \A q \in Records :
             row'[q] # NoRow => row'[q].state \in StatesOf(row'[q].type)
        /\ StampsAgree'
        /\ \A q \in Records : row[q].type # "none" => row'[q].type = row[q].type
    BY <1>4, <2>2, RowReplaced DEF Write, RecordInv
  <2>5. ReadsSound'
    BY <2>2, <2>3, <2>4, OneOpChanged
  <2>6. TypeOK'
    BY <1>4, <2>2, <2>3, <2>4 DEF Write, RecordInv, TypeOK
  <2> QED
    BY <2>4, <2>5, <2>6 DEF RecordInv
\* What each write starts from.
<1>5. ASSUME NEW c \in Clients, op[c].stage = "read"
      PROVE  /\ op[c] \in Op /\ ReadSound(op[c])
             /\ op[c].rec \in Records
             /\ row[op[c].rec] \in Row /\ RowSound(row[op[c].rec])
             /\ row[op[c].rec] # NoRow
  <2>1. ReadSound(op[c]) /\ op[c].seen.type = row[op[c].rec].type
    BY <1>5 DEF RecordInv, ReadsSound
  <2>2. op[c] \in Op /\ op[c].rec \in Records
    BY <2>1 DEF ReadSound, Op
  <2>3. row[op[c].rec].type # "none"
    BY <2>1, NoneHasNoStates DEF ReadSound, RowSound
  <2> QED
    BY <2>1, <2>2, <2>3, RowInUse DEF RecordInv
<1>6. ASSUME NEW c \in Clients, NEW r \in Records, ReadForUpdate(c, r)
      PROVE  RecordInv'
  BY <1>2, <1>6 DEF ReadForUpdate, Kinds
<1>7. ASSUME NEW c \in Clients, NEW r \in Records, ReadForTransition(c, r)
      PROVE  RecordInv'
  BY <1>2, <1>7 DEF ReadForTransition, Kinds
<1>8. ASSUME NEW c \in Clients, NEW r \in Records, ReadForArchive(c, r)
      PROVE  RecordInv'
  BY <1>2, <1>8 DEF ReadForArchive, Kinds
<1>9. ASSUME NEW c \in Clients, WriteUpdate(c) PROVE RecordInv'
  <2> DEFINE w == [row[op[c].rec] EXCEPT !.owner = op[c].owner]
  <2>1. op[c].stage = "read"
    BY <1>9 DEF WriteUpdate, Write
  <2>2. op[c].owner \in MaybeOwner
    BY <1>5, <2>1 DEF Op
  <2>3. w \in Row /\ w.type = row[op[c].rec].type /\ RowSound(w)
    BY <1>5, <2>1, <2>2 DEF Row, RowSound
  <2> QED
    BY <1>4, <1>9, <2>3 DEF WriteUpdate, Kinds
<1>10. ASSUME NEW c \in Clients, WriteTransition(c) PROVE RecordInv'
  BY <1>4, <1>10, TransitionedRowSound DEF WriteTransition, Write, Kinds
<1>11. ASSUME NEW c \in Clients, WriteArchive(c) PROVE RecordInv'
  <2> DEFINE w == [row[op[c].rec] EXCEPT !.archived = TRUE]
  <2>1. op[c].stage = "read"
    BY <1>11 DEF WriteArchive, Write
  <2>2. w \in Row /\ w.type = row[op[c].rec].type /\ RowSound(w)
    BY <1>5, <2>1 DEF Row, RowSound
  <2> QED
    BY <1>4, <1>11, <2>2 DEF WriteArchive, Kinds
<1>12. ASSUME NEW c \in Clients, Reread(c) PROVE RecordInv'
  <2> DEFINE o == [op[c] EXCEPT !.after = row[op[c].rec].state,
                                !.stage = "reread"]
  <2>1. op[c] \in Op
    BY <1>12, BusyIsOp DEF Reread, RecordInv
  <2>2. o \in Op /\ o.stage # "read"
    BY <2>1 DEF Op, Stages, RecordInv, TypeOK, Row
  <2>3. op' = [op EXCEPT ![c] = o]
    BY <1>12 DEF Reread
  <2> QED
    BY <1>3, <1>12, <2>2, <2>3 DEF Reread, RecordInv, TypeOK
<1>13. ASSUME NEW c \in Clients, Audit(c) PROVE RecordInv'
  <2> DEFINE o == [op[c] EXCEPT !.stage = "audited"]
  <2>1. op[c] \in Op
    BY <1>13, BusyIsOp DEF Audit, RecordInv
  <2>2. o \in Op /\ o.stage # "read" /\ op[c].after \in MaybeState
    BY <2>1 DEF Op, Stages
  <2>3. op' = [op EXCEPT ![c] = o]
    BY <1>13 DEF Audit, Advance
  <2>4. audited' \in [Records -> MaybeState]
    BY <1>13, <2>2 DEF Audit, RecordInv, TypeOK
  <2> QED
    BY <1>3, <1>13, <2>2, <2>3, <2>4 DEF Audit, RecordInv, TypeOK
<1>14. ASSUME NEW c \in Clients, AppendEvent(c) PROVE RecordInv'
  <2>1. op[c] \in Op
    BY <1>14, BusyIsOp DEF AppendEvent, RecordInv
  <2>2. NewState(op[c]) \in MaybeState
    BY <2>1 DEF Op, NewState, Row
  <2>3. trail' \in [Records -> MaybeState]
    BY <1>14, <2>2 DEF AppendEvent, RecordInv, TypeOK
  <2> QED
    BY <1>3, <1>14, <2>3 DEF AppendEvent, RecordInv, TypeOK, Idle
<1>15. ASSUME NEW c \in Clients, Fail(c) PROVE RecordInv'
  <2>1. op[c] \in Op
    BY <1>15 DEF Fail, RecordInv, TypeOK
  <2>2. torn' \subseteq Records
    BY <1>15, <2>1 DEF Fail, RecordInv, TypeOK, Op
  <2> QED
    BY <1>3, <1>15, <2>2 DEF Fail, RecordInv, TypeOK, Idle
<1>16. CASE UNCHANGED vars
  BY <1>16 DEF RecordInv, TypeOK, StampsAgree, ReadsSound, vars
<1> QED
  BY <1>1, <1>6, <1>7, <1>8, <1>9, <1>10, <1>11, <1>12, <1>13, <1>14, <1>15,
     <1>16 DEF Next

\* The invariant holds throughout every run.
LEMMA RecordInvariant == Spec => []RecordInv
<1>1. Init => RecordInv
  BY NoneHasNoStates, ServiceAssumption
     DEF Init, RecordInv, TypeOK, StampsAgree, ReadsSound, NoRow, Row, Idle, MaybeState,
         MaybeOwner
<1> QED
  BY <1>1, RecordInvStep, PTL DEF Spec

\* Type correctness, for every set of clients and records.
THEOREM TypesHold == Spec => []TypeOK
<1>1. RecordInv => TypeOK
  BY DEF RecordInv
<1> QED
  BY <1>1, RecordInvariant, PTL

\* However the operations of any number of clients interleave and wherever
\* they are cut off, a record carries resolved_at exactly when it is resolved
\* (operational_record_service.py:429-448).
THEOREM StampsAlwaysAgree == Spec => []StampsAgree
<1>1. RecordInv => StampsAgree
  BY DEF RecordInv
<1> QED
  BY <1>1, RecordInvariant, PTL
-----------------------------------------------------------------------------
(* One operation at a time on each record: what an operation read is still *)
(* the row when it writes, the service implements the lifecycle, and the   *)
(* logs tell what happened.                                                *)

OneAtATime ==
    \A c, d \in Clients :
        c # d /\ op[c].stage # "idle" /\ op[d].stage # "idle" => op[c].rec # op[d].rec

ReadFresh ==
    \A c \in Clients : op[c].stage = "read" => op[c].seen = row[op[c].rec]

\* What each step does to the operation of its client and to the rows.
StepOf(c) ==
    /\ \A d \in Clients \ {c} : op'[d] = op[d]
    /\ op'[c].stage = "read" => op'[c].seen = row'[op'[c].rec]
    /\ \/ UNCHANGED row
       \/ /\ op'[c].rec \in Records /\ op'[c].stage = "written"
          /\ \A q \in Records \ {op'[c].rec} : row'[q] = row[q]

LEMMA StepOfOne ==
    ASSUME RecordInv, NEW c \in Clients,
           \/ \E r \in Records : \/ Create(c, r)
                                 \/ ReadForUpdate(c, r)
                                 \/ ReadForTransition(c, r)
                                 \/ ReadForArchive(c, r)
           \/ WriteUpdate(c) \/ WriteTransition(c) \/ WriteArchive(c)
           \/ Reread(c) \/ Audit(c) \/ AppendEvent(c) \/ Fail(c)
    PROVE  StepOf(c)
<1>1. ASSUME NEW o, op' = [op EXCEPT ![c] = o]
      PROVE  op'[c] = o /\ \A d \in Clients \ {c} : op'[d] = op[d]
  BY <1>1 DEF RecordInv, TypeOK
<1>2. ASSUME NEW r \in Records, Create(c, r) PROVE StepOf(c)
  <2>1. /\ \A d \in Clients \ {c} : op'[d] = op[d]
        /\ op'[c].rec = r /\ op'[c].stage = "written"
        /\ \A q \in Records \ {r} : row'[q] = row[q]
    BY <1>1, <1>2 DEF Create, Start, RecordInv, TypeOK
  <2> QED
    BY <2>1 DEF StepOf
<1>3. ASSUME NEW r \in Records, UNCHANGED row,
             NEW k, NEW s, NEW o, Start(c, Reading(r, k, s, o))
      PROVE  StepOf(c)
  BY <1>1, <1>3 DEF Start, Reading, StepOf
<1>4. ASSUME NEW r \in Records,
             ReadForUpdate(c, r) \/ ReadForTransition(c, r) \/ ReadForArchive(c, r)
      PROVE  StepOf(c)
  BY <1>3, <1>4 DEF ReadForUpdate, ReadForTransition, ReadForArchive
<1>5. ASSUME NEW stage \in Stages, Advance(c, stage), op[c].stage # "idle"
      PROVE  /\ \A d \in Clients \ {c} : op'[d] = op[d]
             /\ op'[c].stage = stage /\ op'[c].rec = op[c].rec /\ op[c].rec \in Records
  <2>1. op[c] \in Op
    BY <1>5, BusyIsOp DEF RecordInv
  <2> QED
    BY <1>1, <1>5, <2>1 DEF Advance, Op
<1>6. ASSUME NEW k, NEW w, Write(c, k, w)
      PROVE  StepOf(c)
  <2>1. /\ Advance(c, "written") /\ op[c].stage = "read"
        /\ row' = [row EXCEPT ![op[c].rec] = w]
    BY <1>6 DEF Write
  <2>2. /\ \A d \in Clients \ {c} : op'[d] = op[d]
        /\ op'[c].rec = op[c].rec /\ op[c].rec \in Records /\ op'[c].stage = "written"
    BY <1>5, <2>1 DEF Stages
  <2>3. \A q \in Records \ {op'[c].rec} : row'[q] = row[q]
    BY <2>1, <2>2 DEF RecordInv, TypeOK
  <2> QED
    BY <2>2, <2>3 DEF StepOf
<1>7. ASSUME WriteUpdate(c) \/ WriteTransition(c) \/ WriteArchive(c)
      PROVE  StepOf(c)
  BY <1>6, <1>7 DEF WriteUpdate, WriteTransition, WriteArchive
<1>8. ASSUME Reread(c) PROVE StepOf(c)
  <2> DEFINE o == [op[c] EXCEPT !.after = row[op[c].rec].state,
                                !.stage = "reread"]
  <2>1. op[c] \in Op
    BY <1>8, BusyIsOp DEF Reread, RecordInv
  <2>2. o.stage # "read"
    BY <2>1 DEF Op
  <2>3. op' = [op EXCEPT ![c] = o] /\ UNCHANGED row
    BY <1>8 DEF Reread
  <2> HIDE DEF o
  <2> QED
    BY <1>1, <2>2, <2>3 DEF StepOf
<1>9. ASSUME Audit(c) PROVE StepOf(c)
  BY <1>5, <1>9 DEF Audit, Stages, StepOf
<1>10. ASSUME AppendEvent(c) \/ Fail(c) PROVE StepOf(c)
  BY <1>1, <1>10 DEF AppendEvent, Fail, Idle, StepOf
<1> QED
  BY <1>2, <1>4, <1>7, <1>8, <1>9, <1>10

\* Nobody comes between the read and the write of an operation.
LEMMA ReadFreshStep ==
    ASSUME OneAtATime', RecordInv, RecordInv', ReadFresh, [Next]_vars
    PROVE  ReadFresh'
<1>1. CASE UNCHANGED vars
  BY <1>1 DEF vars, ReadFresh
<1>2. ASSUME NEW c \in Clients, StepOf(c) PROVE ReadFresh'
  <2> SUFFICES ASSUME NEW d \in Clients \ {c}, op'[d].stage = "read"
               PROVE  op'[d].seen = row'[op'[d].rec]
    BY <1>2 DEF ReadFresh, StepOf
  <2>1. op'[d] = op[d] /\ op[d].seen = row[op[d].rec] /\ op[d].rec \in Records
    BY <1>2 DEF StepOf, ReadFresh, RecordInv, ReadsSound, ReadSound, Op
  <2> QED
    BY <1>2, <2>1 DEF StepOf, OneAtATime
<1> QED
  BY <1>1, <1>2, StepOfOne DEF Next

\* The lifecycle instantiates the same constant module.
LEMMA SameRecords ==
    /\ Lifecycle!RecordStates = RecordStates
    /\ Lifecycle!RecordTypes = RecordTypes
    /\ \A t : Lifecycle!ArchivedStates(t) = ArchivedStates(t)
    /\ \A t, s, u :
         Lifecycle!ValidTransition(t, s, u) = ValidTransition(t, s, u)
    /\ \A t, s, o : Lifecycle!ValidInput(t, s, o) = ValidInput(t, s, o)
<1> USE DEF ActionStates, DecisionStates, BlockerStates, SourceLinkStates,
            Lifecycle!ActionStates, Lifecycle!DecisionStates,
            Lifecycle!BlockerStates, Lifecycle!SourceLinkStates
<1>1. /\ Lifecycle!RecordStates = RecordStates
      /\ Lifecycle!RecordTypes = RecordTypes
      /\ \A t : Lifecycle!ArchivedStates(t) = ArchivedStates(t)
  BY DEF RecordStates, RecordTypes, ArchivedStates, Lifecycle!RecordStates,
         Lifecycle!RecordTypes, Lifecycle!ArchivedStates
<1>2. \A t : Lifecycle!StatesOf(t) = StatesOf(t)
  BY DEF StatesOf, Lifecycle!StatesOf
<1>3. \A t, s : Lifecycle!NextStates(t, s) = NextStates(t, s)
  BY DEF NextStates, Lifecycle!NextStates, ActionNext, DecisionNext,
         BlockerNext, SourceLinkNext, Lifecycle!ActionNext,
         Lifecycle!DecisionNext, Lifecycle!BlockerNext,
         Lifecycle!SourceLinkNext
<1> QED
  BY <1>1, <1>2, <1>3
     DEF ValidTransition, ValidInput, Lifecycle!ValidTransition,
         Lifecycle!ValidInput

\* A write made from a fresh read is a step of the lifecycle, or none.
LEMMA WriteHonours ==
    ASSUME RecordInv, ReadFresh, NEW c \in Clients,
           WriteUpdate(c) \/ WriteTransition(c) \/ WriteArchive(c)
    PROVE  [Lifecycle!LifecycleNext]_(Lifecycle!lifecycleVars)
<1>1. /\ op[c].stage = "read"
      /\ ReadSound(op[c])
      /\ op[c].seen = row[op[c].rec]
    BY DEF WriteUpdate, WriteTransition, WriteArchive, Write, RecordInv,
           ReadsSound, ReadFresh
<1>2. PICK r \in Records : r = op[c].rec
  BY <1>1 DEF ReadSound, Op
<1> DEFINE old == row[r]
<1>3. op[c] \in Op /\ op[c].rec = r /\ old \in Row /\ old.type # "none"
  BY <1>1, <1>2, NoneHasNoStates DEF ReadSound, Op, RowSound, RecordInv, TypeOK
<1>4. \A q \in Records :
        Lifecycle!Move(q) \/ Lifecycle!Shelve(q) => Lifecycle!LifecycleNext
  BY DEF Lifecycle!LifecycleNext
<1>5. CASE WriteUpdate(c)
  <2>1. \A q \in Records : /\ row'[q].type = row[q].type
                           /\ row'[q].state = row[q].state
                           /\ row'[q].archived = row[q].archived
    BY <1>3, <1>5 DEF WriteUpdate, Write, Row, RecordInv, TypeOK
  <2> QED
    BY <2>1 DEF Lifecycle!lifecycleVars
<1>6. CASE WriteTransition(c)
  <2> DEFINE new == TransitionedRow(r, op[c])
             s == op[c].target
  <2>1. /\ ValidTransition(old.type, old.state, s)
        /\ new.type = old.type
        /\ new.state = s
        /\ new.archived = Stamp(old.archived, ArchivedStates(old.type),
                                old.state, s)
    BY <1>1, <1>3, <1>6
       DEF ReadSound, TransitionedRow, Row, WriteTransition, Write
  <2>2. new.archived = (old.archived \/ s \in ArchivedStates(old.type))
    <3>1. old.archived \in BOOLEAN
      BY <1>3 DEF Row
    <3>2. old.state \in ArchivedStates(old.type)
            => s \in ArchivedStates(old.type)
      BY <2>1, ArchivedIsFinal
    <3> QED
      BY <2>1, <3>1, <3>2 DEF Stamp
  <2>3. s \in RecordStates
    BY <2>1, StatesAreRecordStates DEF ValidTransition
  <2> HIDE DEF new
  <2>4. row' = [row EXCEPT ![r] = new]
    BY <1>3, <1>6 DEF WriteTransition, Write, new
  <2>5. /\ [q \in Records |-> row'[q].type] = [q \in Records |-> row[q].type]
        /\ [q \in Records |-> row'[q].state]
             = [[q \in Records |-> row[q].state] EXCEPT ![r] = s]
        /\ [q \in Records |-> row'[q].archived]
             = [[q \in Records |-> row[q].archived] EXCEPT
                  ![r] = row[r].archived \/ s \in ArchivedStates(row[r].type)]
    BY <1>3, <2>1, <2>2, <2>4 DEF RecordInv, TypeOK
  <2>6. Lifecycle!Move(r)
    BY <1>3, <2>1, <2>3, <2>5, SameRecords DEF Lifecycle!Move
  <2> QED
    BY <1>4, <2>6
<1>7. CASE WriteArchive(c)
  <2> DEFINE new == [old EXCEPT !.archived = TRUE]
  <2>1. new.type = old.type /\ new.state = old.state /\ new.archived = TRUE
    BY <1>3 DEF Row
  <2>2. row' = [row EXCEPT ![r] = new]
    BY <1>3, <1>7 DEF WriteArchive, Write
  <2> HIDE DEF new
  <2>3. /\ [q \in Records |-> row'[q].type] = [q \in Records |-> row[q].type]
        /\ [q \in Records |-> row'[q].state] = [q \in Records |-> row[q].state]
        /\ [q \in Records |-> row'[q].archived]
             = [[q \in Records |-> row[q].archived] EXCEPT ![r] = TRUE]
    BY <1>3, <2>1, <2>2 DEF RecordInv, TypeOK
  <2>4. Lifecycle!Shelve(r)
    BY <1>3, <2>3 DEF Lifecycle!Shelve
  <2> QED
    BY <1>4, <2>4
<1> QED
  BY <1>5, <1>6, <1>7

\* A creation is the lifecycle's Appear.
LEMMA CreateHonours ==
    ASSUME RecordInv, NEW c \in Clients, NEW r \in Records, Create(c, r)
    PROVE  Lifecycle!LifecycleNext
<1>1. PICK t \in Types, s \in RecordStates, o \in MaybeOwner :
        /\ ValidInput(t, s, o)
        /\ row' = [row EXCEPT ![r] =
                     [type |-> t, state |-> s, owner |-> o,
                      resolved |-> s \in ResolvedStates(t),
                      archived |-> s \in ArchivedStates(t)]]
  BY DEF Create
<1>2. row[r].type = "none"
  BY DEF Create, NoRow
<1>3. /\ [q \in Records |-> row'[q].type]
           = [[q \in Records |-> row[q].type] EXCEPT ![r] = t]
      /\ [q \in Records |-> row'[q].state]
           = [[q \in Records |-> row[q].state] EXCEPT ![r] = s]
      /\ [q \in Records |-> row'[q].archived]
           = [[q \in Records |-> row[q].archived] EXCEPT
                ![r] = s \in ArchivedStates(t)]
  BY <1>1 DEF RecordInv, TypeOK
<1>4. t \in RecordTypes
  BY ServiceAssumption
<1>5. Lifecycle!Appear(r)
  BY <1>1, <1>2, <1>3, <1>4, SameRecords DEF Lifecycle!Appear, MaybeOwner
<1> QED
  BY <1>5 DEF Lifecycle!LifecycleNext

\* As long as no two operations on one record overlap, any number of clients
\* implements the lifecycle of records: valid creation, one edge of the state
\* machine per step, archived for good (operational_record_service.py:126-518).
THEOREM SerialHonoursLifecycle ==
    Spec /\ []OneAtATime => LifecycleHonoured
<1>1. Init => Lifecycle!LifecycleInit
  BY DEF Init, NoRow, Lifecycle!LifecycleInit
<1>2. Init => ReadFresh
  BY DEF Init, Idle, ReadFresh
<1>3. OneAtATime' /\ RecordInv /\ RecordInv' /\ ReadFresh /\ [Next]_vars => ReadFresh'
  BY ReadFreshStep
<1>4. RecordInv /\ ReadFresh /\ [Next]_vars
        => [Lifecycle!LifecycleNext]_(Lifecycle!lifecycleVars)
  <2> SUFFICES ASSUME RecordInv, ReadFresh, [Next]_vars
               PROVE  [Lifecycle!LifecycleNext]_(Lifecycle!lifecycleVars)
    OBVIOUS
  <2>1. CASE UNCHANGED row
    BY <2>1 DEF Lifecycle!lifecycleVars
  <2>2. ASSUME NEW c \in Clients, NEW r \in Records, Create(c, r)
        PROVE  Lifecycle!LifecycleNext
    BY <2>2, CreateHonours
  <2>3. ASSUME NEW c \in Clients,
               WriteUpdate(c) \/ WriteTransition(c) \/ WriteArchive(c)
        PROVE  [Lifecycle!LifecycleNext]_(Lifecycle!lifecycleVars)
    BY <2>3, WriteHonours
  <2> QED
    BY <2>1, <2>2, <2>3
       DEF Next, ReadForUpdate, ReadForTransition, ReadForArchive, Reread,
           Audit, AppendEvent, Fail, vars
<1> QED
  BY <1>1, <1>2, <1>3, <1>4, RecordInvariant, PTL
     DEF Spec, LifecycleHonoured, Lifecycle!LifecycleSpec

\* As long as no two operations on one record overlap, a record's state only
\* changes along an edge of its state machine (canonical_operational_schema.md:
\* 141): overlapping operations are the only way to break the rule.
THEOREM SerialTransitionsLawful ==
    Spec /\ []OneAtATime => LawfulTransitions
<1> DEFINE Lawful == \A r \in Records :
             row[r] # NoRow =>
               ValidTransition(row[r].type, row[r].state, row'[r].state)
<1>1. Init => ReadFresh
  BY DEF Init, Idle, ReadFresh
<1>2. OneAtATime' /\ RecordInv /\ RecordInv' /\ ReadFresh /\ [Next]_vars => ReadFresh'
  BY ReadFreshStep
<1>3. RecordInv /\ ReadFresh /\ [Next]_vars => Lawful
  <2> SUFFICES ASSUME RecordInv, ReadFresh, [Next]_vars, NEW r \in Records, row[r] # NoRow
               PROVE  ValidTransition(row[r].type, row[r].state, row'[r].state)
    OBVIOUS
  <2>1. row[r] \in Row /\ row[r].state \in StatesOf(row[r].type)
    BY DEF RecordInv, TypeOK
  <2>2. CASE row'[r].state = row[r].state
    BY <2>1, <2>2 DEF ValidTransition
  <2>3. ASSUME NEW c \in Clients, NEW q \in Records, Create(c, q)
        PROVE  row'[r].state = row[r].state
    BY <2>3 DEF Create, RecordInv, TypeOK
  <2>4. ASSUME NEW c \in Clients, WriteUpdate(c) \/ WriteArchive(c)
        PROVE  row'[r].state = row[r].state
    <3>1. op[c] \in Op /\ op[c].rec \in Records
      BY <2>4, BusyIsOp DEF WriteUpdate, WriteArchive, Write, RecordInv, Op
    <3> QED
      BY <2>1, <2>4, <3>1 DEF WriteUpdate, WriteArchive, Write, RecordInv, TypeOK, Row
  <2>5. ASSUME NEW c \in Clients, WriteTransition(c)
        PROVE  ValidTransition(row[r].type, row[r].state, row'[r].state)
    <3>1. /\ ReadSound(op[c]) /\ op[c].seen = row[op[c].rec]
          /\ op[c].kind = "transition"
          /\ row' = [row EXCEPT ![op[c].rec] = TransitionedRow(op[c].rec, op[c])]
      BY <2>5 DEF WriteTransition, Write, RecordInv, ReadsSound, ReadFresh
    <3>2. CASE op[c].rec = r
      <4>1. row'[r] = TransitionedRow(r, op[c])
        BY <3>1, <3>2 DEF RecordInv, TypeOK
      <4>2. row'[r].state = op[c].target
        BY <2>1, <4>1 DEF TransitionedRow, Row
      <4> QED
        BY <3>1, <3>2, <4>2 DEF ReadSound
    <3>3. CASE op[c].rec # r
      BY <2>2, <3>1, <3>3 DEF RecordInv, TypeOK
    <3> QED
      BY <3>2, <3>3
  <2>6. CASE UNCHANGED row
    BY <2>2, <2>6
  <2> QED
    BY <2>2, <2>3, <2>4, <2>5, <2>6
       DEF Next, ReadForUpdate, ReadForTransition, ReadForArchive, Reread,
           Audit, AppendEvent, Fail, vars
<1> HIDE DEF Lawful
<1>4. Spec /\ []OneAtATime => [][Lawful]_vars
  BY <1>1, <1>2, <1>3, RecordInvariant, PTL DEF Spec
<1> QED
  BY <1>4 DEF LawfulTransitions, Lawful
-----------------------------------------------------------------------------
(* What the two logs of a record say while one operation works on it.      *)

\* t and a are the ends of the two logs of the record o works on, w its row.
Logged(o, w, t, a) ==
    /\ t = o.seen.state
    /\ w.state = IF o.stage = "read" \/ o.kind \in {"update", "archive"}
                 THEN o.seen.state ELSE o.target
    /\ o.stage \in {"reread", "audited"} => o.after = w.state
    /\ a = IF o.stage = "audited" THEN w.state ELSE o.seen.state

LoggedSoFar ==
    \A r \in Records \ torn, c \in Clients :
        op[c] # Idle /\ op[c].rec = r => Logged(op[c], row[r], trail[r], audited[r])

LogsInv == QuietLogs /\ LoggedSoFar

\* A step of one client that leaves the other records alone.
LEMMA LogsKept ==
    ASSUME RecordInv, LogsInv, OneAtATime, OneAtATime',
           NEW c \in Clients, NEW r \in Records, NEW o \in Op \cup {Idle},
           op[c] = Idle \/ op[c].rec = r,
           op' = [op EXCEPT ![c] = o],
           \A q \in Records \ {r} :
             row'[q] = row[q] /\ trail'[q] = trail[q] /\ audited'[q] = audited[q],
           torn \subseteq torn',
           o # Idle => o.rec = r,
           r \notin torn' /\ o # Idle => Logged(o, row'[r], trail'[r], audited'[r]),
           r \notin torn' /\ o = Idle =>
             op[c] # Idle /\ trail'[r] = row'[r].state /\ audited'[r] = row'[r].state
    PROVE  LogsInv'
<1>1. op'[c] = o /\ \A d \in Clients \ {c} : op'[d] = op[d]
  BY DEF RecordInv, TypeOK
<1>2. \A d \in Clients : op[d] # Idle => op[d].stage # "idle"
  BY DEF RecordInv, TypeOK, Op, Stages
<1>3. o # Idle => o.stage # "idle"
  BY DEF Op, Stages
<1>4. ASSUME NEW q \in Records \ torn', Quiet(q)'
      PROVE  trail'[q] = row'[q].state /\ audited'[q] = row'[q].state
  <2>1. CASE q = r
    <3>1. o = Idle
      BY <1>1, <1>4, <2>1 DEF Quiet
    <3> QED
      BY <1>4, <2>1, <3>1
  <2>2. CASE q # r
    <3>1. Quiet(q)
      BY <1>1, <1>4, <2>2 DEF Quiet
    <3> QED
      BY <1>4, <2>2, <3>1 DEF LogsInv, QuietLogs
  <2> QED
    BY <2>1, <2>2
<1>5. ASSUME NEW q \in Records \ torn', NEW d \in Clients, op'[d] # Idle, op'[d].rec = q
      PROVE  Logged(op'[d], row'[q], trail'[q], audited'[q])
  <2>1. CASE q = r
    <3>1. d = c
      <4>1. SUFFICES ASSUME d # c PROVE FALSE
        OBVIOUS
      <4>2. op[d] # Idle /\ op[d].rec = r /\ op'[d].rec = r
        BY <1>1, <1>5, <2>1, <4>1
      <4>3. op[d].stage # "idle" /\ op'[d].stage # "idle"
        BY <1>1, <1>2, <4>1, <4>2
      <4>4. CASE o = Idle
        BY <1>2, <1>5, <2>1, <4>1, <4>2, <4>3, <4>4 DEF OneAtATime
      <4>5. CASE o # Idle
        BY <1>1, <1>3, <4>1, <4>2, <4>3, <4>5 DEF OneAtATime
      <4> QED
        BY <4>4, <4>5
    <3> QED
      BY <1>1, <1>5, <2>1, <3>1
  <2>2. CASE q # r
    <3>1. op'[d] = op[d]
      BY <1>1, <1>5, <2>2
    <3> QED
      BY <1>5, <2>2, <3>1 DEF LogsInv, LoggedSoFar
  <2> QED
    BY <2>1, <2>2
<1>6. QuietLogs'
  BY <1>4 DEF QuietLogs
<1>7. LoggedSoFar'
  BY <1>5 DEF LoggedSoFar
<1> QED
  BY <1>6, <1>7 DEF LogsInv

\* A record on which an operation starts was quiet.
LEMMA QuietBefore ==
    ASSUME RecordInv, OneAtATime', NEW c \in Clients, NEW r \in Records, NEW o \in Op,
           op[c] = Idle, o.rec = r, op' = [op EXCEPT ![c] = o]
    PROVE  Quiet(r)
<1> SUFFICES ASSUME NEW d \in Clients, op[d] # Idle, op[d].rec = r PROVE FALSE
  BY DEF Quiet
<1>1. op'[c] = o /\ op'[d] = op[d] /\ d # c
  BY DEF RecordInv, TypeOK
<1>2. o.stage # "idle" /\ op[d].stage # "idle"
  BY DEF RecordInv, TypeOK, Op, Stages
<1> QED
  BY <1>1, <1>2 DEF OneAtATime

LEMMA LogsStep ==
    ASSUME RecordInv, LogsInv, OneAtATime, OneAtATime', [Next]_vars
    PROVE  LogsInv'
<1>1. ASSUME NEW c \in Clients, op[c].stage # "idle"
      PROVE  /\ op[c] \in Op /\ op[c] # Idle /\ op[c].rec \in Records
             /\ op[c].rec \notin torn =>
                  Logged(op[c], row[op[c].rec], trail[op[c].rec], audited[op[c].rec])
  <2>1. op[c] \in Op /\ op[c] # Idle
    BY <1>1, BusyIsOp DEF RecordInv, Idle
  <2> QED
    BY <2>1 DEF Op, LogsInv, LoggedSoFar
<1>2. ASSUME NEW c \in Clients, NEW r \in Records, Create(c, r)
      PROVE  LogsInv'
  <2>1. PICK t \in Types, s \in RecordStates, w \in MaybeOwner :
          /\ row' = [row EXCEPT ![r] =
                       [type |-> t, state |-> s, owner |-> w,
                        resolved |-> s \in ResolvedStates(t),
                        archived |-> s \in ArchivedStates(t)]]
          /\ Start(c, [kind |-> "create", rec |-> r, stage |-> "written",
                       seen |-> NoRow, after |-> "none", target |-> s, owner |-> w])
    BY <1>2 DEF Create
  <2> DEFINE o == [kind |-> "create", rec |-> r, stage |-> "written",
                   seen |-> NoRow, after |-> "none", target |-> s, owner |-> w]
  <2>2. o \in Op
    BY DEF Op, Kinds, Stages, MaybeState, NoRow, Row, MaybeOwner
  <2>3. /\ o.rec = r /\ o.stage = "written" /\ o.kind = "create"
        /\ o.seen.state = "none" /\ o.target = s
    BY DEF NoRow
  <2>4. /\ row'[r].state = s
        /\ \A q \in Records \ {r} : row'[q] = row[q]
        /\ row[r].state = "none"
    BY <1>2, <2>1 DEF Create, RecordInv, TypeOK, NoRow
  <2>5. op[c] = Idle /\ op' = [op EXCEPT ![c] = o] /\ UNCHANGED <<trail, audited, torn>>
    BY <1>2, <2>1 DEF Create, Start
  <2> HIDE DEF o
  <2>6. Quiet(r)
    BY <2>2, <2>3, <2>5, QuietBefore
  <2>7. r \notin torn => trail[r] = "none" /\ audited[r] = "none"
    BY <2>4, <2>6 DEF LogsInv, QuietLogs
  <2>8. r \notin torn' => Logged(o, row'[r], trail'[r], audited'[r])
    BY <2>3, <2>4, <2>5, <2>7 DEF Logged
  <2>9. o # Idle
    BY <2>3 DEF Idle
  <2> QED
    BY <2>2, <2>3, <2>4, <2>5, <2>8, <2>9, LogsKept
<1>3. ASSUME NEW c \in Clients, NEW r \in Records, NEW k \in Kinds,
             NEW s \in MaybeState, NEW w \in MaybeOwner,
             Start(c, Reading(r, k, s, w)), UNCHANGED <<row, trail, audited, torn>>
      PROVE  LogsInv'
  <2> DEFINE o == Reading(r, k, s, w)
  <2>1. o \in Op /\ o.rec = r /\ o.stage = "read" /\ o.seen = row[r]
    <3>1. row[r] \in Row /\ "none" \in MaybeState
      BY DEF RecordInv, TypeOK, MaybeState
    <3> QED
      BY <3>1 DEF Reading, Op, Stages
  <2>2. op[c] = Idle /\ op' = [op EXCEPT ![c] = o]
    BY <1>3 DEF Start
  <2> HIDE DEF o
  <2>3. Quiet(r)
    BY <2>1, <2>2, QuietBefore
  <2>4. r \notin torn' => Logged(o, row'[r], trail'[r], audited'[r])
    BY <1>3, <2>1, <2>3 DEF LogsInv, QuietLogs, Logged
  <2>5. o # Idle
    BY <2>1 DEF Idle
  <2> QED
    BY <1>3, <2>1, <2>2, <2>4, <2>5, LogsKept
<1>4. ASSUME NEW c \in Clients, NEW r \in Records,
             ReadForUpdate(c, r) \/ ReadForTransition(c, r) \/ ReadForArchive(c, r)
      PROVE  LogsInv'
  <2> USE DEF Kinds, MaybeState, MaybeOwner
  <2>1. CASE ReadForUpdate(c, r)
    BY <1>3, <2>1 DEF ReadForUpdate
  <2>2. CASE ReadForTransition(c, r)
    BY <1>3, <2>2 DEF ReadForTransition
  <2>3. CASE ReadForArchive(c, r)
    BY <1>3, <2>3 DEF ReadForArchive
  <2> QED
    BY <1>4, <2>1, <2>2, <2>3
<1>5. ASSUME NEW c \in Clients, NEW k \in Kinds, NEW w, Write(c, k, w),
             w.state = IF k = "transition" THEN op[c].target ELSE row[op[c].rec].state,
             k # "create"
      PROVE  LogsInv'
  <2> DEFINE o == [op[c] EXCEPT !.stage = "written"]
             r == op[c].rec
  <2>1. /\ op[c] \in Op /\ op[c] # Idle /\ r \in Records
        /\ op[c].stage = "read" /\ op[c].kind = k
        /\ r \notin torn => Logged(op[c], row[r], trail[r], audited[r])
    BY <1>1, <1>5 DEF Write
  <2>2. /\ o \in Op /\ o.rec = r /\ o.stage = "written" /\ o.kind = k
        /\ o.seen = op[c].seen /\ o.target = op[c].target
    BY <2>1 DEF Op, Stages
  <2>3. /\ op' = [op EXCEPT ![c] = o] /\ row' = [row EXCEPT ![r] = w]
        /\ UNCHANGED <<trail, audited, torn>>
    BY <1>5 DEF Write, Advance
  <2> HIDE DEF o, r
  <2>4. row'[r] = w /\ \A q \in Records \ {r} : row'[q] = row[q]
    BY <2>1, <2>3 DEF RecordInv, TypeOK
  <2>5. w.state = IF k = "transition" THEN op[c].target ELSE row[r].state
    BY <1>5 DEF r
  <2>6. r \notin torn' => Logged(o, row'[r], trail'[r], audited'[r])
    BY <1>5, <2>1, <2>2, <2>3, <2>4, <2>5 DEF Logged, Kinds
  <2>7. o # Idle
    BY <2>2 DEF Idle
  <2>8. op[c] = Idle \/ op[c].rec = r
    BY DEF r
  <2> QED
    BY <2>1, <2>2, <2>3, <2>4, <2>6, <2>7, <2>8, LogsKept
<1>6. ASSUME NEW c \in Clients, WriteUpdate(c) \/ WriteTransition(c) \/ WriteArchive(c)
      PROVE  LogsInv'
  <2>1. op[c].rec \in Records /\ row[op[c].rec] \in Row
    BY <1>1, <1>6 DEF WriteUpdate, WriteTransition, WriteArchive, Write, RecordInv, TypeOK
  <2>2. CASE WriteUpdate(c)
    BY <1>5, <2>1, <2>2 DEF WriteUpdate, Row, Kinds
  <2>3. CASE WriteTransition(c)
    BY <1>5, <2>1, <2>3 DEF WriteTransition, TransitionedRow, Row, Kinds
  <2>4. CASE WriteArchive(c)
    BY <1>5, <2>1, <2>4 DEF WriteArchive, Row, Kinds
  <2> QED
    BY <1>6, <2>2, <2>3, <2>4
<1>7. ASSUME NEW c \in Clients, Reread(c) PROVE LogsInv'
  <2> DEFINE r == op[c].rec
             o == [op[c] EXCEPT !.after = row[r].state, !.stage = "reread"]
  <2>1. /\ op[c] \in Op /\ op[c] # Idle /\ r \in Records
        /\ op[c].stage = "written"
        /\ r \notin torn => Logged(op[c], row[r], trail[r], audited[r])
    BY <1>1, <1>7 DEF Reread
  <2>2. row[r].state \in MaybeState
    BY <2>1 DEF RecordInv, TypeOK, Row
  <2>3. /\ o \in Op /\ o.rec = r /\ o.stage = "reread" /\ o.kind = op[c].kind
        /\ o.seen = op[c].seen /\ o.target = op[c].target /\ o.after = row[r].state
    BY <2>1, <2>2 DEF Op, Stages
  <2>4. op' = [op EXCEPT ![c] = o] /\ UNCHANGED <<row, trail, audited, torn>>
    BY <1>7 DEF Reread
  <2>5. op[c] = Idle \/ op[c].rec = r
    OBVIOUS
  <2> HIDE DEF o, r
  <2>6. r \notin torn' => Logged(o, row'[r], trail'[r], audited'[r])
    BY <2>1, <2>3, <2>4 DEF Logged
  <2>7. o # Idle
    BY <2>3 DEF Idle
  <2> QED
    BY <2>1, <2>3, <2>4, <2>5, <2>6, <2>7, LogsKept
<1>8. ASSUME NEW c \in Clients, Audit(c) PROVE LogsInv'
  <2> DEFINE r == op[c].rec
             o == [op[c] EXCEPT !.stage = "audited"]
  <2>1. /\ op[c] \in Op /\ op[c] # Idle /\ r \in Records
        /\ op[c].stage = "reread"
        /\ r \notin torn => Logged(op[c], row[r], trail[r], audited[r])
    BY <1>1, <1>8 DEF Audit
  <2>2. /\ o \in Op /\ o.rec = r /\ o.stage = "audited" /\ o.kind = op[c].kind
        /\ o.seen = op[c].seen /\ o.target = op[c].target /\ o.after = op[c].after
    BY <2>1 DEF Op, Stages
  <2>3. /\ op' = [op EXCEPT ![c] = o] /\ audited' = [audited EXCEPT ![r] = op[c].after]
        /\ UNCHANGED <<row, trail, torn>>
    BY <1>8 DEF Audit, Advance
  <2>4. op[c] = Idle \/ op[c].rec = r
    OBVIOUS
  <2> HIDE DEF o, r
  <2>5. audited'[r] = op[c].after /\ \A q \in Records \ {r} : audited'[q] = audited[q]
    BY <2>1, <2>3 DEF RecordInv, TypeOK
  <2>6. r \notin torn' => Logged(o, row'[r], trail'[r], audited'[r])
    BY <2>1, <2>2, <2>3, <2>5 DEF Logged
  <2>7. o # Idle
    BY <2>2 DEF Idle
  <2> QED
    BY <2>1, <2>2, <2>3, <2>4, <2>5, <2>6, <2>7, LogsKept
<1>9. ASSUME NEW c \in Clients, AppendEvent(c) PROVE LogsInv'
  <2> DEFINE r == op[c].rec
  <2>1. /\ op[c] \in Op /\ op[c] # Idle /\ r \in Records
        /\ op[c].stage = "audited"
        /\ r \notin torn => Logged(op[c], row[r], trail[r], audited[r])
    BY <1>1, <1>9 DEF AppendEvent
  <2>2. r \notin torn => NewState(op[c]) = row[r].state /\ audited[r] = row[r].state
    BY <2>1 DEF Logged, NewState, Op, Kinds
  <2>3. /\ op' = [op EXCEPT ![c] = Idle] /\ trail' = [trail EXCEPT ![r] = NewState(op[c])]
        /\ UNCHANGED <<row, audited, torn>>
    BY <1>9 DEF AppendEvent
  <2>4. op[c] = Idle \/ op[c].rec = r
    OBVIOUS
  <2> HIDE DEF r
  <2>5. trail'[r] = NewState(op[c]) /\ \A q \in Records \ {r} : trail'[q] = trail[q]
    BY <2>1, <2>3 DEF RecordInv, TypeOK
  <2> QED
    BY <2>1, <2>2, <2>3, <2>4, <2>5, LogsKept
<1>10. ASSUME NEW c \in Clients, Fail(c) PROVE LogsInv'
  <2> DEFINE r == op[c].rec
  <2>1. op[c] \in Op /\ r \in Records
    BY <1>10 DEF Fail, RecordInv, TypeOK, Op
  <2>2. /\ op' = [op EXCEPT ![c] = Idle] /\ torn' = torn \cup {r}
        /\ UNCHANGED <<row, trail, audited>>
    BY <1>10 DEF Fail
  <2>3. op[c] = Idle \/ op[c].rec = r
    OBVIOUS
  <2> HIDE DEF r
  <2> QED
    BY <2>1, <2>2, <2>3, LogsKept
<1>11. CASE UNCHANGED vars
  BY <1>11 DEF vars, LogsInv, QuietLogs, Quiet, LoggedSoFar
<1> QED
  BY <1>2, <1>4, <1>6, <1>7, <1>8, <1>9, <1>10, <1>11 DEF Next

\* As long as no two operations on one record overlap, and wherever they are
\* cut off, the two logs of a record nobody is working on end with its state,
\* unless an operation on that very record was cut off
\* (operational_record_service.py:183-232).
THEOREM SerialLogsTell ==
    Spec /\ []OneAtATime => []QuietLogs
<1>1. Init => LogsInv
  BY DEF Init, LogsInv, QuietLogs, LoggedSoFar, NoRow
<1>2. RecordInv /\ LogsInv /\ OneAtATime /\ OneAtATime' /\ [Next]_vars => LogsInv'
  BY LogsStep
<1>3. LogsInv => QuietLogs
  BY DEF LogsInv
<1> QED
  BY <1>1, <1>2, <1>3, RecordInvariant, PTL DEF Spec

\* As long as no two operations on one record overlap, its events form a chain
\* (operational_record_service.py:464-473).
THEOREM SerialEventsChain ==
    Spec /\ []OneAtATime => EventChain
<1> DEFINE Chained == \A c \in Clients :
             AppendEvent(c) /\ op[c].rec \notin torn
                => PreviousState(op[c]) = trail[op[c].rec]
<1>1. Init => LogsInv
  BY DEF Init, LogsInv, QuietLogs, LoggedSoFar, NoRow
<1>2. RecordInv /\ LogsInv /\ OneAtATime /\ OneAtATime' /\ [Next]_vars => LogsInv'
  BY LogsStep
<1>3. RecordInv /\ LogsInv => Chained
  <2> SUFFICES ASSUME RecordInv, LogsInv, NEW c \in Clients, AppendEvent(c),
                      op[c].rec \notin torn
               PROVE  PreviousState(op[c]) = trail[op[c].rec]
    OBVIOUS
  <2>1. op[c] \in Op /\ op[c] # Idle /\ op[c].rec \in Records
    BY BusyIsOp DEF AppendEvent, RecordInv, Idle, Op
  <2> QED
    BY <2>1 DEF LogsInv, LoggedSoFar, Logged, PreviousState
<1> HIDE DEF Chained
<1>4. Spec /\ []OneAtATime => [][Chained]_vars
  BY <1>1, <1>2, <1>3, RecordInvariant, PTL DEF Spec
<1> QED
  BY <1>4 DEF EventChain, Chained
=============================================================================
