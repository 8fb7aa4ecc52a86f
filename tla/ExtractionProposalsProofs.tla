--------------------- MODULE ExtractionProposalsProofs ---------------------
(***************************************************************************)
(* For any proposals, records and number of reviewers, wherever they are   *)
(* cut off: the types, that an accepted proposal names the record created  *)
(* from it, and that a promoted one is linked to the record it names. As   *)
(* long as no two review one proposal at a time: only the record a         *)
(* proposal names carries it, its event and penalty tell its verdict, and  *)
(* no verdict is written over another. As long as nobody merges into a     *)
(* record another has created and not yet named either: a review is what   *)
(* ProposalReview says it is. As long as no two merges into one record     *)
(* overlap: a merge lasts.                                                 *)
(***************************************************************************)
EXTENDS ExtractionProposals, TLAPS

\* What an operation in flight knows of the record it promotes into.
SoundIn(o, rows) ==
    /\ o.verdict = "merged" \/ o.stage \in {"backed", "decided"}
         => o.rec \in Records /\ rows[o.rec].type = Type[o.prop]
    /\ o.verdict = "accepted" /\ o.stage = "backed"
         => rows[o.rec].origin = o.prop
    /\ o.stage = "seen" => o.verdict = "merged"
    /\ o.stage \in {"backed", "decided"} => o.verdict \in {"accepted", "merged"}

OpsSound == \A c \in Clients : op[c] # Idle => SoundIn(op[c], record)

\* What a verdict says of the record it names.
VerdictsSoundIn(st, hm, rows) ==
    \A p \in Proposals :
        /\ st[p] \in {"accepted", "merged"}
             => hm[p] \in Records /\ rows[hm[p]].type = Type[p]
        /\ st[p] = "accepted" => rows[hm[p]].origin = p

CoreTypes ==
    /\ status \in [Proposals -> Statuses]
    /\ home \in [Proposals -> Records \cup {NoRecord}]
    /\ record \in [Records -> Record]
    /\ op \in [Clients -> Op \cup {Idle}]

LogTypes ==
    /\ edges \subseteq Proposals \X Records
    /\ told \in [Proposals -> Statuses]
    /\ penalty \in [Proposals -> Nat]
    /\ torn \subseteq Proposals
    /\ reviews \in Nat

IInv ==
    /\ CoreTypes
    /\ LogTypes
    /\ OpsSound
    /\ VerdictsSoundIn(status, home, record)

\* A row once stored keeps its type and its origin.
RowsKept(rows) ==
    \A r \in Records :
        record[r].type # "none" => /\ rows[r].type = record[r].type
                                   /\ rows[r].origin = record[r].origin

LEMMA TypesAreTypes == \A p \in Proposals : Type[p] \in Types /\ Type[p] # "none"
  BY ProposalAssumption DEF Types

LEMMA InFlight ==
    ASSUME CoreTypes, NEW c \in Clients, op[c] # Idle
    PROVE  op[c] \in Op
  BY DEF CoreTypes

LEMMA IdleIsNoOp == Idle.stage = "idle" /\ Idle \notin Op
  BY DEF Idle, Op

\* A step of client c that leaves its operation at o and the records at rows.
LEMMA OpStep ==
    ASSUME IInv, NEW c \in Clients, NEW o \in Op \cup {Idle},
           NEW rows \in [Records -> Record], RowsKept(rows),
           record' = rows, op' = [op EXCEPT ![c] = o],
           o # Idle => SoundIn(o, rows)
    PROVE  OpsSound' /\ op' \in [Clients -> Op \cup {Idle}]
<1>1. op' \in [Clients -> Op \cup {Idle}]
  BY DEF IInv, CoreTypes
<1>2. ASSUME NEW d \in Clients, op'[d] # Idle PROVE SoundIn(op'[d], rows)
  <2>1. CASE d = c
    BY <1>2, <2>1 DEF IInv, CoreTypes
  <2>2. CASE d # c
    <3>1. op'[d] = op[d]
      BY <2>2 DEF IInv, CoreTypes
    <3>2. op[d] \in Op /\ SoundIn(op[d], record)
      BY <1>2, <3>1, InFlight DEF IInv, OpsSound
    <3>3. op[d].prop \in Proposals
      BY <3>2 DEF Op
    <3>4. SoundIn(op[d], rows)
      BY <3>2, <3>3, TypesAreTypes DEF SoundIn, RowsKept
    <3> QED
      BY <3>1, <3>4
  <2> QED
    BY <2>1, <2>2
<1> QED
  BY <1>1, <1>2 DEF OpsSound

\* Verdicts stay sound where they are left alone.
LEMMA VerdictsKept ==
    ASSUME IInv, NEW rows \in [Records -> Record], RowsKept(rows)
    PROVE  VerdictsSoundIn(status, home, rows)
  BY TypesAreTypes DEF IInv, VerdictsSoundIn, RowsKept

LEMMA SameRowsKept == RowsKept(record)
  BY DEF RowsKept

\* A step that leaves the proposals and their verdicts alone.
LEMMA RecordStep ==
    ASSUME IInv, NEW c \in Clients, NEW o \in Op \cup {Idle},
           NEW rows \in [Records -> Record], RowsKept(rows),
           record' = rows, op' = [op EXCEPT ![c] = o],
           o # Idle => SoundIn(o, rows),
           UNCHANGED <<status, home>>, LogTypes'
    PROVE  IInv'
<1>1. OpsSound' /\ op' \in [Clients -> Op \cup {Idle}]
  BY OpStep
<1>2. VerdictsSoundIn(status, home, rows)
  BY VerdictsKept
<1> QED
  BY <1>1, <1>2 DEF IInv, CoreTypes

\* A step that writes a verdict and leaves the records alone.
LEMMA VerdictStep ==
    ASSUME IInv, NEW c \in Clients, NEW o \in Op \cup {Idle},
           NEW p \in Proposals, NEW v \in Statuses,
           NEW h \in Records \cup {NoRecord},
           UNCHANGED record, op' = [op EXCEPT ![c] = o],
           o # Idle => SoundIn(o, record),
           status' = [status EXCEPT ![p] = v],
           home' = [home EXCEPT ![p] = h],
           v \in {"accepted", "merged"}
             => h \in Records /\ record[h].type = Type[p],
           v = "accepted" => record[h].origin = p,
           LogTypes'
    PROVE  IInv'
<1>1. record \in [Records -> Record]
  BY DEF IInv, CoreTypes
<1>2. OpsSound' /\ op' \in [Clients -> Op \cup {Idle}]
  BY <1>1, OpStep, SameRowsKept
<1>3. status' \in [Proposals -> Statuses] /\ home' \in [Proposals -> Records \cup {NoRecord}]
  BY DEF IInv, CoreTypes
<1>4. VerdictsSoundIn(status', home', record)
  BY <1>3 DEF IInv, CoreTypes, VerdictsSoundIn
<1> QED
  BY <1>1, <1>2, <1>3, <1>4 DEF IInv, CoreTypes

LEMMA InitSound == Init => IInv
<1> SUFFICES ASSUME Init PROVE IInv
  OBVIOUS
<1>1. PICK old \in SUBSET Records, t \in Types :
        record = [r \in Records |->
                    IF r \in old THEN [NoRow EXCEPT !.type = t] ELSE NoRow]
  BY DEF Init
<1>2. record \in [Records -> Record]
  BY <1>1 DEF NoRow, Record
<1>3. CoreTypes
  BY <1>2 DEF Init, CoreTypes, Statuses
<1>4. LogTypes
  BY ProposalAssumption DEF Init, LogTypes, Statuses
<1>5. OpsSound /\ VerdictsSoundIn(status, home, record)
  BY DEF Init, OpsSound, VerdictsSoundIn
<1> QED
  BY <1>3, <1>4, <1>5 DEF IInv

\* The logs and the budget keep their types.
LEMMA LogStep == IInv /\ [Next]_vars => LogTypes'
<1> SUFFICES ASSUME IInv, [Next]_vars PROVE LogTypes'
  OBVIOUS
<1>1. ASSUME NEW c \in Clients, NEW p \in Proposals, Propose(c, p)
      PROVE  LogTypes'
  BY <1>1 DEF IInv, LogTypes, Propose
<1>2. ASSUME NEW c \in Clients, NEW p \in Proposals, NEW v \in Verdicts,
             NEW r \in Records \cup {NoRecord}, Read(c, p, v, r)
      PROVE  LogTypes'
  BY <1>2 DEF IInv, LogTypes, Read
<1>3. ASSUME NEW c \in Clients,
             \/ CreateRecord(c) \/ GetRecord(c) \/ WriteMerge(c)
             \/ Decide(c) \/ Reject(c)
      PROVE  LogTypes'
  BY <1>3 DEF IInv, LogTypes, CreateRecord, GetRecord, WriteMerge, Decide, Reject
<1>4. ASSUME NEW c \in Clients, At(c, "decided") \/ At(c, "tell") \/ At(c, "learn")
      PROVE  op[c] \in Op /\ op[c].prop \in Proposals
  BY <1>4, InFlight DEF At, IInv, Op
<1>5. ASSUME NEW c \in Clients, AddEdge(c) PROVE LogTypes'
  <2>1. op[c] \in Op /\ SoundIn(op[c], record) /\ op[c].prop \in Proposals
    BY <1>4, <1>5 DEF AddEdge, At, IInv, OpsSound
  <2>2. op[c].rec \in Records
    BY <1>5, <2>1 DEF SoundIn, AddEdge, At
  <2> QED
    BY <1>5, <2>1, <2>2 DEF AddEdge, EdgesWith, IInv, LogTypes
<1>6. ASSUME NEW c \in Clients, Tell(c) PROVE LogTypes'
  <2>1. op[c].verdict \in Statuses
    BY <1>4, <1>6 DEF Tell, Op, Statuses, Verdicts
  <2> QED
    BY <1>6, <2>1 DEF Tell, StatusTold, IInv, LogTypes
<1>7. ASSUME NEW c \in Clients, Learn(c) PROVE LogTypes'
  BY <1>4, <1>7 DEF Learn, IInv, LogTypes
<1>8. ASSUME NEW r \in Records, EditTask(r) PROVE LogTypes'
  BY <1>8 DEF EditTask, IInv, LogTypes
<1>9. CASE UNCHANGED vars
  BY <1>9 DEF vars, IInv, LogTypes
<1>10. ASSUME NEW c \in Clients, NEW p \in Proposals, NEW v \in Verdicts,
              ReadForVerdict(c, p, v)
       PROVE  LogTypes'
  BY <1>2, <1>10 DEF ReadForVerdict
<1>11. ASSUME NEW c \in Clients, NEW p \in Proposals, NEW r \in Records,
              ReadForMerge(c, p, r)
       PROVE  LogTypes'
  BY <1>2, <1>11 DEF ReadForMerge, Verdicts
<1>12. ASSUME NEW c \in Clients, RefuseState(c) \/ Fail(c) PROVE LogTypes'
  <2>1. op[c].prop \in Proposals
    BY <1>12, InFlight DEF RefuseState, Fail, At, IInv, Op
  <2> QED
    BY <1>12, <2>1 DEF RefuseState, Fail, IInv, LogTypes
<1> QED
  BY <1>1, <1>3, <1>5, <1>6, <1>7, <1>8, <1>9, <1>10, <1>11, <1>12 DEF Next

\* Every step keeps the invariant.
LEMMA InvStep == IInv /\ [Next]_vars => IInv'
<1> SUFFICES ASSUME IInv, [Next]_vars PROVE IInv'
  OBVIOUS
<1>0. LogTypes'
  BY LogStep
<1>1. record \in [Records -> Record] /\ RowsKept(record)
  BY SameRowsKept DEF IInv, CoreTypes
<1>2. ASSUME NEW c \in Clients, op[c] # Idle
      PROVE  /\ op[c] \in Op
             /\ op[c].prop \in Proposals
             /\ SoundIn(op[c], record)
  BY <1>2, InFlight DEF IInv, OpsSound, Op
<1>3. ASSUME NEW c \in Clients, UNCHANGED <<status, home, record>>, Done(c)
      PROVE  IInv'
  BY <1>0, <1>1, <1>3, RecordStep DEF Done
<1>4. ASSUME NEW c \in Clients, NEW p \in Proposals, Propose(c, p) PROVE IInv'
  <2> DEFINE o == [verdict |-> "pending", prop |-> p, stage |-> "tell",
                   rec |-> NoRecord, seen |-> {}]
  <2>1. o \in Op /\ SoundIn(o, record)
    BY DEF Op, SoundIn
  <2>2. home' = [home EXCEPT ![p] = home[p]] /\ home[p] \in Records \cup {NoRecord}
    BY <1>4 DEF Propose, IInv, CoreTypes
  <2>3. op' = [op EXCEPT ![c] = o] /\ status' = [status EXCEPT ![p] = "pending"]
        /\ UNCHANGED record
    BY <1>4 DEF Propose
  <2> HIDE DEF o
  <2> QED
    BY <1>0, <2>1, <2>2, <2>3, VerdictStep DEF Statuses
<1>5. ASSUME NEW c \in Clients, NEW p \in Proposals, NEW v \in Verdicts,
             NEW r \in Records \cup {NoRecord}, Read(c, p, v, r),
             v = "merged" => r \in Records /\ record[r].type = Type[p]
      PROVE  IInv'
  <2> DEFINE o == [verdict |-> v, prop |-> p, stage |-> "read",
                   rec |-> r, seen |-> {}]
  <2>1. o \in Op /\ SoundIn(o, record)
    BY <1>5 DEF Op, SoundIn
  <2>2. op' = [op EXCEPT ![c] = o] /\ UNCHANGED <<status, home, record>>
    BY <1>5 DEF Read
  <2> HIDE DEF o
  <2> QED
    BY <1>0, <1>1, <2>1, <2>2, RecordStep
<1>6. ASSUME NEW c \in Clients, CreateRecord(c) PROVE IInv'
  <2>1. PICK r \in Records \ Stored :
          /\ record' = [record EXCEPT ![r] = RowFrom(op[c].prop)]
          /\ op' = [op EXCEPT ![c].rec = r, ![c].stage = "backed"]
    BY <1>6 DEF CreateRecord
  <2> DEFINE o == [op[c] EXCEPT !.rec = r, !.stage = "backed"]
             rows == [record EXCEPT ![r] = RowFrom(op[c].prop)]
  <2>2. op[c] \in Op /\ op[c].prop \in Proposals /\ op[c].verdict = "accepted"
    BY <1>2, <1>6 DEF CreateRecord, At
  <2>3. RowFrom(op[c].prop) \in Record
    BY <2>2, TypesAreTypes DEF RowFrom, Record
  <2>4. rows \in [Records -> Record] /\ RowsKept(rows)
    BY <1>1, <2>3 DEF RowsKept, Stored
  <2>5. o \in Op /\ SoundIn(o, rows)
    BY <1>1, <2>2 DEF Op, SoundIn, RowFrom
  <2>6. op' = [op EXCEPT ![c] = o] /\ record' = rows /\ UNCHANGED <<status, home>>
    BY <1>6, <2>1 DEF CreateRecord
  <2> HIDE DEF o, rows
  <2> QED
    BY <1>0, <2>4, <2>5, <2>6, RecordStep
<1>7. ASSUME NEW c \in Clients, GetRecord(c) PROVE IInv'
  <2> DEFINE o == [op[c] EXCEPT !.seen = record[op[c].rec].merged, !.stage = "seen"]
  <2>1. /\ op[c] \in Op
        /\ SoundIn(op[c], record)
        /\ op[c].verdict = "merged"
        /\ op[c].rec \in Records
    BY <1>2, <1>7 DEF GetRecord, At, SoundIn
  <2>2. o \in Op /\ SoundIn(o, record)
    BY <1>1, <2>1 DEF Op, SoundIn, Record
  <2>3. op' = [op EXCEPT ![c] = o] /\ UNCHANGED <<status, home, record>>
    BY <1>7 DEF GetRecord
  <2> HIDE DEF o
  <2> QED
    BY <1>0, <1>1, <2>2, <2>3, RecordStep
<1>8. ASSUME NEW c \in Clients, WriteMerge(c) PROVE IInv'
  <2> DEFINE o == [op[c] EXCEPT !.stage = "backed"]
             entries == op[c].seen \cup {op[c].prop}
             rows == [record EXCEPT ![op[c].rec].merged = entries]
  <2>1. op[c] \in Op /\ SoundIn(op[c], record) /\ op[c].stage = "seen"
    BY <1>2, <1>8 DEF WriteMerge, At
  <2>2. entries \subseteq Proposals
    BY <2>1 DEF Op
  <2>3. rows \in [Records -> Record] /\ RowsKept(rows)
    BY <1>1, <2>2 DEF RowsKept, Record
  <2>4. o \in Op /\ o.stage = "backed" /\ o.verdict = op[c].verdict
        /\ o.rec = op[c].rec /\ o.prop = op[c].prop
    BY <2>1 DEF Op
  <2>5. SoundIn(o, rows)
    BY <1>1, <2>1, <2>3, <2>4, TypesAreTypes DEF SoundIn, RowsKept, Op
  <2>6. op' = [op EXCEPT ![c] = o] /\ record' = rows /\ UNCHANGED <<status, home>>
    BY <1>8 DEF WriteMerge, Advance
  <2> HIDE DEF o, rows
  <2> QED
    BY <1>0, <2>3, <2>4, <2>5, <2>6, RecordStep
<1>9. ASSUME NEW c \in Clients, RefuseState(c) \/ Learn(c) \/ Fail(c) PROVE IInv'
  BY <1>3, <1>9 DEF RefuseState, Learn, Fail
<1>10. ASSUME NEW c \in Clients, NEW stage \in {"tell", "learn"},
              op[c] # Idle, Advance(c, stage),
              UNCHANGED <<status, home, record>>
       PROVE  IInv'
  <2> DEFINE o == [op[c] EXCEPT !.stage = stage]
  <2>1. o \in Op /\ SoundIn(o, record)
    BY <1>2, <1>10 DEF Op, SoundIn
  <2>2. op' = [op EXCEPT ![c] = o]
    BY <1>10 DEF Advance
  <2> HIDE DEF o
  <2> QED
    BY <1>0, <1>1, <1>10, <2>1, <2>2, RecordStep
<1>11. ASSUME NEW c \in Clients, Decide(c) PROVE IInv'
  <2> DEFINE o == [op[c] EXCEPT !.stage = "decided"]
  <2>1. /\ op[c] \in Op
        /\ op[c].prop \in Proposals
        /\ SoundIn(op[c], record)
        /\ op[c].stage = "backed"
    BY <1>2, <1>11 DEF Decide, At
  <2>2. /\ op[c].verdict \in Statuses
        /\ op[c].rec \in Records
        /\ record[op[c].rec].type = Type[op[c].prop]
        /\ op[c].verdict = "accepted" => record[op[c].rec].origin = op[c].prop
    BY <2>1 DEF SoundIn, Statuses, Verdicts
  <2>3. o \in Op /\ SoundIn(o, record)
    BY <2>1, <2>2 DEF Op, SoundIn
  <2>4. /\ op' = [op EXCEPT ![c] = o]
        /\ status' = [status EXCEPT ![op[c].prop] = op[c].verdict]
        /\ home' = [home EXCEPT ![op[c].prop] = op[c].rec]
        /\ UNCHANGED record
    BY <1>11 DEF Decide, Advance
  <2> HIDE DEF o
  <2> QED
    BY <1>0, <2>1, <2>2, <2>3, <2>4, VerdictStep
<1>12. ASSUME NEW c \in Clients, Reject(c) PROVE IInv'
  <2> DEFINE o == [op[c] EXCEPT !.stage = "tell"]
             p == op[c].prop
  <2>1. op[c] \in Op /\ p \in Proposals /\ SoundIn(op[c], record)
    BY <1>2, <1>12 DEF Reject, At
  <2>2. o \in Op /\ SoundIn(o, record)
    BY <1>12, <2>1 DEF Op, SoundIn, Reject
  <2>3. home' = [home EXCEPT ![p] = home[p]] /\ home[p] \in Records \cup {NoRecord}
    BY <1>12, <2>1 DEF Reject, IInv, CoreTypes
  <2>4. /\ op' = [op EXCEPT ![c] = o]
        /\ status' = [status EXCEPT ![p] = "rejected"]
        /\ UNCHANGED record
    BY <1>12 DEF Reject, Advance
  <2> HIDE DEF o, p
  <2> QED
    BY <1>0, <2>1, <2>2, <2>3, <2>4, VerdictStep DEF Statuses, Verdicts
<1>13. ASSUME NEW c \in Clients, AddEdge(c) PROVE IInv'
  BY <1>10, <1>13 DEF AddEdge, At
<1>14. ASSUME NEW c \in Clients, Tell(c) PROVE IInv'
  BY <1>3, <1>10, <1>14 DEF Tell, At
<1>15. ASSUME NEW r \in Records, EditTask(r) PROVE IInv'
  <2> DEFINE rows == [record EXCEPT ![r].merged = {}]
  <2>1. rows \in [Records -> Record] /\ RowsKept(rows)
    BY <1>1 DEF RowsKept, Record
  <2>2. record' = rows /\ UNCHANGED <<status, home, op>>
    BY <1>15 DEF EditTask
  <2>3. ASSUME NEW d \in Clients, op[d] # Idle PROVE SoundIn(op[d], rows)
    <3>1. SoundIn(op[d], record) /\ op[d] \in Op
      BY <1>2, <2>3
    <3> HIDE DEF rows
    <3> QED
      BY <2>1, <3>1, TypesAreTypes DEF SoundIn, RowsKept, Op
  <2>4. VerdictsSoundIn(status, home, rows)
    BY <2>1, VerdictsKept
  <2> HIDE DEF rows
  <2> QED
    BY <1>0, <2>1, <2>2, <2>3, <2>4 DEF IInv, CoreTypes, OpsSound
<1>16. CASE UNCHANGED vars
  BY <1>0, <1>16 DEF vars, IInv, CoreTypes, OpsSound
<1>17. ASSUME NEW c \in Clients, NEW p \in Proposals, NEW v \in Verdicts,
              ReadForVerdict(c, p, v)
       PROVE  IInv'
  BY <1>5, <1>17 DEF ReadForVerdict
<1>18. ASSUME NEW c \in Clients, NEW p \in Proposals, NEW r \in Records,
              ReadForMerge(c, p, r)
       PROVE  IInv'
  BY <1>5, <1>18 DEF ReadForMerge, Verdicts
<1> QED
  BY <1>4, <1>6, <1>7, <1>8, <1>9, <1>11, <1>12, <1>13, <1>14, <1>15, <1>16,
     <1>17, <1>18 DEF Next

LEMMA Invariant == Spec => []IInv
<1> QED
  BY InitSound, InvStep, PTL DEF Spec

\* However many reviews interleave and wherever they are cut off, the tables
\* keep their shape and a promoted proposal names a stored record of its type.
THEOREM ProposalTypesHold == Spec => []TypeOK
<1>1. IInv => TypeOK
  <2> SUFFICES ASSUME IInv PROVE TypeOK
    OBVIOUS
  <2>1. ASSUME NEW p \in Proposals, status[p] \in {"accepted", "merged"}
        PROVE  home[p] \in Stored /\ record[home[p]].type = Type[p]
    BY <2>1, TypesAreTypes DEF IInv, VerdictsSoundIn, Stored
  <2> QED
    BY <2>1 DEF IInv, CoreTypes, LogTypes, TypeOK
<1> QED
  BY <1>1, Invariant, PTL

\* However many reviews interleave and wherever they are cut off, an accepted
\* proposal names the record created from it and shares it with no other
\* accepted proposal (extraction_proposal_service.py:331-367).
THEOREM AcceptedAlwaysBacked == Spec => []AcceptedBacked
<1>1. IInv => AcceptedBacked
  BY DEF IInv, VerdictsSoundIn, AcceptedBacked
<1> QED
  BY <1>1, Invariant, PTL

-----------------------------------------------------------------------------
(* Provenance.                                                             *)

\* A promoted proposal is linked to the record it names, or the review that
\* decided last has yet to link it.
LinkedOrComing ==
    \A p \in Proposals \ torn :
        Promoted(p) =>
          \/ <<p, home[p]>> \in edges
          \/ \E c \in Clients :
                /\ At(c, "decided")
                /\ op[c].prop = p /\ op[c].rec = home[p]

\* A step that promotes nothing, and takes no review from between its verdict
\* and its link.
LEMMA LinksKept ==
    ASSUME LinkedOrComing, UNCHANGED home,
           \A p \in Proposals : Promoted(p)' => Promoted(p),
           edges \subseteq edges', torn \subseteq torn',
           \A c \in Clients : At(c, "decided") =>
             \/ op'[c] = op[c]
             \/ op[c].prop \in torn'
             \/ <<op[c].prop, op[c].rec>> \in edges'
    PROVE  LinkedOrComing'
<1> SUFFICES ASSUME NEW p \in Proposals \ torn', Promoted(p)',
                    <<p, home[p]>> \notin edges'
             PROVE  \E c \in Clients : At(c, "decided")' /\ op'[c].prop = p
                                       /\ op'[c].rec = home[p]
  BY DEF LinkedOrComing
<1>1. PICK c \in Clients : At(c, "decided") /\ op[c].prop = p /\ op[c].rec = home[p]
  BY DEF LinkedOrComing
<1>2. op'[c] = op[c]
  BY <1>1
<1> QED
  BY <1>1, <1>2 DEF At

LEMMA LinksStep == IInv /\ LinkedOrComing /\ [Next]_vars => LinkedOrComing'
<1> SUFFICES ASSUME IInv, LinkedOrComing, [Next]_vars PROVE LinkedOrComing'
  OBVIOUS
<1> USE DEF IInv, CoreTypes
<1>1. ASSUME NEW c \in Clients, NEW p \in Proposals, Propose(c, p)
      PROVE  LinkedOrComing'
  BY <1>1, LinksKept DEF Propose, Promoted, At
<1>2. ASSUME NEW c \in Clients, NEW p \in Proposals, NEW v, NEW r, Read(c, p, v, r)
      PROVE  LinkedOrComing'
  BY <1>2, LinksKept DEF Read, Promoted, At
<1>3. ASSUME NEW c \in Clients,
             CreateRecord(c) \/ GetRecord(c) \/ WriteMerge(c)
      PROVE  LinkedOrComing'
  BY <1>3, LinksKept DEF CreateRecord, GetRecord, WriteMerge, Advance, Promoted, At
<1>4. ASSUME NEW c \in Clients, RefuseState(c) \/ Tell(c) \/ Learn(c) \/ Fail(c)
      PROVE  LinkedOrComing'
  BY <1>4, LinksKept DEF RefuseState, Tell, Learn, Fail, Advance, Done, Promoted, At
<1>5. ASSUME NEW c \in Clients, Reject(c) PROVE LinkedOrComing'
  BY <1>5, LinksKept DEF Reject, Advance, Promoted, At
<1>6. ASSUME NEW c \in Clients, AddEdge(c) PROVE LinkedOrComing'
  BY <1>6, LinksKept DEF AddEdge, EdgesWith, Advance, Promoted, At
<1>7. ASSUME NEW c \in Clients, Decide(c) PROVE LinkedOrComing'
  <2>1. op[c] \in Op /\ op[c] # Idle /\ op[c].stage = "backed" /\ op[c].prop \in Proposals
    BY <1>7, InFlight DEF Decide, At, Op
  <2>2. /\ op'[c] = [op[c] EXCEPT !.stage = "decided"]
        /\ \A d \in Clients \ {c} : op'[d] = op[d]
    BY <1>7 DEF Decide, Advance
  <2>3. /\ op'[c].stage = "decided" /\ op'[c].prop = op[c].prop
        /\ op'[c].rec = op[c].rec /\ op'[c] # Idle
    BY <2>1, <2>2 DEF Op, Idle
  <2>4. ASSUME NEW p \in Proposals \ torn', Promoted(p)', <<p, home'[p]>> \notin edges'
        PROVE  \E d \in Clients : At(d, "decided")' /\ op'[d].prop = p
                                  /\ op'[d].rec = home'[p]
    <3>1. CASE p = op[c].prop
      BY <1>7, <2>3, <3>1 DEF Decide, At
    <3>2. CASE p # op[c].prop
      <4>1. p \notin torn /\ Promoted(p) /\ home'[p] = home[p] /\ <<p, home[p]>> \notin edges
        BY <1>7, <2>4, <3>2 DEF Decide, Promoted
      <4>2. PICK d \in Clients : At(d, "decided") /\ op[d].prop = p /\ op[d].rec = home[p]
        BY <4>1 DEF LinkedOrComing
      <4>3. d # c
        BY <2>1, <4>2 DEF At
      <4> QED
        BY <2>2, <4>1, <4>2, <4>3 DEF At
    <3> QED
      BY <3>1, <3>2
  <2> QED
    BY <2>4 DEF LinkedOrComing
<1>8. CASE UNCHANGED <<status, home, edges, op, torn>>
  BY <1>8, LinksKept DEF Promoted
<1>9. ASSUME NEW r \in Records, EditTask(r) PROVE LinkedOrComing'
  BY <1>8, <1>9 DEF EditTask
<1>10. CASE UNCHANGED vars
  BY <1>8, <1>10 DEF vars
<1> QED
  BY <1>1, <1>2, <1>3, <1>4, <1>5, <1>6, <1>7, <1>9, <1>10
     DEF Next, ReadForVerdict, ReadForMerge

\* However many reviews of one proposal overlap, overwrite each other's verdict
\* and merge into other records: the source of a promoted proposal nobody is
\* reviewing is linked to the record it names in the end, unless a review of
\* it was cut off (docs/internal/review_queue_architecture.md:139).
THEOREM AlwaysTraced == Spec => []Traced
<1>1. Init => LinkedOrComing
  BY DEF Init, LinkedOrComing, Promoted
<1>2. LinkedOrComing => Traced
  BY DEF LinkedOrComing, Traced, Quiet, At
<1> QED
  BY <1>1, <1>2, Invariant, LinksStep, PTL DEF Spec

-----------------------------------------------------------------------------
(* Reviews that keep out of each other's way.                              *)

\* No two operations in flight are about one proposal.
OneAtATime ==
    \A c, d \in Clients :
        c # d /\ op[c] # Idle /\ op[d] # Idle => op[c].prop # op[d].prop

\* Nobody merges into a new record before the verdict that names it.
NoMergeAhead ==
    \A c, d \in Clients :
        /\ At(c, "backed") /\ op[c].verdict = "accepted"
        /\ op[d] # Idle /\ op[d].verdict = "merged"
        => op[c].rec # op[d].rec

KeptApart == OneAtATime /\ NoMergeAhead

\* A review that has not decided yet still has a pending proposal before it,
\* and the record it created is nobody's home yet.
TurnIn(o, st, hm) ==
    /\ o.verdict \in Verdicts /\ o.stage \in {"read", "seen", "backed"}
         => st[o.prop] = "pending"
    /\ o.verdict = "accepted" /\ o.stage = "backed"
         => \A q \in Proposals : hm[q] # o.rec

Turns == \A c \in Clients : op[c] # Idle => TurnIn(op[c], status, home)

HomesStored == \A q \in Proposals : home[q] = NoRecord \/ home[q] \in Stored

ReviewInv == IInv /\ Turns /\ HomesStored

\* No step takes a row away.
LEMMA RowsStep == IInv /\ [Next]_vars => RowsKept(record')
<1> SUFFICES ASSUME IInv, [Next]_vars, UNCHANGED record PROVE RowsKept(record')
  <2>1. ASSUME NEW c \in Clients, CreateRecord(c) PROVE RowsKept(record')
    BY <2>1 DEF CreateRecord, RowsKept, Stored, IInv, CoreTypes
  <2>2. ASSUME NEW c \in Clients, WriteMerge(c) PROVE RowsKept(record')
    BY <2>2 DEF WriteMerge, RowsKept, IInv, CoreTypes, Record
  <2>3. ASSUME NEW r \in Records, EditTask(r) PROVE RowsKept(record')
    BY <2>3 DEF EditTask, RowsKept, IInv, CoreTypes, Record
  <2> QED
    BY <2>1, <2>2, <2>3
       DEF Next, vars, Propose, ReadForVerdict, ReadForMerge, Read, GetRecord,
           RefuseState, Decide, Reject, AddEdge, Tell, Learn, Fail
<1> QED
  BY DEF RowsKept

LEMMA HomesStep == ReviewInv /\ [Next]_vars => HomesStored'
<1> SUFFICES ASSUME ReviewInv, [Next]_vars PROVE HomesStored'
  OBVIOUS
<1>1. RowsKept(record')
  BY RowsStep DEF ReviewInv
<1>2. Stored \subseteq Stored'
  BY <1>1 DEF RowsKept, Stored
<1>3. ASSUME NEW c \in Clients, Decide(c) PROVE HomesStored'
  <2>1. op[c] \in Op /\ SoundIn(op[c], record) /\ op[c].stage = "backed"
    BY <1>3, InFlight DEF Decide, At, ReviewInv, IInv, OpsSound
  <2>2. op[c].rec \in Stored /\ op[c].prop \in Proposals
    BY <2>1, TypesAreTypes DEF SoundIn, Stored, Op
  <2> QED
    BY <1>2, <1>3, <2>2 DEF Decide, HomesStored, ReviewInv, IInv, CoreTypes
<1>4. CASE UNCHANGED home
  BY <1>2, <1>4 DEF HomesStored, ReviewInv
<1> QED
  BY <1>3, <1>4
     DEF Next, vars, Propose, ReadForVerdict, ReadForMerge, Read, CreateRecord,
         GetRecord, WriteMerge, RefuseState, Reject, AddEdge, Tell, Learn,
         Fail, EditTask

\* A verdict of one review leaves another one's turn.
LEMMA OthersTurn ==
    ASSUME KeptApart, ReviewInv, NEW c \in Clients, NEW d \in Clients \ {c},
           op[d] # Idle,
           \/ UNCHANGED <<status, home>>
           \/ Decide(c)
           \/ Reject(c)
           \/ \E p \in Proposals : Propose(c, p)
    PROVE  TurnIn(op[d], status', home')
<1>1. /\ op[d] \in Op /\ op[d].prop \in Proposals
      /\ SoundIn(op[d], record) /\ TurnIn(op[d], status, home)
  BY InFlight DEF ReviewInv, IInv, OpsSound, Turns, Op
<1>2. CASE UNCHANGED <<status, home>>
  BY <1>1, <1>2
<1>3. CASE Decide(c)
  <2>1. /\ op[c] \in Op /\ op[c].prop \in Proposals /\ op[c].stage = "backed"
        /\ op[c] # Idle /\ SoundIn(op[c], record)
    BY <1>3, InFlight DEF Decide, At, ReviewInv, IInv, OpsSound, Op
  <2>2. op[d].prop # op[c].prop
    BY <2>1 DEF KeptApart, OneAtATime
  <2>3. status'[op[d].prop] = status[op[d].prop]
    BY <1>3, <2>2 DEF Decide, ReviewInv, IInv, CoreTypes
  <2>4. ASSUME op[d].verdict = "accepted", op[d].stage = "backed"
        PROVE  op[c].rec # op[d].rec
    <3>1. CASE op[c].verdict = "merged"
      BY <2>1, <2>4, <3>1 DEF KeptApart, NoMergeAhead, At
    <3>2. CASE op[c].verdict = "accepted"
      BY <1>1, <2>1, <2>2, <2>4, <3>2 DEF SoundIn
    <3> QED
      BY <2>1, <3>1, <3>2 DEF SoundIn
  <2>5. \A q \in Proposals : home'[q] \in {home[q], op[c].rec}
    BY <1>3 DEF Decide, ReviewInv, IInv, CoreTypes
  <2> QED
    BY <1>1, <2>3, <2>4, <2>5 DEF TurnIn
<1>4. CASE Reject(c)
  <2>1. op[c] # Idle
    BY <1>4 DEF Reject, At
  <2>2. op[d].prop # op[c].prop
    BY <2>1 DEF KeptApart, OneAtATime
  <2>3. status'[op[d].prop] = status[op[d].prop]
    BY <1>1, <1>4, <2>2 DEF Reject, ReviewInv, IInv, CoreTypes
  <2> QED
    BY <1>1, <1>4, <2>3 DEF TurnIn, Reject
<1>5. ASSUME NEW p \in Proposals, Propose(c, p) PROVE TurnIn(op[d], status', home')
  BY <1>1, <1>5 DEF TurnIn, Propose, ReviewInv, IInv, CoreTypes
<1> QED
  BY <1>2, <1>3, <1>4, <1>5

\* A step of one client, which has its own turn.
LEMMA TurnStep ==
    ASSUME KeptApart, ReviewInv, NEW c \in Clients, NEW o,
           op' = [op EXCEPT ![c] = o],
           o # Idle => TurnIn(o, status', home'),
           \/ UNCHANGED <<status, home>>
           \/ Decide(c)
           \/ Reject(c)
           \/ \E p \in Proposals : Propose(c, p)
    PROVE  Turns'
<1> SUFFICES ASSUME NEW d \in Clients, op'[d] # Idle
             PROVE  TurnIn(op'[d], status', home')
  BY DEF Turns
<1>1. op'[c] = o /\ (d # c => op'[d] = op[d])
  BY DEF ReviewInv, IInv, CoreTypes
<1>2. CASE d = c
  BY <1>1, <1>2
<1>3. CASE d # c
  BY <1>1, <1>3, OthersTurn
<1> QED
  BY <1>2, <1>3

LEMMA TurnsStep == KeptApart /\ ReviewInv /\ [Next]_vars => Turns'
<1> SUFFICES ASSUME KeptApart, ReviewInv, [Next]_vars PROVE Turns'
  OBVIOUS
<1>1. IInv
  BY DEF ReviewInv
<1>2. ASSUME NEW c \in Clients, op[c] # Idle
      PROVE  /\ op[c] \in Op
             /\ SoundIn(op[c], record)
             /\ TurnIn(op[c], status, home)
  BY <1>2, InFlight DEF ReviewInv, IInv, OpsSound, Turns
<1>3. ASSUME NEW c \in Clients, Done(c), UNCHANGED <<status, home>> PROVE Turns'
  BY <1>3, TurnStep DEF Done
<1>4. ASSUME NEW c \in Clients, NEW p \in Proposals, Propose(c, p) PROVE Turns'
  <2> DEFINE o == [verdict |-> "pending", prop |-> p, stage |-> "tell",
                   rec |-> NoRecord, seen |-> {}]
  <2>1. TurnIn(o, status', home')
    BY DEF TurnIn
  <2>2. op' = [op EXCEPT ![c] = o]
    BY <1>4 DEF Propose
  <2> HIDE DEF o
  <2> QED
    BY <1>4, <2>1, <2>2, TurnStep
<1>5. ASSUME NEW c \in Clients, NEW p \in Proposals, NEW v, NEW r,
             Read(c, p, v, r), status[p] = "pending"
      PROVE  Turns'
  <2> DEFINE o == [verdict |-> v, prop |-> p, stage |-> "read",
                   rec |-> r, seen |-> {}]
  <2>1. TurnIn(o, status', home')
    BY <1>5 DEF TurnIn, Read
  <2>2. op' = [op EXCEPT ![c] = o]
    BY <1>5 DEF Read
  <2>9. UNCHANGED <<status, home>>
    BY <1>5 DEF Read
  <2> HIDE DEF o
  <2> QED
    BY <2>9, <2>1, <2>2, TurnStep
<1>6. ASSUME NEW c \in Clients, CreateRecord(c) PROVE Turns'
  <2>1. PICK r \in Records \ Stored :
          op' = [op EXCEPT ![c].rec = r, ![c].stage = "backed"]
    BY <1>6 DEF CreateRecord
  <2> DEFINE o == [op[c] EXCEPT !.rec = r, !.stage = "backed"]
  <2>2. /\ op[c] \in Op
        /\ op[c].stage = "read"
        /\ op[c].verdict = "accepted"
        /\ TurnIn(op[c], status, home)
    BY <1>2, <1>6 DEF CreateRecord, At
  <2>3. \A q \in Proposals : home[q] # r
    BY ProposalAssumption DEF ReviewInv, HomesStored
  <2>4. TurnIn(o, status', home')
    BY <1>6, <2>2, <2>3 DEF TurnIn, CreateRecord, Op, Verdicts
  <2>5. op' = [op EXCEPT ![c] = o]
    BY <2>1
  <2>9. UNCHANGED <<status, home>>
    BY <1>6 DEF CreateRecord
  <2> HIDE DEF o
  <2> QED
    BY <2>9, <2>4, <2>5, TurnStep
<1>7. ASSUME NEW c \in Clients, GetRecord(c) PROVE Turns'
  <2> DEFINE o == [op[c] EXCEPT !.seen = record[op[c].rec].merged, !.stage = "seen"]
  <2>1. /\ op[c] \in Op
        /\ op[c].stage = "read"
        /\ op[c].verdict = "merged"
        /\ TurnIn(op[c], status, home)
    BY <1>2, <1>7 DEF GetRecord, At
  <2>2. TurnIn(o, status', home')
    BY <1>7, <2>1 DEF TurnIn, GetRecord, Op, Verdicts
  <2>3. op' = [op EXCEPT ![c] = o]
    BY <1>7 DEF GetRecord
  <2>9. UNCHANGED <<status, home>>
    BY <1>7 DEF GetRecord
  <2> HIDE DEF o
  <2> QED
    BY <2>9, <2>2, <2>3, TurnStep
<1>8. ASSUME NEW c \in Clients, WriteMerge(c) PROVE Turns'
  <2> DEFINE o == [op[c] EXCEPT !.stage = "backed"]
  <2>1. /\ op[c] \in Op
        /\ op[c].stage = "seen"
        /\ op[c].verdict = "merged"
        /\ TurnIn(op[c], status, home)
    BY <1>2, <1>8 DEF WriteMerge, At, SoundIn
  <2>2. TurnIn(o, status', home')
    BY <1>8, <2>1 DEF TurnIn, WriteMerge, Op, Verdicts
  <2>3. op' = [op EXCEPT ![c] = o]
    BY <1>8 DEF WriteMerge, Advance
  <2>9. UNCHANGED <<status, home>>
    BY <1>8 DEF WriteMerge
  <2> HIDE DEF o
  <2> QED
    BY <2>9, <2>2, <2>3, TurnStep
<1>9. ASSUME NEW c \in Clients, NEW stage \in {"decided", "tell", "learn"},
             op[c] # Idle, Advance(c, stage),
             UNCHANGED <<status, home>> \/ Decide(c) \/ Reject(c)
      PROVE  Turns'
  <2> DEFINE o == [op[c] EXCEPT !.stage = stage]
  <2>1. op[c] \in Op
    BY <1>2, <1>9
  <2>2. TurnIn(o, status', home')
    BY <2>1 DEF TurnIn, Op
  <2>3. op' = [op EXCEPT ![c] = o]
    BY <1>9 DEF Advance
  <2> HIDE DEF o
  <2> QED
    BY <1>9, <2>2, <2>3, TurnStep
<1>10. ASSUME NEW c \in Clients,
              Decide(c) \/ Reject(c) \/ AddEdge(c) \/ Tell(c)
       PROVE  Turns'
  <2>1. CASE Decide(c)
    BY <1>9, <2>1 DEF Decide, At
  <2>2. CASE Reject(c)
    BY <1>9, <2>2 DEF Reject, At
  <2>3. CASE AddEdge(c) \/ Tell(c)
    BY <1>3, <1>9, <2>3 DEF AddEdge, Tell, At
  <2> QED
    BY <1>10, <2>1, <2>2, <2>3
<1>11. CASE UNCHANGED <<status, home, op>>
  BY <1>11 DEF ReviewInv, Turns
<1>12. ASSUME NEW r \in Records, EditTask(r) PROVE Turns'
  BY <1>11, <1>12 DEF EditTask
<1>13. ASSUME NEW c \in Clients, RefuseState(c) \/ Learn(c) \/ Fail(c) PROVE Turns'
  BY <1>3, <1>13 DEF RefuseState, Learn, Fail
<1>14. ASSUME NEW c \in Clients, NEW p \in Proposals, NEW v \in Verdicts,
              ReadForVerdict(c, p, v)
       PROVE  Turns'
  BY <1>5, <1>14 DEF ReadForVerdict
<1>15. ASSUME NEW c \in Clients, NEW p \in Proposals, NEW r \in Records,
              ReadForMerge(c, p, r)
       PROVE  Turns'
  BY <1>5, <1>15 DEF ReadForMerge
<1>16. CASE UNCHANGED vars
  BY <1>11, <1>16 DEF vars
<1> QED
  BY <1>4, <1>6, <1>7, <1>8, <1>10, <1>12, <1>13, <1>14, <1>15, <1>16 DEF Next

LEMMA ReviewInitRefined == Init => Review!ReviewInit
  BY DEF Init, Review!ReviewInit

\* Each step is one step of the review, or none.
LEMMA ReviewStepRefined ==
    ReviewInv /\ [Next]_vars
      => [Review!ReviewNext]_(Review!reviewVars)
<1> SUFFICES ASSUME ReviewInv, [Next]_vars
             PROVE  Review!ReviewNext \/ UNCHANGED <<status, home>>
  BY DEF Review!reviewVars
<1>1. ASSUME NEW c \in Clients, NEW p \in Proposals, Propose(c, p)
      PROVE  Review!ReviewNext
  BY <1>1 DEF Propose, Review!ReviewNext, Review!Submit
<1>2. ASSUME NEW c \in Clients, op[c] # Idle
      PROVE  /\ op[c] \in Op
             /\ op[c].prop \in Proposals
             /\ SoundIn(op[c], record)
             /\ TurnIn(op[c], status, home)
  BY <1>2, InFlight DEF ReviewInv, IInv, OpsSound, Turns, Op
<1>3. ASSUME NEW c \in Clients, Decide(c) PROVE Review!ReviewNext
  <2>1. /\ op[c].prop \in Proposals
        /\ op[c].verdict \in {"accepted", "merged"}
        /\ op[c].rec \in Records
        /\ status[op[c].prop] = "pending"
        /\ op[c].verdict = "accepted" => \A q \in Proposals : home[q] # op[c].rec
    BY <1>2, <1>3 DEF Decide, At, SoundIn, TurnIn, Verdicts
  <2>2. Review!Promote(op[c].prop)
    BY <1>3, <2>1 DEF Decide, Review!Promote
  <2> QED
    BY <2>1, <2>2 DEF Review!ReviewNext
<1>4. ASSUME NEW c \in Clients, Reject(c) PROVE Review!ReviewNext
  <2>1. op[c].prop \in Proposals /\ status[op[c].prop] = "pending"
    BY <1>2, <1>4 DEF Reject, At, TurnIn, Verdicts
  <2> QED
    BY <1>4, <2>1 DEF Reject, Review!ReviewNext, Review!Dismiss
<1> QED
  BY <1>1, <1>3, <1>4
     DEF Next, vars, ReadForVerdict, ReadForMerge, Read, CreateRecord,
         GetRecord, WriteMerge, RefuseState, AddEdge, Tell, Learn, Fail, EditTask

\* As long as no two reviews of one proposal overlap and nobody merges into a
\* record before the verdict it was created for, any number of reviewers,
\* wherever they are cut off, implement the review: one verdict for each
\* proposal, once, and a record of its own for an accepted one
\* (extraction_proposal_service.py:308-472).
THEOREM SerialHonoursReview ==
    Spec /\ []KeptApart => ReviewHonoured
<1>1. Init => ReviewInv
  BY InitSound DEF Init, ReviewInv, Turns, HomesStored
<1>2. KeptApart /\ ReviewInv /\ [Next]_vars => ReviewInv'
  BY InvStep, HomesStep, TurnsStep DEF ReviewInv
<1>3. ReviewInv /\ [Next]_vars => [Review!ReviewNext]_(Review!reviewVars)
  BY ReviewStepRefined
<1> QED
  BY <1>1, <1>2, <1>3, ReviewInitRefined, PTL
     DEF Spec, ReviewHonoured, Review!ReviewSpec

-----------------------------------------------------------------------------
(* One operation at a time on each proposal: what the logs say of it, and  *)
(* which records may carry it.                                             *)

\* What operation o has done so far for proposal p.
InStep(o, p, st, hm, tl, pen) ==
    /\ pen[p] = 0
    /\ o.stage \in {"read", "seen", "backed"} => st[p] = "pending" /\ tl[p] = "pending"
    /\ o.stage = "decided" => st[p] = o.verdict /\ hm[p] = o.rec
    /\ o.stage = "tell" => st[p] = o.verdict
    /\ o.stage = "learn" => st[p] = "rejected" /\ tl[p] = "rejected"

\* What is left once nobody works on p any more.
Over(p, st, tl, pen) ==
    /\ tl[p] = st[p]
    /\ pen[p] = IF st[p] = "rejected" THEN 1 ELSE 0

LogsInv ==
    \A p \in Proposals \ torn :
        /\ Quiet(p) => Over(p, status, told, penalty)
        /\ \A c \in Clients :
             op[c] # Idle /\ op[c].prop = p
               => InStep(op[c], p, status, home, told, penalty)

\* A step that leaves the proposals other than p alone.
OthersAlone(p) ==
    /\ \A q \in Proposals \ {p} :
         /\ status'[q] = status[q] /\ home'[q] = home[q]
         /\ told'[q] = told[q] /\ penalty'[q] = penalty[q]
    /\ torn \subseteq torn'

\* Such a step, by the client that works on p.
LEMMA LogsKept ==
    ASSUME IInv, LogsInv, OneAtATime, OneAtATime',
           NEW c \in Clients, NEW p \in Proposals, NEW o \in Op \cup {Idle},
           op[c] = Idle \/ op[c].prop = p,
           op' = [op EXCEPT ![c] = o],
           o # Idle => o.prop = p,
           OthersAlone(p),
           p \notin torn' /\ o # Idle
             => InStep(o, p, status', home', told', penalty'),
           p \notin torn' /\ o = Idle
             => op[c] # Idle /\ Over(p, status', told', penalty')
    PROVE  LogsInv'
<1>1. op'[c] = o /\ \A d \in Clients \ {c} : op'[d] = op[d]
  BY DEF IInv, CoreTypes
<1>2. ASSUME NEW q \in Proposals \ torn', q # p
      PROVE  /\ status'[q] = status[q] /\ home'[q] = home[q]
             /\ told'[q] = told[q] /\ penalty'[q] = penalty[q]
             /\ q \notin torn
  BY <1>2 DEF OthersAlone
<1>0. torn \subseteq torn'
  BY DEF OthersAlone
<1>3. ASSUME NEW q \in Proposals \ torn', Quiet(q)'
      PROVE  Over(q, status', told', penalty')
  <2>1. CASE q = p
    <3>1. o = Idle
      BY <1>1, <1>3, <2>1 DEF Quiet
    <3> QED
      BY <1>3, <2>1, <3>1
  <2>2. CASE q # p
    <3>1. Quiet(q)
      BY <1>1, <1>3, <2>2 DEF Quiet
    <3>2. Over(q, status, told, penalty)
      BY <1>0, <1>3, <3>1 DEF LogsInv
    <3> QED
      BY <1>2, <1>3, <2>2, <3>2 DEF Over
  <2> QED
    BY <2>1, <2>2
<1>4. ASSUME NEW q \in Proposals \ torn', NEW d \in Clients, op'[d] # Idle, op'[d].prop = q
      PROVE  InStep(op'[d], q, status', home', told', penalty')
  <2>1. CASE q = p
    <3>1. d = c
      <4>1. SUFFICES ASSUME d # c PROVE FALSE
        OBVIOUS
      <4>2. op[d] # Idle /\ op[d].prop = p /\ op'[d] # Idle /\ op'[d].prop = p
        BY <1>1, <1>4, <2>1, <4>1
      <4>3. CASE o = Idle
        BY <1>4, <2>1, <4>1, <4>2, <4>3 DEF OneAtATime
      <4>4. CASE o # Idle
        BY <1>1, <4>1, <4>2, <4>4 DEF OneAtATime
      <4> QED
        BY <4>3, <4>4
    <3> QED
      BY <1>1, <1>4, <2>1, <3>1
  <2>2. CASE q # p
    <3>1. op'[d] = op[d]
      BY <1>1, <1>4, <2>2
    <3>2. InStep(op[d], q, status, home, told, penalty)
      BY <1>0, <1>4, <3>1 DEF LogsInv
    <3> QED
      BY <1>2, <1>4, <2>2, <3>1, <3>2 DEF InStep
  <2> QED
    BY <2>1, <2>2
<1> QED
  BY <1>3, <1>4 DEF LogsInv

\* A proposal on which an operation starts was quiet.
LEMMA QuietBefore ==
    ASSUME IInv, OneAtATime', NEW c \in Clients, NEW p \in Proposals, NEW o \in Op,
           op[c] = Idle, o.prop = p, op' = [op EXCEPT ![c] = o]
    PROVE  Quiet(p)
<1> SUFFICES ASSUME NEW d \in Clients, op[d] # Idle, op[d].prop = p PROVE FALSE
  BY DEF Quiet
<1>1. op'[c] = o /\ op'[d] = op[d] /\ d # c
  BY DEF IInv, CoreTypes
<1>2. o # Idle
  BY IdleIsNoOp
<1> QED
  BY <1>1, <1>2 DEF OneAtATime

\* What a client that goes on with an operation starts from.
LEMMA Midway ==
    ASSUME IInv, LogsInv, NEW c \in Clients, op[c] # Idle
    PROVE  /\ op[c] \in Op /\ op[c].prop \in Proposals
           /\ SoundIn(op[c], record)
           /\ op[c].prop \notin torn =>
                InStep(op[c], op[c].prop, status, home, told, penalty)
<1>1. op[c] \in Op /\ op[c].prop \in Proposals
  BY InFlight DEF IInv, Op
<1> QED
  BY <1>1 DEF IInv, OpsSound, LogsInv

LEMMA LogsStep ==
    ASSUME IInv, LogsInv, OneAtATime, OneAtATime', [Next]_vars
    PROVE  LogsInv'
<1>1. ASSUME NEW c \in Clients, NEW p \in Proposals, Propose(c, p) PROVE LogsInv'
  <2> DEFINE o == [verdict |-> "pending", prop |-> p, stage |-> "tell",
                   rec |-> NoRecord, seen |-> {}]
  <2>1. o \in Op /\ o.prop = p /\ o.stage = "tell" /\ o.verdict = "pending"
    BY DEF Op
  <2>2. /\ op[c] = Idle /\ op' = [op EXCEPT ![c] = o] /\ status[p] = "absent"
        /\ status' = [status EXCEPT ![p] = "pending"]
        /\ UNCHANGED <<home, told, penalty, torn>>
    BY <1>1 DEF Propose
  <2> HIDE DEF o
  <2>3. status'[p] = "pending" /\ \A q \in Proposals \ {p} : status'[q] = status[q]
    BY <2>2 DEF IInv, CoreTypes
  <2>4. Quiet(p)
    BY <2>1, <2>2, QuietBefore
  <2>5. p \notin torn => penalty[p] = 0
    BY <2>2, <2>4 DEF LogsInv, Over
  <2>6. p \notin torn'
          => InStep(o, p, status', home', told', penalty')
    BY <2>1, <2>2, <2>3, <2>5 DEF InStep
  <2>0. OthersAlone(p)
    BY <2>1, <2>2, <2>3, <2>6 DEF OthersAlone
  <2> QED
    BY <2>0, <2>1, <2>2, <2>3, <2>6, IdleIsNoOp, LogsKept
<1>2. ASSUME NEW c \in Clients, NEW p \in Proposals, NEW v \in Verdicts,
             NEW r \in Records \cup {NoRecord}, Read(c, p, v, r), status[p] = "pending"
      PROVE  LogsInv'
  <2> DEFINE o == [verdict |-> v, prop |-> p, stage |-> "read",
                   rec |-> r, seen |-> {}]
  <2>1. o \in Op /\ o.prop = p /\ o.stage = "read"
    BY DEF Op
  <2>2. /\ op[c] = Idle /\ op' = [op EXCEPT ![c] = o]
        /\ UNCHANGED <<status, home, told, penalty, torn>>
    BY <1>2 DEF Read
  <2> HIDE DEF o
  <2>3. Quiet(p)
    BY <2>1, <2>2, QuietBefore
  <2>4. p \notin torn => penalty[p] = 0 /\ told[p] = "pending"
    BY <1>2, <2>3 DEF LogsInv, Over
  <2>5. p \notin torn'
          => InStep(o, p, status', home', told', penalty')
    BY <1>2, <2>1, <2>2, <2>4 DEF InStep
  <2>0. OthersAlone(p)
    BY <2>1, <2>2, <2>5 DEF OthersAlone
  <2> QED
    BY <2>0, <2>1, <2>2, <2>5, IdleIsNoOp, LogsKept
<1>3. ASSUME NEW c \in Clients, NEW p \in Proposals, NEW v \in Verdicts,
             ReadForVerdict(c, p, v)
      PROVE  LogsInv'
  BY <1>2, <1>3 DEF ReadForVerdict
<1>4. ASSUME NEW c \in Clients, NEW p \in Proposals, NEW r \in Records,
             ReadForMerge(c, p, r)
      PROVE  LogsInv'
  BY <1>2, <1>4 DEF ReadForMerge, Verdicts
\* The steps up to the canonical record change no proposal.
<1>5. ASSUME NEW c \in Clients, NEW o \in Op, op[c] # Idle,
             op' = [op EXCEPT ![c] = o], o.prop = op[c].prop,
             op[c].stage \in {"read", "seen"}, o.stage \in {"seen", "backed"},
             UNCHANGED <<status, home, told, penalty, torn>>
      PROVE  LogsInv'
  <2> DEFINE p == op[c].prop
  <2>1. /\ p \in Proposals
        /\ p \notin torn
             => InStep(op[c], p, status, home, told, penalty)
    BY <1>5, Midway
  <2>2. o.prop = p /\ (op[c] = Idle \/ op[c].prop = p)
    BY <1>5
  <2> HIDE DEF p
  <2>3. p \notin torn'
          => InStep(o, p, status', home', told', penalty')
    BY <1>5, <2>1 DEF InStep
  <2>0. OthersAlone(p)
    BY <1>5, <2>1, <2>2, <2>3 DEF OthersAlone
  <2> QED
    BY <2>0, <1>5, <2>1, <2>2, <2>3, IdleIsNoOp, LogsKept
<1>6. ASSUME NEW c \in Clients, CreateRecord(c) PROVE LogsInv'
  <2>1. PICK r \in Records : op' = [op EXCEPT ![c].rec = r, ![c].stage = "backed"]
    BY <1>6 DEF CreateRecord
  <2> DEFINE o == [op[c] EXCEPT !.rec = r, !.stage = "backed"]
  <2>2. op[c] \in Op /\ op[c] # Idle /\ op[c].stage = "read"
    BY <1>6, Midway DEF CreateRecord, At
  <2>3. o \in Op /\ o.prop = op[c].prop /\ o.stage = "backed"
    BY <2>2 DEF Op
  <2>4. op' = [op EXCEPT ![c] = o]
    BY <2>1
  <2> HIDE DEF o
  <2> QED
    BY <1>5, <1>6, <2>2, <2>3, <2>4 DEF CreateRecord
<1>7. ASSUME NEW c \in Clients, GetRecord(c) PROVE LogsInv'
  <2> DEFINE o == [op[c] EXCEPT !.seen = record[op[c].rec].merged, !.stage = "seen"]
  <2>1. /\ op[c] \in Op /\ op[c] # Idle /\ op[c].stage = "read"
        /\ op[c].rec \in Records
    BY <1>7, Midway DEF GetRecord, At, SoundIn
  <2>2. record[op[c].rec].merged \subseteq Proposals
    BY <2>1 DEF IInv, CoreTypes, Record
  <2>3. o \in Op /\ o.prop = op[c].prop /\ o.stage = "seen"
    BY <2>1, <2>2 DEF Op
  <2>4. op' = [op EXCEPT ![c] = o]
    BY <1>7 DEF GetRecord
  <2> HIDE DEF o
  <2> QED
    BY <1>5, <1>7, <2>1, <2>3, <2>4 DEF GetRecord
<1>8. ASSUME NEW c \in Clients, WriteMerge(c) PROVE LogsInv'
  <2> DEFINE o == [op[c] EXCEPT !.stage = "backed"]
  <2>1. op[c] \in Op /\ op[c] # Idle /\ op[c].stage = "seen"
    BY <1>8, Midway DEF WriteMerge, At
  <2>2. o \in Op /\ o.prop = op[c].prop /\ o.stage = "backed"
    BY <2>1 DEF Op
  <2>3. op' = [op EXCEPT ![c] = o]
    BY <1>8 DEF WriteMerge, Advance
  <2> HIDE DEF o
  <2> QED
    BY <1>5, <1>8, <2>1, <2>2, <2>3 DEF WriteMerge
<1>9. ASSUME NEW c \in Clients, RefuseState(c) PROVE LogsInv'
  <2> DEFINE p == op[c].prop
  <2>1. /\ op[c] # Idle /\ p \in Proposals
        /\ p \notin torn
             => InStep(op[c], p, status, home, told, penalty)
    BY <1>9, Midway DEF RefuseState, At
  <2>2. /\ op' = [op EXCEPT ![c] = Idle]
        /\ torn \subseteq torn' /\ (p \notin torn' => op[c].stage = "read")
        /\ UNCHANGED <<status, home, told, penalty>>
    BY <1>9 DEF RefuseState, Done, At
  <2>3. op[c].prop = p
    OBVIOUS
  <2> HIDE DEF p
  <2>4. p \notin torn' => Over(p, status', told', penalty')
    BY <2>1, <2>2 DEF InStep, Over
  <2>0. OthersAlone(p)
    BY <2>1, <2>2, <2>3, <2>4 DEF OthersAlone
  <2> QED
    BY <2>0, <2>1, <2>2, <2>3, <2>4, LogsKept
<1>10. ASSUME NEW c \in Clients, Decide(c) PROVE LogsInv'
  <2> DEFINE p == op[c].prop
             o == [op[c] EXCEPT !.stage = "decided"]
  <2>1. /\ op[c] \in Op /\ op[c] # Idle /\ op[c].stage = "backed" /\ p \in Proposals
        /\ p \notin torn
             => InStep(op[c], p, status, home, told, penalty)
    BY <1>10, Midway DEF Decide, At
  <2>2. /\ o \in Op /\ o.prop = p /\ o.stage = "decided"
        /\ o.verdict = op[c].verdict /\ o.rec = op[c].rec
    BY <2>1 DEF Op
  <2>3. /\ op' = [op EXCEPT ![c] = o]
        /\ status' = [status EXCEPT ![p] = op[c].verdict]
        /\ home' = [home EXCEPT ![p] = op[c].rec]
        /\ UNCHANGED <<told, penalty, torn>>
    BY <1>10 DEF Decide, Advance
  <2>4. op[c].prop = p
    OBVIOUS
  <2> HIDE DEF o, p
  <2>5. /\ status'[p] = op[c].verdict /\ home'[p] = op[c].rec
        /\ \A q \in Proposals \ {p} : status'[q] = status[q] /\ home'[q] = home[q]
    BY <2>1, <2>3 DEF IInv, CoreTypes
  <2>6. p \notin torn'
          => InStep(o, p, status', home', told', penalty')
    BY <2>1, <2>2, <2>3, <2>5 DEF InStep
  <2>0. OthersAlone(p)
    BY <2>1, <2>2, <2>3, <2>4, <2>5, <2>6 DEF OthersAlone
  <2> QED
    BY <2>0, <2>1, <2>2, <2>3, <2>4, <2>5, <2>6, IdleIsNoOp, LogsKept
<1>11. ASSUME NEW c \in Clients, Reject(c) PROVE LogsInv'
  <2> DEFINE p == op[c].prop
             o == [op[c] EXCEPT !.stage = "tell"]
  <2>1. /\ op[c] \in Op /\ op[c] # Idle /\ op[c].stage = "read" /\ p \in Proposals
        /\ op[c].verdict = "rejected"
        /\ p \notin torn
             => InStep(op[c], p, status, home, told, penalty)
    BY <1>11, Midway DEF Reject, At
  <2>2. o \in Op /\ o.prop = p /\ o.stage = "tell" /\ o.verdict = "rejected"
    BY <2>1 DEF Op
  <2>3. /\ op' = [op EXCEPT ![c] = o]
        /\ status' = [status EXCEPT ![p] = "rejected"]
        /\ UNCHANGED <<home, told, penalty, torn>>
    BY <1>11 DEF Reject, Advance
  <2>4. op[c].prop = p
    OBVIOUS
  <2> HIDE DEF o, p
  <2>5. status'[p] = "rejected" /\ \A q \in Proposals \ {p} : status'[q] = status[q]
    BY <2>1, <2>3 DEF IInv, CoreTypes
  <2>6. p \notin torn'
          => InStep(o, p, status', home', told', penalty')
    BY <2>1, <2>2, <2>3, <2>5 DEF InStep
  <2>0. OthersAlone(p)
    BY <2>1, <2>2, <2>3, <2>4, <2>5, <2>6 DEF OthersAlone
  <2> QED
    BY <2>0, <2>1, <2>2, <2>3, <2>4, <2>5, <2>6, IdleIsNoOp, LogsKept
<1>12. ASSUME NEW c \in Clients, AddEdge(c) PROVE LogsInv'
  <2> DEFINE p == op[c].prop
             o == [op[c] EXCEPT !.stage = "tell"]
  <2>1. /\ op[c] \in Op /\ op[c] # Idle /\ op[c].stage = "decided" /\ p \in Proposals
        /\ p \notin torn
             => InStep(op[c], p, status, home, told, penalty)
    BY <1>12, Midway DEF AddEdge, At
  <2>2. o \in Op /\ o.prop = p /\ o.stage = "tell" /\ o.verdict = op[c].verdict
    BY <2>1 DEF Op
  <2>3. /\ op' = [op EXCEPT ![c] = o]
        /\ UNCHANGED <<status, home, told, penalty, torn>>
    BY <1>12 DEF AddEdge, Advance
  <2>4. op[c].prop = p
    OBVIOUS
  <2> HIDE DEF o, p
  <2>5. p \notin torn'
          => InStep(o, p, status', home', told', penalty')
    BY <2>1, <2>2, <2>3 DEF InStep
  <2>0. OthersAlone(p)
    BY <2>1, <2>2, <2>3, <2>4, <2>5 DEF OthersAlone
  <2> QED
    BY <2>0, <2>1, <2>2, <2>3, <2>4, <2>5, IdleIsNoOp, LogsKept
<1>13. ASSUME NEW c \in Clients, Tell(c) PROVE LogsInv'
  <2> DEFINE p == op[c].prop
             o == [op[c] EXCEPT !.stage = "learn"]
  <2>1. /\ op[c] \in Op /\ op[c] # Idle /\ op[c].stage = "tell" /\ p \in Proposals
        /\ p \notin torn
             => InStep(op[c], p, status, home, told, penalty)
    BY <1>13, Midway DEF Tell, At
  <2>2. o \in Op /\ o.prop = p /\ o.stage = "learn"
    BY <2>1 DEF Op
  <2>3. /\ told' = [told EXCEPT ![p] = op[c].verdict]
        /\ IF op[c].verdict = "rejected" THEN op' = [op EXCEPT ![c] = o]
                                         ELSE op' = [op EXCEPT ![c] = Idle]
        /\ UNCHANGED <<status, home, penalty, torn>>
    BY <1>13 DEF Tell, StatusTold, Advance, Done
  <2>4. op[c].prop = p
    OBVIOUS
  <2> HIDE DEF o, p
  <2>5. told'[p] = op[c].verdict /\ \A q \in Proposals \ {p} : told'[q] = told[q]
    BY <2>1, <2>3 DEF IInv, LogTypes
  <2>0. OthersAlone(p)
    BY <2>3, <2>5 DEF OthersAlone
  <2>6. CASE op[c].verdict = "rejected"
    <3>1. p \notin torn'
            => InStep(o, p, status', home', told', penalty')
      BY <2>1, <2>2, <2>3, <2>5, <2>6 DEF InStep
    <3> QED
      BY <2>0, <2>1, <2>2, <2>3, <2>4, <2>6, <3>1, IdleIsNoOp, LogsKept
  <2>7. CASE op[c].verdict # "rejected"
    <3>1. p \notin torn' => Over(p, status', told', penalty')
      BY <2>1, <2>3, <2>5, <2>7 DEF InStep, Over
    <3> QED
      BY <2>0, <2>1, <2>3, <2>4, <2>7, <3>1, LogsKept
  <2> QED
    BY <2>6, <2>7
<1>14. ASSUME NEW c \in Clients, Learn(c) PROVE LogsInv'
  <2> DEFINE p == op[c].prop
  <2>1. /\ op[c] # Idle /\ op[c].stage = "learn" /\ p \in Proposals
        /\ p \notin torn
             => InStep(op[c], p, status, home, told, penalty)
    BY <1>14, Midway DEF Learn, At
  <2>2. /\ op' = [op EXCEPT ![c] = Idle]
        /\ penalty' = [penalty EXCEPT ![p] = @ + 1]
        /\ UNCHANGED <<status, home, told, torn>>
    BY <1>14 DEF Learn, Done
  <2>3. op[c].prop = p
    OBVIOUS
  <2> HIDE DEF p
  <2>4. penalty'[p] = penalty[p] + 1 /\ \A q \in Proposals \ {p} : penalty'[q] = penalty[q]
    BY <2>1, <2>2 DEF IInv, LogTypes
  <2>5. p \notin torn' => Over(p, status', told', penalty')
    BY <2>1, <2>2, <2>4 DEF InStep, Over
  <2>0. OthersAlone(p)
    BY <2>1, <2>2, <2>3, <2>4, <2>5 DEF OthersAlone
  <2> QED
    BY <2>0, <2>1, <2>2, <2>3, <2>4, <2>5, LogsKept
<1>15. ASSUME NEW c \in Clients, Fail(c) PROVE LogsInv'
  <2> DEFINE p == op[c].prop
  <2>1. op[c] # Idle /\ p \in Proposals
    BY <1>15, Midway DEF Fail
  <2>2. /\ op' = [op EXCEPT ![c] = Idle]
        /\ torn' = torn \cup {p}
        /\ UNCHANGED <<status, home, told, penalty>>
    BY <1>15 DEF Fail, Done
  <2>3. op[c].prop = p
    OBVIOUS
  <2> HIDE DEF p
  <2>0. OthersAlone(p)
    BY <2>1, <2>2, <2>3 DEF OthersAlone
  <2> QED
    BY <2>0, <2>1, <2>2, <2>3, LogsKept
<1>16. CASE UNCHANGED <<status, home, told, penalty, op, torn>>
  BY <1>16 DEF LogsInv, Quiet
<1>17. ASSUME NEW r \in Records, EditTask(r) PROVE LogsInv'
  BY <1>16, <1>17 DEF EditTask
<1>18. CASE UNCHANGED vars
  BY <1>16, <1>18 DEF vars
<1> QED
  BY <1>1, <1>3, <1>4, <1>6, <1>7, <1>8, <1>9, <1>10, <1>11, <1>12, <1>13,
     <1>14, <1>15, <1>17, <1>18 DEF Next

\* The records that may carry a proposal: the one it was promoted into, and
\* one an operation has written it to and is about to name.
MayCarry(p, r) ==
    \/ Promoted(p) /\ home[p] = r
    \/ \E c \in Clients : At(c, "backed") /\ op[c].prop = p /\ op[c].rec = r

CarryInv ==
    \A p \in Proposals \ torn :
        /\ \A r \in Carriers(p) : MayCarry(p, r)
        /\ \A c \in Clients, r \in Records :
             At(c, "seen") /\ p \in op[c].seen /\ op[c].rec = r => MayCarry(p, r)

\* The steps of client c.
ClientStep(c) ==
    \/ \E p \in Proposals :
         \/ Propose(c, p)
         \/ \E v \in Verdicts : ReadForVerdict(c, p, v)
         \/ \E r \in Records : ReadForMerge(c, p, r)
    \/ CreateRecord(c) \/ GetRecord(c) \/ WriteMerge(c) \/ RefuseState(c)
    \/ Decide(c) \/ Reject(c) \/ AddEdge(c) \/ Tell(c) \/ Learn(c) \/ Fail(c)

OthersWait(c) == \A d \in Clients \ {c} : op'[d] = op[d]

LEMMA OneMoves ==
    ASSUME IInv, NEW c \in Clients, ClientStep(c)
    PROVE  OthersWait(c)
<1> USE DEF OthersWait, IInv, CoreTypes
<1>1. ASSUME NEW p \in Proposals,
             \/ Propose(c, p)
             \/ \E v \in Verdicts : ReadForVerdict(c, p, v)
             \/ \E r \in Records : ReadForMerge(c, p, r)
      PROVE  OthersWait(c)
  BY <1>1 DEF Propose, ReadForVerdict, ReadForMerge, Read
<1>2. ASSUME CreateRecord(c) \/ GetRecord(c) PROVE OthersWait(c)
  BY <1>2 DEF CreateRecord, GetRecord
<1>3. ASSUME WriteMerge(c) \/ RefuseState(c) \/ Decide(c) \/ Reject(c) PROVE OthersWait(c)
  BY <1>3 DEF WriteMerge, RefuseState, Decide, Reject, Advance, Done
<1>4. ASSUME AddEdge(c) \/ Tell(c) \/ Learn(c) \/ Fail(c) PROVE OthersWait(c)
  BY <1>4 DEF AddEdge, Tell, Learn, Fail, Advance, Done
<1> QED
  BY <1>1, <1>2, <1>3, <1>4 DEF ClientStep

\* Every step is one of a client, of nobody, or replaces a payload.
LEMMA StepIsSomebodys ==
    ASSUME [Next]_vars
    PROVE  \/ \E c \in Clients : ClientStep(c)
           \/ \E r \in Records : EditTask(r)
           \/ UNCHANGED vars
  BY DEF Next, ClientStep

\* A record that may carry a proposal may do so after the next step.
LEMMA MayCarryStep ==
    ASSUME IInv, LogsInv, [Next]_vars, NEW p \in Proposals \ torn, p \notin torn',
           NEW r, MayCarry(p, r)
    PROVE  MayCarry(p, r)'
<1>1. ASSUME NEW c \in Clients, OthersWait(c),
             Promoted(p) => status'[p] = status[p] /\ home'[p] = home[p],
             At(c, "backed") /\ op[c].prop = p
               => Promoted(p)' /\ home'[p] = op[c].rec
      PROVE  MayCarry(p, r)'
  <2>1. CASE Promoted(p) /\ home[p] = r
    BY <1>1, <2>1 DEF MayCarry, Promoted
  <2>2. ASSUME NEW d \in Clients, At(d, "backed"), op[d].prop = p, op[d].rec = r
        PROVE  MayCarry(p, r)'
    <3>1. CASE d = c
      BY <1>1, <2>2, <3>1 DEF MayCarry
    <3>2. CASE d # c
      <4>1. op'[d] = op[d]
        BY <1>1, <3>2 DEF OthersWait
      <4>2. At(d, "backed")' /\ op'[d].prop = p /\ op'[d].rec = r
        BY <2>2, <4>1 DEF At
      <4> QED
        BY <4>2 DEF MayCarry
    <3> QED
      BY <3>1, <3>2
  <2> QED
    BY <2>1, <2>2 DEF MayCarry
<1>2. ASSUME NEW c \in Clients, NEW q \in Proposals, Propose(c, q), OthersWait(c)
      PROVE  MayCarry(p, r)'
  <2>1. Promoted(p) => status'[p] = status[p] /\ home'[p] = home[p]
    BY <1>2 DEF Propose, Promoted, IInv, CoreTypes
  <2>2. ~At(c, "backed")
    BY <1>2 DEF Propose, At
  <2> QED
    BY <1>1, <1>2, <2>1, <2>2
\* The steps that write no verdict and do not give up a written record.
<1>3. ASSUME NEW c \in Clients, OthersWait(c), UNCHANGED <<status, home>>,
             ~At(c, "backed") \/ op[c].prop # p
      PROVE  MayCarry(p, r)'
  BY <1>1, <1>3
<1>4. ASSUME NEW c \in Clients, NEW q \in Proposals,
             \/ \E v \in Verdicts : ReadForVerdict(c, q, v)
             \/ \E s \in Records : ReadForMerge(c, q, s)
      PROVE  UNCHANGED <<status, home>> /\ ~At(c, "backed")
  BY <1>4 DEF ReadForVerdict, ReadForMerge, Read, At
<1>5. ASSUME NEW c \in Clients,
             \/ CreateRecord(c) \/ GetRecord(c) \/ WriteMerge(c) \/ AddEdge(c)
             \/ Tell(c) \/ Learn(c)
      PROVE  UNCHANGED <<status, home>> /\ ~At(c, "backed")
  BY <1>5 DEF CreateRecord, GetRecord, WriteMerge, AddEdge, Tell, Learn, At
<1>6. ASSUME NEW c \in Clients, RefuseState(c) \/ Fail(c)
      PROVE  UNCHANGED <<status, home>> /\ (~At(c, "backed") \/ op[c].prop # p)
  BY <1>6 DEF RefuseState, Fail, At
<1>7. ASSUME NEW c \in Clients, Decide(c), OthersWait(c) PROVE MayCarry(p, r)'
  <2>1. /\ op[c].prop \in Proposals
        /\ op[c].verdict \in {"accepted", "merged"}
        /\ op[c].prop \notin torn => status[op[c].prop] = "pending"
    BY <1>7, Midway DEF Decide, At, SoundIn, InStep
  <2>2. Promoted(p) => op[c].prop # p
    BY <2>1 DEF Promoted
  <2>3. Promoted(p) => status'[p] = status[p] /\ home'[p] = home[p]
    BY <1>7, <2>1, <2>2 DEF Decide, IInv, CoreTypes
  <2>4. op[c].prop = p => Promoted(p)' /\ home'[p] = op[c].rec
    BY <1>7, <2>1 DEF Decide, IInv, CoreTypes, Promoted
  <2> QED
    BY <1>1, <1>7, <2>3, <2>4
<1>8. ASSUME NEW c \in Clients, Reject(c), OthersWait(c) PROVE MayCarry(p, r)'
  <2>1. /\ op[c].prop \in Proposals
        /\ op[c].prop \notin torn => status[op[c].prop] = "pending"
    BY <1>8, Midway DEF Reject, At, InStep
  <2>2. Promoted(p) => status'[p] = status[p] /\ home'[p] = home[p]
    BY <1>8, <2>1 DEF Reject, IInv, CoreTypes, Promoted
  <2>3. ~At(c, "backed")
    BY <1>8 DEF Reject, At
  <2> QED
    BY <1>1, <1>8, <2>2, <2>3
<1>9. ASSUME NEW c \in Clients, ClientStep(c) PROVE MayCarry(p, r)'
  <2>1. OthersWait(c)
    BY <1>9, OneMoves
  <2> QED
    BY <1>2, <1>3, <1>4, <1>5, <1>6, <1>7, <1>8, <1>9, <2>1 DEF ClientStep
<1>10. ASSUME UNCHANGED <<status, home, op>> PROVE MayCarry(p, r)'
  BY <1>10 DEF MayCarry, Promoted, At
<1>11. ASSUME NEW s \in Records, EditTask(s) PROVE MayCarry(p, r)'
  BY <1>10, <1>11 DEF EditTask
<1>12. ASSUME UNCHANGED vars PROVE MayCarry(p, r)'
  BY <1>10, <1>12 DEF vars
<1> QED
  BY <1>9, <1>11, <1>12, StepIsSomebodys

LEMMA CarryStep ==
    ASSUME IInv, LogsInv, CarryInv, [Next]_vars
    PROVE  CarryInv'
<1> SUFFICES ASSUME NEW p \in Proposals \ torn'
             PROVE  /\ \A r \in Carriers(p)' : MayCarry(p, r)'
                    /\ \A c \in Clients, r \in Records :
                         At(c, "seen")' /\ p \in op'[c].seen /\ op'[c].rec = r
                           => MayCarry(p, r)'
  BY DEF CarryInv
<1>1. p \notin torn
  BY DEF Next, vars, Propose, ReadForVerdict, ReadForMerge, Read, CreateRecord,
         GetRecord, WriteMerge, RefuseState, Decide, Reject, AddEdge, Tell,
         Learn, Fail, EditTask
<1>2. ASSUME NEW r, MayCarry(p, r) PROVE MayCarry(p, r)'
  BY <1>1, <1>2, MayCarryStep
<1>3. ASSUME NEW r \in Carriers(p)' PROVE MayCarry(p, r)'
  <2>1. SUFFICES ASSUME r \notin Carriers(p) PROVE MayCarry(p, r)'
    BY <1>1, <1>2 DEF CarryInv
  <2>2. /\ r \in Records /\ record'[r].type # "none"
        /\ record'[r].origin = p \/ p \in record'[r].merged
    BY <1>3 DEF Carriers, Stored
  <2>3. ~(/\ record[r].type # "none"
          /\ record[r].origin = p \/ p \in record[r].merged)
    BY <2>1, <2>2 DEF Carriers, Stored
  <2>4. ASSUME NEW c \in Clients, CreateRecord(c) PROVE MayCarry(p, r)'
    <3>1. PICK s \in Records \ Stored :
            /\ record' = [record EXCEPT ![s] = RowFrom(op[c].prop)]
            /\ op' = [op EXCEPT ![c].rec = s, ![c].stage = "backed"]
      BY <2>4 DEF CreateRecord
    <3>2. r = s /\ record'[r] = RowFrom(op[c].prop)
      BY <2>2, <2>3, <3>1 DEF IInv, CoreTypes
    <3>3. op[c].prop = p
      BY <2>2, <3>2 DEF RowFrom
    <3> DEFINE o == [op[c] EXCEPT !.rec = s, !.stage = "backed"]
    <3>4. op[c] \in Op /\ op[c] # Idle
      BY <2>4, Midway DEF CreateRecord, At
    <3>5. o \in Op /\ o.stage = "backed" /\ o.prop = p /\ o.rec = r
      BY <3>2, <3>3, <3>4 DEF Op
    <3>6. op' = [op EXCEPT ![c] = o]
      BY <3>1
    <3> HIDE DEF o
    <3>7. op'[c] = o
      BY <3>6 DEF IInv, CoreTypes
    <3> QED
      BY <3>5, <3>7, IdleIsNoOp DEF MayCarry, At
  <2>5. ASSUME NEW c \in Clients, WriteMerge(c) PROVE MayCarry(p, r)'
    <3> DEFINE o == [op[c] EXCEPT !.stage = "backed"]
    <3>1. op[c] \in Op /\ op[c] # Idle /\ At(c, "seen")
      BY <2>5, Midway DEF WriteMerge, At
    <3>2. /\ record' = [record EXCEPT
                          ![op[c].rec].merged = op[c].seen \cup {op[c].prop}]
          /\ op' = [op EXCEPT ![c] = o]
      BY <2>5 DEF WriteMerge, Advance
    <3>3. o \in Op /\ o.stage = "backed" /\ o.prop = op[c].prop /\ o.rec = op[c].rec
      BY <3>1 DEF Op
    <3> HIDE DEF o
    <3>4. r = op[c].rec
      BY <2>2, <2>3, <3>2 DEF IInv, CoreTypes
    <3>5. /\ record[r] \in Record
          /\ record' = [record EXCEPT ![r].merged = op[c].seen \cup {op[c].prop}]
      BY <2>2, <3>2, <3>4 DEF IInv, CoreTypes
    <3>6. /\ record'[r].type = record[r].type /\ record'[r].origin = record[r].origin
          /\ record'[r].merged = op[c].seen \cup {op[c].prop}
      BY <2>2, <3>5 DEF IInv, CoreTypes, Record
    <3>7. p \in op[c].seen \/ p = op[c].prop
      BY <2>2, <2>3, <3>6
    <3>8. CASE p \in op[c].seen
      BY <1>1, <1>2, <2>2, <3>1, <3>4, <3>8 DEF CarryInv
    <3>9. CASE p = op[c].prop
      <4>1. op'[c] = o
        BY <3>2 DEF IInv, CoreTypes
      <4> QED
        BY <3>3, <3>4, <3>9, <4>1, IdleIsNoOp DEF MayCarry, At
    <3> QED
      BY <3>7, <3>8, <3>9
  <2>6. ASSUME NEW s \in Records, EditTask(s) PROVE MayCarry(p, r)'
    <3>1. record[s] \in Record /\ record' = [record EXCEPT ![s].merged = {}]
      BY <2>6 DEF EditTask, IInv, CoreTypes
    <3> QED
      BY <2>2, <2>3, <3>1 DEF IInv, CoreTypes, Record
  <2>7. CASE UNCHANGED record
    BY <2>2, <2>3, <2>7
  <2> QED
    BY <2>4, <2>5, <2>6, <2>7
       DEF Next, vars, Propose, ReadForVerdict, ReadForMerge, Read, GetRecord,
           RefuseState, Decide, Reject, AddEdge, Tell, Learn, Fail
<1>4. ASSUME NEW c \in Clients, NEW r \in Records,
             At(c, "seen")', p \in op'[c].seen, op'[c].rec = r
      PROVE  MayCarry(p, r)'
  <2>1. ASSUME op'[c] = op[c] PROVE MayCarry(p, r)'
    <3>1. At(c, "seen") /\ p \in op[c].seen /\ op[c].rec = r
      BY <1>4, <2>1 DEF At
    <3> QED
      BY <1>1, <1>2, <3>1 DEF CarryInv
  <2>2. ASSUME GetRecord(c) PROVE MayCarry(p, r)'
    <3> DEFINE o == [op[c] EXCEPT !.seen = record[op[c].rec].merged, !.stage = "seen"]
    <3>1. op[c] \in Op /\ SoundIn(op[c], record) /\ op[c].verdict = "merged"
      BY <2>2, Midway DEF GetRecord, At
    <3>2. op[c].rec \in Records /\ record[op[c].rec].type # "none"
      BY <3>1, TypesAreTypes DEF SoundIn, Op
    <3>3. o.seen = record[op[c].rec].merged /\ o.rec = op[c].rec
      BY <3>1 DEF Op
    <3>4. op' = [op EXCEPT ![c] = o]
      BY <2>2 DEF GetRecord
    <3> HIDE DEF o
    <3>5. op'[c] = o
      BY <3>4 DEF IInv, CoreTypes
    <3>6. r \in Carriers(p)
      BY <1>4, <3>2, <3>3, <3>5 DEF Carriers, Stored
    <3> QED
      BY <1>1, <1>2, <3>6 DEF CarryInv
  \* Every other step of the client leaves it at another stage.
  <2>3. ASSUME NEW o, op' = [op EXCEPT ![c] = o], o.stage # "seen" PROVE FALSE
    BY <1>4, <2>3 DEF IInv, CoreTypes, At
  <2>4. ~Done(c)
    BY <2>3, IdleIsNoOp DEF Done
  <2>5. ASSUME NEW stage \in {"backed", "decided", "tell", "learn"}, op[c] # Idle
        PROVE  ~Advance(c, stage)
    <3>1. op[c] \in Op
      BY <2>5, Midway
    <3>2. [op[c] EXCEPT !.stage = stage].stage = stage
      BY <3>1 DEF Op
    <3> QED
      BY <2>3, <2>5, <3>2 DEF Advance
  <2>6. ASSUME NEW q \in Proposals, NEW v, NEW s PROVE ~Propose(c, q) /\ ~Read(c, q, v, s)
    <3> DEFINE o1 == [verdict |-> "pending", prop |-> q, stage |-> "tell",
                      rec |-> NoRecord, seen |-> {}]
               o2 == [verdict |-> v, prop |-> q, stage |-> "read",
                      rec |-> s, seen |-> {}]
    <3>1. o1.stage # "seen" /\ o2.stage # "seen"
      OBVIOUS
    <3>2. Propose(c, q) => op' = [op EXCEPT ![c] = o1]
      BY DEF Propose
    <3>3. Read(c, q, v, s) => op' = [op EXCEPT ![c] = o2]
      BY DEF Read
    <3> HIDE DEF o1, o2
    <3> QED
      BY <2>3, <3>1, <3>2, <3>3
  <2>7. ~CreateRecord(c)
    <3> SUFFICES ASSUME CreateRecord(c) PROVE FALSE
      OBVIOUS
    <3>1. PICK s \in Records : op' = [op EXCEPT ![c].rec = s, ![c].stage = "backed"]
      BY DEF CreateRecord
    <3> DEFINE o == [op[c] EXCEPT !.rec = s, !.stage = "backed"]
    <3>2. op[c] \in Op
      BY Midway DEF CreateRecord, At
    <3>3. o.stage = "backed"
      BY <3>2 DEF Op
    <3>4. op' = [op EXCEPT ![c] = o]
      BY <3>1
    <3> HIDE DEF o
    <3> QED
      BY <2>3, <3>3, <3>4
  <2>8. ~WriteMerge(c) /\ ~Decide(c) /\ ~Reject(c) /\ ~AddEdge(c) /\ ~Tell(c)
    BY <2>4, <2>5 DEF WriteMerge, Decide, Reject, AddEdge, Tell, At
  <2>9. ~RefuseState(c) /\ ~Learn(c) /\ ~Fail(c)
    BY <2>4 DEF RefuseState, Learn, Fail
  <2>10. ASSUME NEW q \in Proposals
         PROVE  /\ \A v \in Verdicts : ~ReadForVerdict(c, q, v)
                /\ \A s \in Records : ~ReadForMerge(c, q, s)
    BY <2>6 DEF ReadForVerdict, ReadForMerge
  <2>11. ASSUME ClientStep(c) PROVE GetRecord(c)
    BY <2>6, <2>7, <2>8, <2>9, <2>10, <2>11 DEF ClientStep
  <2>12. ASSUME NEW d \in Clients \ {c}, ClientStep(d) PROVE op'[c] = op[c]
    BY <2>12, OneMoves DEF OthersWait
  <2>13. ASSUME UNCHANGED op PROVE op'[c] = op[c]
    BY <2>13
  <2> QED
    BY <2>1, <2>2, <2>11, <2>12, <2>13, StepIsSomebodys DEF vars, EditTask
<1> QED
  BY <1>3, <1>4

\* What the reviews add to the invariant as long as no two of them overlap on
\* one proposal.
SerialInv == IInv /\ LogsInv /\ CarryInv

LEMMA SerialInvariant == Spec /\ []OneAtATime => []SerialInv
<1>1. Init => LogsInv
  BY DEF Init, LogsInv, Over
<1>2. Init => CarryInv
  <2> SUFFICES ASSUME Init PROVE CarryInv
    OBVIOUS
  <2>1. PICK old \in SUBSET Records, t \in Types :
          record = [r \in Records |->
                      IF r \in old THEN [NoRow EXCEPT !.type = t] ELSE NoRow]
    BY DEF Init
  <2>2. \A r \in Records : record[r].origin = NoProposal /\ record[r].merged = {}
    BY <2>1 DEF NoRow
  <2>3. \A p \in Proposals : Carriers(p) = {}
    BY <2>2, ProposalAssumption DEF Carriers, Stored
  <2>4. \A c \in Clients : ~At(c, "seen")
    BY DEF Init, At
  <2> QED
    BY <2>3, <2>4 DEF CarryInv
<1>3. SerialInv /\ OneAtATime /\ OneAtATime' /\ [Next]_vars => SerialInv'
  BY InvStep, LogsStep, CarryStep DEF SerialInv
<1>4. Init => SerialInv
  BY <1>1, <1>2, InitSound DEF SerialInv
<1> QED
  BY <1>3, <1>4, PTL DEF Spec

\* As long as no two reviews of one proposal overlap, and wherever they are cut
\* off, no canonical record carries a proposal that was not promoted, and none
\* but the one it names carries one that was, unless a review of that very
\* proposal was cut off or refused half way
\* (extraction_proposal_service.py:550-567).
THEOREM SerialPromotedOnce ==
    Spec /\ []OneAtATime => []PromotedOnce
<1>1. SerialInv => PromotedOnce
  <2> SUFFICES ASSUME SerialInv, NEW p \in Proposals \ torn, Quiet(p),
                      NEW r \in Carriers(p)
               PROVE  Promoted(p) /\ home[p] = r
    BY DEF PromotedOnce
  <2> QED
    BY DEF SerialInv, CarryInv, MayCarry, Quiet, At
<1> QED
  BY <1>1, SerialInvariant, PTL

\* As long as no two reviews of one proposal overlap, the latest event of a
\* proposal nobody is reviewing names its status, and its source was charged
\* once if it was rejected and never otherwise, unless a review of that very
\* proposal was cut off (extraction_proposal_service.py:433-470).
THEOREM SerialVerdictTold ==
    Spec /\ []OneAtATime => []VerdictTold
<1>1. SerialInv => VerdictTold
  BY DEF SerialInv, LogsInv, Over, VerdictTold
<1> QED
  BY <1>1, SerialInvariant, PTL

-----------------------------------------------------------------------------
(* Two promises the code makes of any number of reviewers, which it breaks *)
(* when they meet: what has to be kept apart for each of them.             *)

Undecided(c) ==
    /\ op[c] # Idle
    /\ op[c].verdict \in Verdicts
    /\ op[c].stage \in {"read", "seen", "backed"}

\* What a review read of the status is still so.
StillPending == \A c \in Clients : Undecided(c) => status[op[c].prop] = "pending"

KeepsVerdicts ==
    \A p \in Proposals :
        status[p] \in Verdicts => status'[p] = status[p] /\ home'[p] = home[p]

LEMMA DecidesPending ==
    ASSUME IInv, StillPending, [Next]_vars
    PROVE  KeepsVerdicts
<1>1. ASSUME NEW c \in Clients, Undecided(c),
             \A q \in Proposals \ {op[c].prop} :
                 status'[q] = status[q] /\ home'[q] = home[q]
      PROVE  KeepsVerdicts
  BY <1>1 DEF StillPending, KeepsVerdicts, Verdicts
<1>2. ASSUME NEW c \in Clients, Decide(c) PROVE KeepsVerdicts
  <2>1. op[c] \in Op /\ SoundIn(op[c], record) /\ op[c] # Idle /\ op[c].stage = "backed"
    BY <1>2, InFlight DEF Decide, At, IInv, OpsSound
  <2>2. Undecided(c)
    BY <2>1 DEF Undecided, SoundIn, Verdicts
  <2> QED
    BY <1>1, <1>2, <2>2 DEF Decide, IInv, CoreTypes
<1>3. ASSUME NEW c \in Clients, Reject(c) PROVE KeepsVerdicts
  <2>1. Undecided(c)
    BY <1>3 DEF Reject, At, Undecided, Verdicts
  <2> QED
    BY <1>1, <1>3, <2>1 DEF Reject, IInv, CoreTypes
<1>4. ASSUME NEW c \in Clients, NEW p \in Proposals, Propose(c, p) PROVE KeepsVerdicts
  BY <1>4 DEF Propose, KeepsVerdicts, Verdicts, IInv, CoreTypes
<1>5. CASE UNCHANGED <<status, home>>
  BY <1>5 DEF KeepsVerdicts
<1> QED
  BY <1>2, <1>3, <1>4, <1>5
     DEF Next, vars, ReadForVerdict, ReadForMerge, Read, CreateRecord,
         GetRecord, WriteMerge, RefuseState, AddEdge, Tell, Learn, Fail, EditTask

\* A step of client c after which it has decided or finds its proposal pending,
\* and which changes no status but that of its own proposal.
LEMMA PendingStep ==
    ASSUME IInv, StillPending, OneAtATime, NEW c \in Clients, NEW o,
           op' = [op EXCEPT ![c] = o],
           Undecided(c)' => status'[o.prop] = "pending",
           \/ UNCHANGED status
           \/ op[c] # Idle /\ \A q \in Proposals \ {op[c].prop} : status'[q] = status[q]
           \/ \E p \in Proposals : status' = [status EXCEPT ![p] = "pending"]
    PROVE  StillPending'
<1> SUFFICES ASSUME NEW d \in Clients, Undecided(d)' PROVE status'[op'[d].prop] = "pending"
  BY DEF StillPending
<1>1. op'[c] = o /\ (d # c => op'[d] = op[d])
  BY DEF IInv, CoreTypes
<1>2. CASE d = c
  BY <1>1, <1>2
<1>3. CASE d # c
  <2>1. op'[d] = op[d] /\ op[d] # Idle /\ Undecided(d)
    BY <1>1, <1>3 DEF Undecided
  <2>2. op[d].prop \in Proposals /\ status[op[d].prop] = "pending"
    BY <2>1, InFlight DEF IInv, Op, StillPending
  <2>3. op[c] # Idle => op[d].prop # op[c].prop
    BY <1>3, <2>1 DEF OneAtATime
  <2> QED
    BY <2>1, <2>2, <2>3 DEF IInv, CoreTypes
<1> QED
  BY <1>2, <1>3

LEMMA PendingKept == IInv /\ StillPending /\ OneAtATime /\ [Next]_vars => StillPending'
<1> SUFFICES ASSUME IInv, StillPending, OneAtATime, [Next]_vars PROVE StillPending'
  OBVIOUS
<1>1. ASSUME NEW c \in Clients, Done(c), UNCHANGED status PROVE StillPending'
  <2>1. ~Undecided(c)'
    BY <1>1 DEF Done, Undecided, IInv, CoreTypes
  <2> QED
    BY <1>1, <2>1, PendingStep DEF Done
<1>2. ASSUME NEW c \in Clients, NEW o, op' = [op EXCEPT ![c] = o], UNCHANGED status,
             op[c] # Idle, o.prop = op[c].prop,
             Undecided(c)' => Undecided(c)
      PROVE  StillPending'
  <2>1. Undecided(c)' => status'[o.prop] = "pending"
    BY <1>2 DEF StillPending
  <2> QED
    BY <1>2, <2>1, PendingStep
<1>3. ASSUME NEW c \in Clients, NEW p \in Proposals, Propose(c, p) PROVE StillPending'
  <2> DEFINE o == [verdict |-> "pending", prop |-> p, stage |-> "tell",
                   rec |-> NoRecord, seen |-> {}]
  <2>1. op' = [op EXCEPT ![c] = o] /\ status' = [status EXCEPT ![p] = "pending"]
    BY <1>3 DEF Propose
  <2>2. op'[c] = o
    BY <2>1 DEF IInv, CoreTypes
  <2>3. ~Undecided(c)'
    BY <2>2 DEF Undecided, Verdicts
  <2> HIDE DEF o
  <2> QED
    BY <2>1, <2>3, PendingStep
<1>4. ASSUME NEW c \in Clients, NEW p \in Proposals, NEW v, NEW r, Read(c, p, v, r),
             status[p] = "pending"
      PROVE  StillPending'
  <2> DEFINE o == [verdict |-> v, prop |-> p, stage |-> "read", rec |-> r, seen |-> {}]
  <2>1. op' = [op EXCEPT ![c] = o] /\ UNCHANGED status
    BY <1>4 DEF Read
  <2>2. o.prop = p
    OBVIOUS
  <2> HIDE DEF o
  <2> QED
    BY <1>4, <2>1, <2>2, PendingStep
<1>5. ASSUME NEW c \in Clients, op[c] # Idle, op[c].stage \in {"read", "seen", "backed"},
             NEW stage \in {"decided", "tell"}, Advance(c, stage),
             \A q \in Proposals \ {op[c].prop} : status'[q] = status[q]
      PROVE  StillPending'
  <2>1. op[c] \in Op
    BY <1>5, InFlight DEF IInv
  <2>2. op' = [op EXCEPT ![c] = [op[c] EXCEPT !.stage = stage]]
    BY <1>5 DEF Advance
  <2>3. ~Undecided(c)'
    BY <2>1, <2>2 DEF Undecided, Op, IInv, CoreTypes
  <2> QED
    BY <1>5, <2>2, <2>3, PendingStep
<1>6. ASSUME NEW c \in Clients, CreateRecord(c) \/ GetRecord(c) \/ WriteMerge(c)
      PROVE  StillPending'
  <2>1. op[c] \in Op /\ op[c] # Idle /\ SoundIn(op[c], record)
    BY <1>6, InFlight DEF CreateRecord, GetRecord, WriteMerge, At, IInv, OpsSound
  <2>2. Undecided(c)
    BY <1>6, <2>1 DEF CreateRecord, GetRecord, WriteMerge, At, Undecided, SoundIn, Verdicts
  <2>3. CASE CreateRecord(c)
    <3>1. PICK r \in Records :
            op' = [op EXCEPT ![c] = [op[c] EXCEPT !.rec = r, !.stage = "backed"]]
      BY <2>3 DEF CreateRecord
    <3>2. [op[c] EXCEPT !.rec = r, !.stage = "backed"].prop = op[c].prop
      BY <2>1 DEF Op
    <3> QED
      BY <1>2, <2>1, <2>2, <2>3, <3>1, <3>2 DEF CreateRecord
  <2>4. CASE GetRecord(c)
    <3>1. op' = [op EXCEPT ![c] = [op[c] EXCEPT !.seen = record[op[c].rec].merged,
                                                !.stage = "seen"]]
      BY <2>4 DEF GetRecord
    <3>2. [op[c] EXCEPT !.seen = record[op[c].rec].merged, !.stage = "seen"].prop = op[c].prop
      BY <2>1 DEF Op
    <3> QED
      BY <1>2, <2>1, <2>2, <2>4, <3>1, <3>2 DEF GetRecord
  <2>5. CASE WriteMerge(c)
    <3>1. op' = [op EXCEPT ![c] = [op[c] EXCEPT !.stage = "backed"]]
      BY <2>5 DEF WriteMerge, Advance
    <3>2. [op[c] EXCEPT !.stage = "backed"].prop = op[c].prop
      BY <2>1 DEF Op
    <3> QED
      BY <1>2, <2>1, <2>2, <2>5, <3>1, <3>2 DEF WriteMerge
  <2> QED
    BY <1>6, <2>3, <2>4, <2>5
<1>7. ASSUME NEW c \in Clients, AddEdge(c) \/ (Tell(c) /\ ~Done(c)) PROVE StillPending'
  <2>1. op[c] \in Op /\ op[c] # Idle
    BY <1>7, InFlight DEF AddEdge, Tell, At, IInv
  <2>2. PICK stage \in {"tell", "learn"} : op' = [op EXCEPT ![c] = [op[c] EXCEPT !.stage = stage]]
    BY <1>7 DEF AddEdge, Tell, Advance
  <2>3. ~Undecided(c)'
    BY <2>1, <2>2 DEF Undecided, Op, IInv, CoreTypes
  <2> QED
    BY <1>7, <2>1, <2>2, <2>3, PendingStep DEF AddEdge, Tell
<1>8. ASSUME NEW c \in Clients, Decide(c) PROVE StillPending'
  BY <1>5, <1>8 DEF Decide, At, IInv, CoreTypes
<1>9. ASSUME NEW c \in Clients, Reject(c) PROVE StillPending'
  BY <1>5, <1>9 DEF Reject, At, IInv, CoreTypes
<1>10. ASSUME NEW c \in Clients, RefuseState(c) \/ (Tell(c) /\ Done(c)) \/ Learn(c) \/ Fail(c)
       PROVE  StillPending'
  BY <1>1, <1>10 DEF RefuseState, Tell, Learn, Fail
<1>11. CASE UNCHANGED <<status, op>>
  BY <1>11 DEF StillPending, Undecided
<1> QED
  BY <1>3, <1>4, <1>6, <1>7, <1>8, <1>9, <1>10, <1>11
     DEF Next, vars, ReadForVerdict, ReadForMerge, EditTask

\* As long as no two reviews of one proposal overlap, wherever they are cut off,
\* no verdict is written over another: "Only pending extraction proposals can be
\* accepted" (extraction_proposal_service.py:323) or rejected (418).
THEOREM SerialDecidedOnce ==
    Spec /\ []OneAtATime => DecidedOnce
<1>1. Init => StillPending
  BY DEF Init, StillPending, Undecided
<1>2. IInv /\ StillPending /\ OneAtATime /\ [Next]_vars => StillPending'
  BY PendingKept
<1>3. IInv /\ StillPending /\ [Next]_vars => [KeepsVerdicts]_vars
  BY DecidesPending
<1>4. Spec /\ []OneAtATime => [][KeepsVerdicts]_vars
  BY <1>1, <1>2, <1>3, Invariant, PTL DEF Spec
<1> QED
  BY <1>4 DEF DecidedOnce, KeepsVerdicts

-----------------------------------------------------------------------------
(* Merges into one record that do not overlap.                             *)

\* Nobody reads a record for a merge before another, who has, has written it.
OneMergeAtATime ==
    \A c, d \in Clients :
        c # d /\ At(c, "seen") /\ At(d, "seen") => op[c].rec # op[d].rec

\* Records behind which there may be a task for somebody to edit.
Edited(r, rows) ==
    /\ MayEditTasks
    /\ rows[r].origin = NoProposal
    /\ rows[r].type = "action"

\* A merged proposal stays in the record it was merged into, where no edit of a
\* task replaces what the record holds.
MergesLast ==
    \A p \in Proposals :
        status[p] = "merged" /\ ~Edited(home[p], record) => p \in record[home[p]].merged

\* A merge that is to be written holds all there is in the record, and one that
\* was written is there.
MergesSound ==
    \A c \in Clients :
        /\ At(c, "seen") => record[op[c].rec].merged \subseteq op[c].seen
        /\ At(c, "backed") /\ op[c].verdict = "merged" /\ ~Edited(op[c].rec, record)
             => op[c].prop \in record[op[c].rec].merged

MergeInv == IInv /\ MergesSound /\ MergesLast

\* A step loses no merge but in the records that are edited.
LEMMA MergesGrow ==
    ASSUME MergeInv, [Next]_vars, NEW r \in Stored, ~Edited(r, record)
    PROVE  /\ record[r].merged \subseteq record'[r].merged
           /\ ~Edited(r, record')
<1>1. RowsKept(record') /\ r \in Records /\ record \in [Records -> Record]
  BY RowsStep DEF MergeInv, IInv, CoreTypes, Stored
<1>2. ~Edited(r, record')
  BY <1>1 DEF RowsKept, Edited, Stored
<1>3. ASSUME NEW c \in Clients, WriteMerge(c) PROVE record[r].merged \subseteq record'[r].merged
  BY <1>1, <1>3 DEF WriteMerge, MergeInv, MergesSound, Record
<1>4. ASSUME NEW c \in Clients, CreateRecord(c) PROVE record[r].merged \subseteq record'[r].merged
  BY <1>1, <1>4 DEF CreateRecord, Stored
<1>5. ASSUME NEW q \in Records, EditTask(q) PROVE record[r].merged \subseteq record'[r].merged
  BY <1>1, <1>5 DEF EditTask, Edited
<1>6. CASE UNCHANGED record
  BY <1>6
<1> QED
  BY <1>2, <1>3, <1>4, <1>5, <1>6
     DEF Next, vars, Propose, ReadForVerdict, ReadForMerge, Read, GetRecord,
         RefuseState, Decide, Reject, AddEdge, Tell, Learn, Fail

\* What an operation knows of a merge after a step that leaves it alone.
LEMMA MergeWaits ==
    ASSUME MergeInv, OneMergeAtATime, [Next]_vars, NEW d \in Clients, op'[d] = op[d],
           \A c \in Clients : WriteMerge(c) => c # d
    PROVE  /\ At(d, "seen") => record'[op[d].rec].merged \subseteq op[d].seen
           /\ At(d, "backed") /\ op[d].verdict = "merged" /\ ~Edited(op[d].rec, record')
                => op[d].prop \in record'[op[d].rec].merged
<1>1. ASSUME At(d, "seen") \/ At(d, "backed")
      PROVE  op[d] \in Op /\ SoundIn(op[d], record) /\ op[d].rec \in Stored
  BY <1>1, InFlight, TypesAreTypes DEF At, MergeInv, IInv, OpsSound, SoundIn, Stored, Op
<1>2. ASSUME At(d, "seen") PROVE record'[op[d].rec].merged \subseteq op[d].seen
  <2>1. record[op[d].rec].merged \subseteq op[d].seen /\ op[d].rec \in Records
    BY <1>1, <1>2 DEF MergeInv, MergesSound, Stored
  <2>2. ASSUME NEW c \in Clients, WriteMerge(c) PROVE record'[op[d].rec] = record[op[d].rec]
    <3>1. op[c].rec # op[d].rec
      BY <1>2, <2>2 DEF OneMergeAtATime, WriteMerge
    <3> QED
      BY <2>1, <2>2, <3>1 DEF WriteMerge, MergeInv, IInv, CoreTypes
  <2>3. ASSUME NEW c \in Clients, CreateRecord(c) PROVE record'[op[d].rec] = record[op[d].rec]
    BY <1>1, <1>2, <2>3 DEF CreateRecord, MergeInv, IInv, CoreTypes
  <2>4. ASSUME NEW r \in Records, EditTask(r)
        PROVE  record'[op[d].rec].merged \subseteq record[op[d].rec].merged
    BY <2>1, <2>4 DEF EditTask, MergeInv, IInv, CoreTypes, Record
  <2>5. CASE UNCHANGED record
    BY <2>1, <2>5
  <2> QED
    BY <2>1, <2>2, <2>3, <2>4, <2>5
       DEF Next, vars, Propose, ReadForVerdict, ReadForMerge, Read, GetRecord,
           RefuseState, Decide, Reject, AddEdge, Tell, Learn, Fail
<1>3. ASSUME At(d, "backed"), op[d].verdict = "merged", ~Edited(op[d].rec, record')
      PROVE  op[d].prop \in record'[op[d].rec].merged
  <2>1. op[d].rec \in Stored /\ RowsKept(record')
    BY <1>1, <1>3, RowsStep DEF MergeInv
  <2>2. ~Edited(op[d].rec, record)
    BY <1>3, <2>1 DEF RowsKept, Edited, Stored
  <2> QED
    BY <1>3, <2>1, <2>2, MergesGrow DEF MergeInv, MergesSound
<1> QED
  BY <1>2, <1>3

\* A client that is not in the middle of a merge after its step owes nothing.
LEMMA MergeStep ==
    ASSUME MergeInv, OneMergeAtATime, [Next]_vars, NEW c \in Clients, NEW o,
           op' = [op EXCEPT ![c] = o],
           \A d \in Clients : WriteMerge(d) => d = c,
           At(c, "seen")' => record'[o.rec].merged \subseteq o.seen,
           At(c, "backed")' /\ o.verdict = "merged" => o.prop \in record'[o.rec].merged
    PROVE  MergesSound'
<1>1. op'[c] = o
  BY DEF MergeInv, IInv, CoreTypes
<1>2. ASSUME NEW d \in Clients, d # c PROVE op'[d] = op[d] /\ \A e \in Clients : WriteMerge(e) => e # d
  BY <1>2 DEF MergeInv, IInv, CoreTypes
<1> QED
  BY <1>1, <1>2, MergeWaits DEF MergesSound, At

LEMMA MergesStep ==
    ASSUME MergeInv, OneMergeAtATime, [Next]_vars
    PROVE  MergesSound'
<1>1. ASSUME NEW c \in Clients, op[c] # Idle
      PROVE  op[c] \in Op /\ SoundIn(op[c], record)
  BY <1>1, InFlight DEF MergeInv, IInv, OpsSound
<1>2. ASSUME NEW c \in Clients, NEW o, op' = [op EXCEPT ![c] = o], UNCHANGED record,
             ~At(c, "seen")' /\ ~(At(c, "backed")' /\ o.verdict = "merged")
      PROVE  MergesSound'
  <2>1. ASSUME NEW d \in Clients, WriteMerge(d) PROVE d = c
    <3>1. op'[d] # op[d]
      BY <1>1, <2>1 DEF WriteMerge, Advance, At, Op, MergeInv, IInv, CoreTypes
    <3> QED
      BY <1>2, <3>1 DEF MergeInv, IInv, CoreTypes
  <2> QED
    BY <1>2, <2>1, MergeStep
<1>3. ASSUME NEW c \in Clients, NEW o \in Op \cup {Idle}, op' = [op EXCEPT ![c] = o],
             UNCHANGED record, o.stage \notin {"seen", "backed"}
      PROVE  MergesSound'
  <2>1. op'[c] = o
    BY <1>3 DEF MergeInv, IInv, CoreTypes
  <2> QED
    BY <1>2, <1>3, <2>1 DEF At
<1>4. ASSUME NEW c \in Clients, Done(c), UNCHANGED record PROVE MergesSound'
  BY <1>3, <1>4, IdleIsNoOp DEF Done
<1>5. ASSUME NEW c \in Clients, op[c] # Idle, NEW stage \in {"decided", "tell", "learn"},
             Advance(c, stage), UNCHANGED record
      PROVE  MergesSound'
  <2>1. [op[c] EXCEPT !.stage = stage] \in Op
    BY <1>1, <1>5 DEF Op
  <2> DEFINE o == [op[c] EXCEPT !.stage = stage]
  <2>2. o.stage = stage /\ op' = [op EXCEPT ![c] = o] /\ o \in Op
    BY <1>1, <1>5, <2>1 DEF Advance, Op
  <2> HIDE DEF o
  <2> QED
    BY <1>3, <1>5, <2>2
<1>6. ASSUME NEW c \in Clients, NEW p \in Proposals, Propose(c, p) PROVE MergesSound'
  <2> DEFINE o == [verdict |-> "pending", prop |-> p, stage |-> "tell",
                   rec |-> NoRecord, seen |-> {}]
  <2>1. o \in Op /\ o.stage = "tell" /\ op' = [op EXCEPT ![c] = o] /\ UNCHANGED record
    BY <1>6 DEF Propose, Op, Verdicts
  <2> HIDE DEF o
  <2> QED
    BY <1>3, <2>1
<1>7. ASSUME NEW c \in Clients, NEW p \in Proposals, NEW v \in Verdicts,
             NEW r \in Records \cup {NoRecord}, Read(c, p, v, r)
      PROVE  MergesSound'
  <2> DEFINE o == [verdict |-> v, prop |-> p, stage |-> "read", rec |-> r, seen |-> {}]
  <2>1. o \in Op /\ o.stage = "read" /\ op' = [op EXCEPT ![c] = o] /\ UNCHANGED record
    BY <1>7 DEF Read, Op
  <2> HIDE DEF o
  <2> QED
    BY <1>3, <2>1
<1>8. ASSUME NEW c \in Clients, CreateRecord(c) PROVE MergesSound'
  <2>1. op[c] \in Op /\ op[c].verdict = "accepted"
    BY <1>1, <1>8 DEF CreateRecord, At
  <2>2. PICK r \in Records :
          op' = [op EXCEPT ![c] = [op[c] EXCEPT !.rec = r, !.stage = "backed"]]
    BY <1>8 DEF CreateRecord
  <2> DEFINE o == [op[c] EXCEPT !.rec = r, !.stage = "backed"]
  <2>3. /\ o.stage = "backed" /\ o.verdict = "accepted"
        /\ op' = [op EXCEPT ![c] = o] /\ op'[c] = o
    BY <2>1, <2>2 DEF Op, MergeInv, IInv, CoreTypes
  <2>4. ASSUME NEW d \in Clients, WriteMerge(d) PROVE d = c
    <3>1. op'[d] # op[d]
      BY <1>1, <2>4 DEF WriteMerge, Advance, At, Op, MergeInv, IInv, CoreTypes
    <3> QED
      BY <2>2, <3>1 DEF MergeInv, IInv, CoreTypes
  <2> HIDE DEF o
  <2> QED
    BY <2>3, <2>4, MergeStep DEF At
<1>9. ASSUME NEW c \in Clients, GetRecord(c) PROVE MergesSound'
  <2>1. op[c] \in Op /\ UNCHANGED record
    BY <1>1, <1>9 DEF GetRecord, At
  <2> DEFINE o == [op[c] EXCEPT !.seen = record[op[c].rec].merged, !.stage = "seen"]
  <2>2. /\ o.stage = "seen" /\ o.rec = op[c].rec /\ o.seen = record[op[c].rec].merged
        /\ op' = [op EXCEPT ![c] = o] /\ op'[c] = o
    BY <1>9, <2>1 DEF GetRecord, Op, MergeInv, IInv, CoreTypes
  <2>3. ASSUME NEW d \in Clients, WriteMerge(d) PROVE d = c
    <3>1. op'[d] # op[d]
      BY <1>1, <2>3 DEF WriteMerge, Advance, At, Op, MergeInv, IInv, CoreTypes
    <3> QED
      BY <2>2, <3>1 DEF MergeInv, IInv, CoreTypes
  <2> HIDE DEF o
  <2> QED
    BY <2>1, <2>2, <2>3, MergeStep DEF At
<1>10. ASSUME NEW c \in Clients, WriteMerge(c) PROVE MergesSound'
  <2>1. op[c] \in Op /\ op[c].rec \in Records
    BY <1>1, <1>10 DEF WriteMerge, At, SoundIn
  <2> DEFINE o == [op[c] EXCEPT !.stage = "backed"]
  <2>2. /\ o.stage = "backed" /\ o.rec = op[c].rec /\ o.prop = op[c].prop
        /\ op' = [op EXCEPT ![c] = o] /\ op'[c] = o
    BY <1>10, <2>1 DEF WriteMerge, Advance, Op, MergeInv, IInv, CoreTypes
  <2>3. o.prop \in record'[o.rec].merged
    BY <1>10, <2>1, <2>2 DEF WriteMerge, MergeInv, IInv, CoreTypes, Record
  <2>4. ASSUME NEW d \in Clients, WriteMerge(d) PROVE d = c
    <3>1. op'[d] # op[d]
      BY <1>1, <2>4 DEF WriteMerge, Advance, At, Op, MergeInv, IInv, CoreTypes
    <3> QED
      BY <2>2, <3>1 DEF MergeInv, IInv, CoreTypes
  <2> HIDE DEF o
  <2> QED
    BY <2>2, <2>3, <2>4, MergeStep DEF At
<1>11. ASSUME NEW r \in Records, EditTask(r) PROVE MergesSound'
  <2>1. \A d \in Clients : ~WriteMerge(d)
    <3> SUFFICES ASSUME NEW d \in Clients, WriteMerge(d) PROVE FALSE
      OBVIOUS
    <3> QED
      BY <1>1, <1>11 DEF EditTask, WriteMerge, Advance, At, Op, MergeInv, IInv, CoreTypes
  <2> QED
    BY <1>11, <2>1, MergeWaits DEF EditTask, MergesSound, At
<1>12. CASE UNCHANGED <<record, op>>
  BY <1>12 DEF MergeInv, MergesSound, At, Edited
<1>13. ASSUME NEW c \in Clients, Decide(c) \/ Reject(c) \/ AddEdge(c) PROVE MergesSound'
  BY <1>5, <1>13 DEF Decide, Reject, AddEdge, At
<1>14. ASSUME NEW c \in Clients, Tell(c) PROVE MergesSound'
  BY <1>4, <1>5, <1>14 DEF Tell, At
<1>15. ASSUME NEW c \in Clients, RefuseState(c) \/ Learn(c) \/ Fail(c) PROVE MergesSound'
  BY <1>4, <1>15 DEF RefuseState, Learn, Fail
<1>16. ASSUME NEW c \in Clients, NEW p \in Proposals,
              \/ \E v \in Verdicts : ReadForVerdict(c, p, v)
              \/ \E r \in Records : ReadForMerge(c, p, r)
       PROVE  MergesSound'
  BY <1>7, <1>16 DEF ReadForVerdict, ReadForMerge, Verdicts
<1> QED
  BY <1>6, <1>8, <1>9, <1>10, <1>11, <1>12, <1>13, <1>14, <1>15, <1>16 DEF Next, vars

LEMMA LastsStep == MergeInv /\ [Next]_vars => MergesLast'
<1> SUFFICES ASSUME MergeInv, [Next]_vars,
                    NEW p \in Proposals, status'[p] = "merged", ~Edited(home'[p], record')
             PROVE  p \in record'[home'[p]].merged
  BY DEF MergesLast
<1>1. RowsKept(record')
  BY RowsStep DEF MergeInv
<1>2. ASSUME status[p] = "merged", home'[p] = home[p] PROVE p \in record'[home'[p]].merged
  <2>1. home[p] \in Stored
    BY <1>2, TypesAreTypes DEF MergeInv, IInv, VerdictsSoundIn, Stored
  <2>2. ~Edited(home[p], record)
    BY <1>1, <1>2, <2>1 DEF RowsKept, Edited, Stored
  <2> QED
    BY <1>2, <2>1, <2>2, MergesGrow DEF MergeInv, MergesLast
<1>3. ASSUME NEW c \in Clients, Decide(c), op[c].prop = p PROVE p \in record'[home'[p]].merged
  <2>1. op[c] \in Op /\ op[c].verdict = "merged" /\ home'[p] = op[c].rec /\ record' = record
    BY <1>3, InFlight DEF Decide, At, MergeInv, IInv, CoreTypes
  <2> QED
    BY <1>3, <2>1 DEF Decide, MergeInv, MergesSound
<1>4. ASSUME NEW c \in Clients, Decide(c), op[c].prop # p PROVE p \in record'[home'[p]].merged
  BY <1>2, <1>4 DEF Decide, MergeInv, IInv, CoreTypes
<1>5. ASSUME NEW c \in Clients, Reject(c) PROVE p \in record'[home'[p]].merged
  BY <1>2, <1>5 DEF Reject, MergeInv, IInv, CoreTypes
<1>6. ASSUME NEW c \in Clients, NEW q \in Proposals, Propose(c, q)
      PROVE  p \in record'[home'[p]].merged
  BY <1>2, <1>6 DEF Propose, MergeInv, IInv, CoreTypes
<1>7. CASE UNCHANGED <<status, home>>
  BY <1>2, <1>7
<1> QED
  BY <1>3, <1>4, <1>5, <1>6, <1>7
     DEF Next, vars, ReadForVerdict, ReadForMerge, Read, CreateRecord,
         GetRecord, WriteMerge, RefuseState, AddEdge, Tell, Learn, Fail, EditTask

\* As long as no two merges into one record overlap, whoever reviews what at the
\* same time and wherever reviews are cut off, a merged proposal stays in its
\* record, unless that is the record of a task people may edit: proposals are
\* merged "into canonical operational records"
\* (migrations/022_operational_extraction_proposals.sqlite.sql:3).
THEOREM SerialMergesLast ==
    Spec /\ []OneMergeAtATime => []MergesLast
<1>1. Init => MergesSound /\ MergesLast
  BY DEF Init, MergesSound, MergesLast, At
<1>2. IInv /\ MergesSound /\ MergesLast /\ OneMergeAtATime /\ [Next]_vars
        => MergesSound' /\ MergesLast'
  BY MergesStep, LastsStep DEF MergeInv
<1> QED
  BY <1>1, <1>2, Invariant, PTL DEF Spec

\* Where nobody edits tasks, every merge stays.
THEOREM SerialMergesKept ==
    ASSUME ~MayEditTasks
    PROVE  Spec /\ []OneMergeAtATime => []MergesKept
<1>1. MergesLast => MergesKept
  BY DEF MergesLast, MergesKept, Edited
<1> QED
  BY <1>1, SerialMergesLast, PTL

=============================================================================
