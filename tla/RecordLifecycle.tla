--------------------------- MODULE RecordLifecycle ---------------------------
(***************************************************************************)
(* What the record service promises of a canonical record: it is created   *)
(* valid, its state follows its type's state machine one edge at a time,   *)
(* and once archived it stays archived.                                    *)
(***************************************************************************)
EXTENDS OperationalRecords

CONSTANT Records

VARIABLES
    kind,       \* the type of each record, "none" before it exists
    status,     \* its state
    shelved     \* whether it is archived

lifecycleVars == <<kind, status, shelved>>

LifecycleInit ==
    /\ kind = [r \in Records |-> "none"]
    /\ status = [r \in Records |-> "none"]
    /\ shelved = [r \in Records |-> FALSE]

Appear(r) ==
    /\ kind[r] = "none"
    /\ \E t \in RecordTypes, s \in RecordStates, o \in Owners \cup {NoOwner} :
         /\ ValidInput(t, s, o)
         /\ kind' = [kind EXCEPT ![r] = t]
         /\ status' = [status EXCEPT ![r] = s]
         /\ shelved' = [shelved EXCEPT ![r] = s \in ArchivedStates(t)]

Move(r) ==
    /\ kind[r] # "none"
    /\ \E s \in RecordStates :
         /\ ValidTransition(kind[r], status[r], s)
         /\ status' = [status EXCEPT ![r] = s]
         /\ shelved' = [shelved EXCEPT
                          ![r] = shelved[r] \/ s \in ArchivedStates(kind[r])]
    /\ UNCHANGED kind

Shelve(r) ==
    /\ kind[r] # "none"
    /\ shelved' = [shelved EXCEPT ![r] = TRUE]
    /\ UNCHANGED <<kind, status>>

LifecycleNext == \E r \in Records : Appear(r) \/ Move(r) \/ Shelve(r)

LifecycleSpec == LifecycleInit /\ [][LifecycleNext]_lifecycleVars
=============================================================================
