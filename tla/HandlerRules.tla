---------------------------- MODULE HandlerRules ----------------------------
(***************************************************************************)
(* Rules a handler can be read for, step by step, without running it among *)
(* the others: where it may be while something is the case, and what must  *)
(* not stand there. A region is the set of those positions.                *)
(*                                                                         *)
(* A handler that keeps a rule keeps a property of SharedConnection,       *)
(* whatever fails and whoever commits in between, as is proved in          *)
(* SweepAndHandlersProofs. Which handlers keep which rule is computed: TLC *)
(* evaluates the assumptions at the end of this module.                    *)
(***************************************************************************)
EXTENDS Handlers, FiniteSets

StepType == [do : STRING, to : Int, catch : Nat, undo : BOOLEAN]

Raising == {"read", "write", "want", "file", "slow", "reply ok", "raise"} \cup Discord

At(s, dos) == {i \in DOMAIN s : s[i].do \in dos}

\* Where step i leads, and where it lands when it raises.
Goes(s, i) ==
    CASE s[i].do \in {"return", "raise"} -> {}
      [] s[i].do = "jump" -> {i + s[i].to}
      [] s[i].do \in {"fork", "answered?"} -> {i + 1, i + s[i].to}
      [] OTHER -> {i + 1}

Lands(s, i) ==
    IF s[i].do \in Raising /\ s[i].catch # 0 THEN {i + s[i].catch} ELSE {}

Leads(s, i) == Goes(s, i) \cup Lands(s, i)

\* No step leads out of the handler but to its end.
StaysInside(s) == \A i \in DOMAIN s : Leads(s, i) \subseteq 1..(Len(s) + 1)

\* The positions that can be reached from some, when each leads to those in next
\* (within[n, ...] goes 2^n steps), and what the proofs need to know of them.
Reach(from, next) ==
    LET within[n \in 0..10, here \in SUBSET Nat] ==
            IF n = 0 THEN here \cup UNION {next[i] : i \in here \cap DOMAIN next}
            ELSE LET half == within[n - 1, here] IN
                 IF half = here THEN here ELSE within[n - 1, half]
    IN  within[10, from]

IsClosed(from, next, region) ==
    /\ from \subseteq region
    /\ \A i \in region \cap DOMAIN next : next[i] \subseteq region

-----------------------------------------------------------------------------
(* Where an interaction has been answered, and where not yet, as long as   *)
(* Discord does not fail.                                                  *)

BeforeAnswer(s) ==
    [i \in DOMAIN s |->
        CASE s[i].do \in Firsts -> {}
          [] s[i].do \in FollowUps -> Lands(s, i)
          [] s[i].do = "post" -> {i + 1}
          [] s[i].do = "answered?" -> {i + s[i].to}
          [] OTHER -> Leads(s, i)]

Unanswered(s) == Reach({1}, BeforeAnswer(s))

FirstAnswers(s) == {i + 1 : i \in At(s, Firsts) \cap Unanswered(s)}

AfterAnswer(s) ==
    [i \in DOMAIN s |->
        CASE s[i].do \in Firsts -> Lands(s, i)
          [] s[i].do \in FollowUps \cup {"post", "answered?"} -> {i + 1}
          [] OTHER -> Leads(s, i)]

Answered(s) == Reach(FirstAnswers(s), AfterAnswer(s))

AnswersOnce(s) ==
    /\ Unanswered(s) \cap At(s, FollowUps) = {}
    /\ Answered(s) \cap At(s, Firsts) = {}

AnswersFirst(s) == Unanswered(s) \cap At(s, {"slow"}) = {}

\* A handler may end where it returns, and where nothing catches what it raises.
MayEnd(s, i) ==
    \/ i \notin DOMAIN s
    \/ s[i].do = "return"
    \/ s[i].do \in Raising \ (Firsts \cup {"post"}) /\ s[i].catch = 0

AnswersAtAll(s) == \A i \in Unanswered(s) : ~MayEnd(s, i)

-----------------------------------------------------------------------------
(* Where something its user is to be told of has failed, where such a      *)
(* write waits for its commit, and where a rollback would come too late.   *)

AnyLead(s) == [i \in DOMAIN s |-> Leads(s, i)]

Failures(s) == UNION {Lands(s, i) : i \in At(s, {"want"})}

AfterFailure(s) == Reach(Failures(s), AnyLead(s))

Wanted(s) == {i + 1 : i \in At(s, {"want"})}

UntilCommit(s) ==
    [i \in DOMAIN s |->
        IF s[i].do = "commit" THEN {}
        ELSE Goes(s, i) \cup (IF s[i].undo THEN {} ELSE Lands(s, i))]

Pending(s) == Reach(Wanted(s), UntilCommit(s))

TellsOfStored(s) == (AfterFailure(s) \cup Pending(s)) \cap At(s, Success) = {}

\* No second write of a whole is tried without undoing the first where it fails,
\* and none where the first has failed.
WritesWhole(s) ==
    /\ AfterFailure(s) \cap At(s, {"want"}) = {}
    /\ \A i \in Pending(s) \cap At(s, {"want"}) : s[i].undo

Commits(s) == {i + 1 : i \in At(s, {"commit"})}

UntilBegin(s) ==
    [i \in DOMAIN s |-> IF s[i].do = "begin" THEN {} ELSE Leads(s, i)]

AfterCommit(s) == Reach(Commits(s), UntilBegin(s))

UndoesInTime(s) == \A i \in AfterCommit(s) \cap At(s, Raising) : ~s[i].undo

-----------------------------------------------------------------------------
(* Where a write waits for its commit, as long as nothing fails.           *)

Writes(s) == {i + 1 : i \in At(s, {"write", "want"})}

Untroubled(s) ==
    [i \in DOMAIN s |-> IF s[i].do = "commit" THEN {} ELSE Goes(s, i)]

Open(s) == Reach(Writes(s), Untroubled(s))

CommitsBeforeItWaits(s) ==
    /\ Open(s) \subseteq DOMAIN s
    /\ Open(s) \cap At(s, Discord \cup {"slow", "return", "raise"}) = {}

-----------------------------------------------------------------------------
(* What TLC finds of the handlers there are.                               *)

RegionsClosed(s) ==
    /\ IsClosed({1}, BeforeAnswer(s), Unanswered(s))
    /\ IsClosed(FirstAnswers(s), AfterAnswer(s), Answered(s))
    /\ IsClosed(Failures(s), AnyLead(s), AfterFailure(s))
    /\ IsClosed(Wanted(s), UntilCommit(s), Pending(s))
    /\ IsClosed(Commits(s), UntilBegin(s), AfterCommit(s))
    /\ IsClosed(Writes(s), Untroubled(s), Open(s))

ASSUME ScriptsAreSound ==
    \A h \in DOMAIN Scripts :
        /\ Scripts[h] \in Seq(StepType)
        /\ StaysInside(Scripts[h])
        /\ RegionsClosed(Scripts[h])

\* The handlers that break a rule are those known to break the property.
ASSUME RulesAreKept ==
    /\ \A h \in DOMAIN Interactions :
         /\ ~AnswersOnce(Scripts[h]) <=> h \in AnswersTwice
         /\ ~AnswersFirst(Scripts[h]) <=> h \in AnswersLate
         /\ ~AnswersAtAll(Scripts[h]) <=> h \in NeverAnswers
    /\ \A h \in DOMAIN Scripts :
         /\ ~TellsOfStored(Scripts[h]) <=> h \in SwallowsFailure
         /\ ~WritesWhole(Scripts[h]) <=> h \in LeavesHalf \cup OneByOne
         /\ ~CommitsBeforeItWaits(Scripts[h]) <=> h \in HoldsLock
         /\ UndoesInTime(Scripts[h])
=============================================================================
