-------------------------- MODULE SharedConnection --------------------------
(***************************************************************************)
(* The handlers of the bot and of the web console, run one step at a time  *)
(* on the one SQLite connection they all share (database.py).              *)
(*                                                                         *)
(* A behaviour is that of one handler, any one of them, among the others:  *)
(* at every await another may commit what is pending on the connection or  *)
(* roll it back, whosever it is. The handlers themselves are in Handlers,  *)
(* with those that do not keep the properties below.                       *)
(***************************************************************************)
EXTENDS Handlers

VARIABLES
    handler,    \* which
    script,     \* what it does
    at,         \* the step it is at
    over,       \* how it ended: "no", "returned", "raised", "killed"
    answered,   \* whether the interaction has had its first response
    failed,     \* what failed on the way: "discord", "store"
    open,       \* the kinds of writes of its own that wait to be committed
    early,      \* whether it committed some since its transaction began
    missed,     \* whether a write its user is to be told of has failed
    torn        \* whether a rollback of its own came too late for those

handlerVars == <<handler, script, at, over, answered, failed, open, early, missed, torn>>

Rows == <<open, early, missed, torn>>

Running == over = "no" /\ at <= Len(script)
Is(do) == Running /\ script[at].do = do

IsOne(dos) == Running /\ script[at].do \in dos

HandlerInit ==
    /\ handler \in DOMAIN Scripts /\ script = Scripts[handler]
    /\ at = 1 /\ over = "no"
    /\ answered = FALSE /\ failed = {}
    /\ open = {} /\ early = FALSE /\ missed = FALSE /\ torn = FALSE

-----------------------------------------------------------------------------
\* conn.execute("INSERT ...") opens a transaction on the connection, or joins
\* the one that is open.
DoWrite ==
    /\ IsOne({"write", "want"})
    /\ open' = open \cup {script[at].do}
    /\ at' = at + 1
    /\ UNCHANGED <<handler, script, over, answered, failed, early, missed, torn>>

DoCommit ==
    /\ Is("commit")
    /\ early' = (early \/ open # {})
    /\ open' = {}
    /\ at' = at + 1
    /\ UNCHANGED <<handler, script, over, answered, failed, missed, torn>>

BeginTransaction ==
    /\ Is("begin")
    /\ early' = FALSE
    /\ at' = at + 1
    /\ UNCHANGED <<handler, script, over, answered, failed, open, missed, torn>>

DoWait ==
    /\ IsOne({"read", "file", "slow", "post", "reply ok"})
    /\ at' = at + 1
    /\ UNCHANGED <<handler, script, over, answered, failed, Rows>>

Acknowledge ==
    /\ IsOne(Firsts) /\ ~answered
    /\ answered' = TRUE
    /\ at' = at + 1
    /\ UNCHANGED <<handler, script, over, failed, Rows>>

FollowUp ==
    /\ IsOne(FollowUps) /\ answered
    /\ at' = at + 1
    /\ UNCHANGED <<handler, script, over, answered, failed, Rows>>

Branch ==
    /\ \/ Is("fork") /\ at' \in {at + 1, at + script[at].to}
       \/ Is("jump") /\ at' = at + script[at].to
       \/ Is("answered?") /\ at' = IF answered THEN at + 1 ELSE at + script[at].to
    /\ UNCHANGED <<handler, script, over, answered, failed, Rows>>

Leave ==
    /\ over = "no" /\ (at > Len(script) \/ Is("return"))
    /\ over' = "returned"
    /\ UNCHANGED <<handler, script, at, answered, failed, Rows>>

\* Discord refuses a second first response, and a follow-up to none.
Refused ==
    \/ IsOne(Firsts) /\ answered
    \/ IsOne(FollowUps) /\ ~answered
    \/ Is("raise")

Throw ==
    /\ Refused \/ IsOne({"read", "write", "want", "file", "slow", "reply ok"} \cup Discord)
    /\ IF script[at].undo
       THEN open' = {} /\ torn' = (torn \/ early)
       ELSE UNCHANGED <<open, torn>>
    /\ IF script[at].catch = 0
       THEN over' = "raised" /\ at' = at
       ELSE over' = over /\ at' = at + script[at].catch
    /\ failed' = failed \cup (IF Refused THEN {}
                             ELSE IF IsOne(Discord) THEN {"discord"} ELSE {"store"})
    /\ missed' = (missed \/ Is("want"))
    /\ UNCHANGED <<handler, script, answered, early>>

\* Another handler commits, or rolls back, what is open on the connection.
OthersCommitOrRollBack ==
    /\ open # {}
    /\ open' = {}
    /\ UNCHANGED <<handler, script, at, over, answered, failed, early, missed, torn>>

Crash ==
    /\ over = "no"
    /\ over' = "killed" /\ open' = {}
    /\ UNCHANGED <<handler, script, at, answered, failed, early, missed, torn>>

Ended == over # "no" /\ UNCHANGED handlerVars

HandlerNext ==
    \/ DoWrite \/ DoCommit \/ BeginTransaction \/ DoWait
    \/ Acknowledge \/ FollowUp \/ Branch \/ Leave \/ Throw
    \/ OthersCommitOrRollBack \/ Crash \/ Ended

HandlerSpec == HandlerInit /\ [][HandlerNext]_handlerVars

-----------------------------------------------------------------------------
Asked == handler \in DOMAIN Interactions
Done == over \in {"returned", "raised"}

\* An interaction is answered once, and followed up only after it was answered,
\* whatever raises in between and whoever then handles it: Discord refuses
\* anything else, and the user is left without the answer.
AnsweredOnce ==
    Asked /\ "discord" \notin failed /\ handler \notin AnswersTwice =>
        /\ ~(IsOne(Firsts) /\ answered)
        /\ ~(IsOne(FollowUps) /\ ~answered)

\* Discord waits three seconds: a handler answers before it asks a model or
\* reads the index, and no handler ends, by whatever exception of the store or
\* the model, without having answered.
AnsweredInTime ==
    Asked /\ "discord" \notin failed =>
        /\ Is("slow") /\ handler \notin AnswersLate => answered
        /\ Done /\ handler \notin NeverAnswers => answered

\* Whoever is told that something was done can rely on it: what he was told of
\* was written, all of it, and committed.
ToldIsStored ==
    handler \notin SwallowsFailure =>
        (IsOne(Success) => "want" \notin open /\ ~missed)

\* What was asked for is stored as a whole or not at all: no commit, and no
\* handler that ends, leaves a part of it to stay when another part failed; and
\* no transaction is rolled back after a call inside it has committed.
NothingHalfDone ==
    /\ ~torn
    /\ handler \notin LeavesHalf \cup OneByOne =>
         ((Is("commit") \/ Done) /\ "want" \in open => ~missed)

\* An open write locks the database and is anybody's to commit or to roll back:
\* no handler that nothing has failed keeps one while it waits for a model or
\* for Discord, or leaves one behind.
LockIsBrief ==
    failed = {} /\ handler \notin HoldsLock =>
        (IsOne(Discord \cup {"slow"}) \/ Done => open = {})

=============================================================================
