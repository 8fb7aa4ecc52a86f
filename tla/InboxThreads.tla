---------------------------- MODULE InboxThreads ----------------------------
(***************************************************************************)
(* Question threads of the inbox (admin/routers/inbox.py), the background  *)
(* tasks and browsers that answer them, the recovery of stalled threads    *)
(* (core/inbox_recovery_runner.py) and the work packet kept for each       *)
(* thread (core/services/work_packet_service.py).                          *)
(*                                                                         *)
(* A thread that waits for its answer is in status 'processing'. Whoever   *)
(* answers it lives in memory only: a task of the process, which touches   *)
(* the thread's updated_at as it goes, or a browser that reads a stream    *)
(* and does not. A job looks for processing threads not touched for a      *)
(* while, takes them for orphans and starts a new task for each.           *)
(*                                                                         *)
(* Every database call is a step. Time is counted in ticks. Handlers       *)
(* finish within a tick; an answer takes any time, a stage of it too: it   *)
(* may be several calls of models with no heartbeat between them, and a    *)
(* heartbeat that fails is logged and forgotten.                           *)
(***************************************************************************)
EXTENDS Integers, FiniteSets

CONSTANTS
    Threads,
    Clients,        \* requests of the console that may be under way at once
    Runner,         \* the recovery job
    Workers,        \* bound: tasks and streams that may be alive at once
    NoThread,
    StaleAfter,     \* ticks without a heartbeat that make an orphan (900 s)
    MaxActs,        \* bound: requests of people per thread
    MaxFaults       \* bound: ends of the process and answers given up

Agents == Clients \cup {Runner} \cup Workers

ASSUME InboxAssumption ==
    /\ StaleAfter \in Nat \ {0}
    /\ {MaxActs, MaxFaults} \subseteq Nat
    /\ NoThread \notin Threads
    /\ IsFiniteSet(Workers)
    /\ IsFiniteSet(Clients)
    /\ Clients \cap Workers = {}
    /\ Runner \notin Clients \cup Workers

VARIABLES
    status,     \* inbox_threads.status, "none" before the thread exists
    age,        \* ticks since updated_at, counted up to StaleAfter and only
                \* while the thread is processing
    acts,       \* requests of people so far
    owed,       \* history: answers that the thread may still get, those asked
                \* for and those accounted for by a failure, without those stored
    packet,     \* work_packets.status of the thread's packet
    run,        \* what each worker answers, and for how many ticks, up to
                \* StaleAfter, it has not touched its thread
    op,         \* the rest of a handler, after it has written the thread
    listed,     \* stale threads the recovery job has yet to requeue
    faults,
    torn,       \* history: threads whose packet lost a transition
    hurried     \* history: threads somebody touched while they were processing,
                \* or the recovery took from a worker that was alive

vars == <<status, age, acts, owed, packet, run, op, listed, faults, torn,
          hurried>>

Closing == [read |-> "completed", archived |-> "cancelled"]

Statuses == {"none", "processing", "ready", "read", "archived"}

\* What a handler that wants a packet moves it to.
Opening == {"active", "awaiting_human"}

Packets == {"none", "active", "awaiting_human", "completed", "cancelled",
            "failed"}

Stages == {"retrieval", "search", "pipeline", "fallback"}

Run == [job : {"none", "stream"} \cup Stages, thread : Threads \cup {NoThread},
        silent : 0..StaleAfter]

\* What a handler still has to do: move the packet, then start an answer.
Op == [thread : Threads \cup {NoThread}, to : Packets,
       start : {"none", "stream", "retrieval"}]

Resting == [thread |-> NoThread, to |-> "none", start |-> "none"]
Free == [job |-> "none", thread |-> NoThread, silent |-> 0]

TypeOK ==
    /\ status \in [Threads -> Statuses]
    /\ age \in [Threads -> 0..StaleAfter]
    /\ owed \in [Threads -> Int]
    /\ acts \in [Threads -> 0..MaxActs]
    /\ packet \in [Threads -> Packets]
    /\ run \in [Workers -> Run]
    /\ op \in [Agents -> Op]
    /\ listed \subseteq Threads
    /\ faults \in 0..MaxFaults
    /\ torn \subseteq Threads
    /\ hurried \subseteq Threads

Init ==
    /\ status = [t \in Threads |-> "none"]
    /\ age = [t \in Threads |-> 0]
    /\ acts = [t \in Threads |-> 0]
    /\ owed = [t \in Threads |-> 0]
    /\ packet = [t \in Threads |-> "none"]
    /\ run = [w \in Workers |-> Free]
    /\ op = [a \in Agents |-> Resting]
    /\ listed = {}
    /\ faults = 0
    /\ torn = {}
    /\ hurried = {}

-----------------------------------------------------------------------------
(* What the handlers have in common.                                       *)

\* Nobody is about to move the packet of t.
Untouched(t) == \A a \in Agents : op[a].thread # t

\* A person does something about t.
Act(t) ==
    /\ acts[t] < MaxActs
    /\ acts' = [acts EXCEPT ![t] = @ + 1]
    /\ hurried' = IF status[t] = "processing" \/ ~Untouched(t)
                    THEN hurried \cup {t} ELSE hurried

\* Agent a writes the status of t, which also touches it, and goes on to move
\* the packet. Two who do so at once leave the packet in either's status.
WriteThread(a, t, new, to, start) ==
    /\ op[a] = Resting
    /\ status' = [status EXCEPT ![t] = new]
    /\ age' = [age EXCEPT ![t] = 0]
    /\ op' = [op EXCEPT ![a] = [thread |-> t, to |-> to, start |-> start]]
    /\ torn' = IF Untouched(t) THEN torn \ {t} ELSE torn \cup {t}

\* One answer is asked for, and so many come with the question.
Ask(t, answers) == owed' = [owed EXCEPT ![t] = @ + 1 - answers]

\* WorkPacketService.transition, after create_packet where the packet is
\* missing: any status may follow any other. To close a packet or to fail it
\* creates none.
MovePacket(a) ==
    LET t == op[a].thread IN
    /\ t # NoThread
    /\ op[a].to # "none"
    /\ packet' = [packet EXCEPT ![t] =
                    IF @ = "none" /\ op[a].to \notin Opening
                      THEN @ ELSE op[a].to]
    /\ op' = [op EXCEPT ![a] = IF @.start = "none" THEN Resting
                                ELSE [@ EXCEPT !.to = "none"]]
    /\ UNCHANGED <<status, age, owed, run, listed, faults, torn,
                   acts, hurried>>

\* Every packet helper logs what it raises, and the handler goes on.
SkipPacket(a) ==
    LET t == op[a].thread IN
    /\ t # NoThread
    /\ op[a].to # "none"
    /\ torn' = torn \cup {t}
    /\ op' = [op EXCEPT ![a] = IF @.start = "none" THEN Resting
                                ELSE [@ EXCEPT !.to = "none"]]
    /\ UNCHANGED <<status, age, owed, packet, run, listed, faults,
                   acts, hurried>>

\* create_task at the end of the handler, or the browser opens the stream that
\* it was told to open.
Start(a, w) ==
    /\ op[a].thread # NoThread
    /\ op[a].to = "none"
    /\ run[w] = Free
    /\ op[w] = Resting
    /\ run' = [run EXCEPT ![w] = [job |-> op[a].start, thread |-> op[a].thread,
                                  silent |-> 0]]
    /\ op' = [op EXCEPT ![a] = Resting]
    /\ UNCHANGED <<status, age, owed, packet, listed, faults, torn,
                   acts, hurried>>

-----------------------------------------------------------------------------
(* The console.                                                            *)

\* A question, streamed or left to a background task.
CreateThread(c, t) ==
    /\ status[t] = "none"
    /\ \E start \in {"stream", "retrieval"} :
         WriteThread(c, t, "processing", "active", start)
    /\ Ask(t, 0)
    /\ Act(t)
    /\ UNCHANGED <<packet, run, listed, faults>>

\* Mutant: a follow-up leaves the packet as it is.
FollowUpQuietly(t) == packet[t]

FollowUpTo(t) == "active"

\* A follow-up in any thread, whatever its status.
Reply(c, t) ==
    /\ status[t] # "none"
    /\ \E start \in {"stream", "retrieval"} :
         WriteThread(c, t, "processing", FollowUpTo(t), start)
    /\ Ask(t, 0)
    /\ Act(t)
    /\ UNCHANGED <<packet, run, listed, faults>>

\* The retry button, the watchdog of the page, and a page whose stream broke.
Reprocess(c, t) ==
    /\ status[t] # "none"
    /\ WriteThread(c, t, "processing", "active", "retrieval")
    /\ Ask(t, 0)
    /\ Act(t)
    /\ UNCHANGED <<packet, run, listed, faults>>

\* A question that was answered live is stored with its answer, as a new
\* thread ...
CreateCompleted(c, t) ==
    /\ status[t] = "none"
    /\ WriteThread(c, t, "ready", "awaiting_human", "none")
    /\ Ask(t, 1)
    /\ Act(t)
    /\ UNCHANGED <<packet, run, listed, faults>>

\* ... or at the end of an old one.
ReplyCompleted(c, t) ==
    /\ status[t] # "none"
    /\ WriteThread(c, t, "ready", "awaiting_human", "none")
    /\ Ask(t, 1)
    /\ Act(t)
    /\ UNCHANGED <<packet, run, listed, faults>>

\* Read and archived close the packet; back to unread leaves it alone.
PatchThread(c, t) ==
    /\ status[t] # "none"
    /\ op[c] = Resting
    /\ \/ \E new \in DOMAIN Closing :
            WriteThread(c, t, new, Closing[new], "none")
       \/ /\ status' = [status EXCEPT ![t] = "ready"]
          /\ age' = [age EXCEPT ![t] = 0]
          /\ UNCHANGED <<op, torn>>
    /\ Act(t)
    /\ UNCHANGED <<owed, packet, run, listed, faults>>

\* A star touches the thread and changes nothing else here.
Star(t) ==
    /\ status[t] # "none"
    /\ age' = [age EXCEPT ![t] = 0]
    /\ Act(t)
    /\ UNCHANGED <<status, owed, packet, run, op, listed, faults,
                   torn>>

\* A thumb up or down sends the packet to its reviewer.
Feedback(c, t) ==
    /\ status[t] # "none"
    /\ op[c] = Resting
    /\ op' = [op EXCEPT ![c] = [thread |-> t, to |-> "awaiting_human",
                                start |-> "none"]]
    /\ Act(t)
    /\ UNCHANGED <<status, age, owed, packet, run, listed, faults,
                   torn>>

-----------------------------------------------------------------------------
(* Answers.                                                                *)

\* Mutant: the progress text is written without touching updated_at.
BeatOnce(t) == age

Beat(t) == [age EXCEPT ![t] = 0]

\* The stages of _process_question, each announced by _update_thread_status:
\* retrieval, a web search where the context is weak, the pipeline, and a
\* single model where the pipeline gave nothing.
NextStage(job) ==
    CASE job = "retrieval" -> {"search", "pipeline"}
      [] job = "search"    -> {"pipeline"}
      [] job = "pipeline"  -> {"fallback"}
      [] OTHER             -> {}

\* The heartbeat may fail, and the answer goes on without it.
Progress(w) ==
    LET t == run[w].thread IN
    /\ t # NoThread
    /\ \E next \in NextStage(run[w].job) :
         \/ /\ run' = [run EXCEPT ![w].job = next, ![w].silent = 0]
            /\ age' = Beat(t)
         \/ /\ run' = [run EXCEPT ![w].job = next]
            /\ UNCHANGED age
    /\ UNCHANGED <<status, owed, packet, op, listed, faults,
                   torn, acts, hurried>>

\* Mutant: the answer is stored, but the thread goes on waiting.
StillProcessing(t) == status

Answered(t) == [status EXCEPT ![t] = "ready"]

\* So many messages are stored, and so many of them are accounted for by a
\* failure. They are counted up to the first that nothing accounts for.
Store(t, messages, more) ==
    owed' = IF owed[t] < 0 THEN owed ELSE [owed EXCEPT ![t] = @ + more - messages]

\* The answer is stored and the thread is unread, whatever has become of it.
SaveAnswer(w) ==
    LET t == run[w].thread IN
    /\ run[w].job \in {"pipeline", "fallback"}
    /\ status' = Answered(t)
    /\ Store(t, 1, 0)
    /\ age' = [age EXCEPT ![t] = 0]
    /\ run' = [run EXCEPT ![w] = Free]
    /\ UNCHANGED <<packet, op, listed, faults, torn, acts, hurried>>

\* Any stage may raise: the failure is the answer, and the packet fails. The
\* UPDATE does not touch the thread. Where the saving raises after its INSERT,
\* the failure is stored and committed next to the answer.
FailAnswer(w) ==
    LET t == run[w].thread IN
    /\ run[w].job \in Stages
    /\ status' = Answered(t)
    /\ \/ Store(t, 1, 0)
       \/ run[w].job \in {"pipeline", "fallback"} /\ Store(t, 2, 1)
    /\ run' = [run EXCEPT ![w] = Free]
    /\ op' = [op EXCEPT ![w] = [thread |-> t, to |-> "failed",
                                start |-> "none"]]
    /\ UNCHANGED <<age, packet, listed, faults, torn, acts, hurried>>

\* The failure cannot be stored either, and that is only logged: the thread
\* goes on waiting for nobody. What was inserted before stays on the shared
\* connection, to be committed by whoever commits next, or is lost.
GiveUp(w) ==
    LET t == run[w].thread IN
    /\ run[w].job \in Stages
    /\ faults < MaxFaults
    /\ faults' = faults + 1
    /\ \E k \in {0, 1, 2} :
         /\ k = 2 => run[w].job \in {"pipeline", "fallback"}
         /\ Store(t, k, k)
    /\ run' = [run EXCEPT ![w] = Free]
    /\ UNCHANGED <<status, age, packet, op, listed, torn, acts, hurried>>

\* save-response, sent by the browser at the end of its stream, and sent again
\* where it got no answer to the first.
SaveResponse(w, c) ==
    LET t == run[w].thread IN
    /\ run[w].job = "stream"
    /\ op[c] = Resting
    /\ status' = Answered(t)
    /\ Store(t, 1, 0) \/ Store(t, 2, 1)
    /\ age' = [age EXCEPT ![t] = 0]
    /\ run' = [run EXCEPT ![w] = Free]
    /\ op' = [op EXCEPT ![c] = [thread |-> t, to |-> "awaiting_human",
                                start |-> "none"]]
    /\ UNCHANGED <<packet, listed, faults, torn, acts, hurried>>

\* The page is closed, its stream ends without a word, or save-response fails,
\* before its INSERT or after it.
LeaveStream(w) ==
    /\ run[w].job = "stream"
    /\ \E k \in {0, 1} : Store(run[w].thread, k, k)
    /\ run' = [run EXCEPT ![w] = Free]
    /\ UNCHANGED <<status, age, packet, op, listed, faults, torn, acts,
                   hurried>>

-----------------------------------------------------------------------------
(* Recovery, the end of the process, and time.                             *)

Stale(t) == status[t] = "processing" /\ age[t] = StaleAfter

\* The stale threads whose answers are still being worked on, by workers that
\* have all been silent as long as that. To start one more worker for such a
\* thread is the price of not knowing.
Overtaken ==
    {t \in Threads :
        /\ Stale(t)
        /\ \E w \in Workers : run[w].thread = t
        /\ \A w \in Workers : run[w].thread = t => run[w].silent = StaleAfter}

\* recover_stale_inbox_threads lists the stale threads once ...
Scan ==
    /\ listed = {}
    /\ op[Runner] = Resting
    /\ listed' = {t \in Threads : Stale(t)}
    /\ listed' # {}
    /\ owed' = [t \in Threads |-> IF t \in Overtaken THEN owed[t] + 1
                                                   ELSE owed[t]]
    /\ hurried' = hurried \cup Overtaken
    /\ UNCHANGED <<status, age, packet, run, op, faults, torn, acts>>

\* Mutant: the thread is marked, but no task is created.
NoTask == "none"

NewTask == "retrieval"

\* ... and requeues one after another, without looking again.
Recover(t) ==
    /\ t \in listed
    /\ WriteThread(Runner, t, "processing", "active", NewTask)
    /\ listed' = listed \ {t}
    /\ UNCHANGED <<owed, packet, run, faults, acts, hurried>>

\* The process ends: tasks, streams and handlers are gone.
Crash ==
    /\ faults < MaxFaults
    /\ faults' = faults + 1
    /\ run' = [w \in Workers |-> Free]
    /\ op' = [a \in Agents |-> Resting]
    /\ listed' = {}
    /\ torn' = torn \cup {t \in Threads : ~Untouched(t)}
    /\ UNCHANGED <<status, age, owed, packet, acts, hurried>>

Older(n) == IF n < StaleAfter THEN n + 1 ELSE n

Tick ==
    /\ \A a \in Agents : op[a] = Resting
    /\ listed = {}
    /\ \/ \E w \in Workers : run[w] # Free /\ run[w].silent < StaleAfter
       \/ \E t \in Threads : status[t] = "processing" /\ age[t] < StaleAfter
    /\ age' = [t \in Threads |-> IF status[t] = "processing" THEN Older(age[t])
                                                           ELSE age[t]]
    /\ run' = [w \in Workers |->
                 IF run[w] = Free THEN Free
                 ELSE [run[w] EXCEPT !.silent = Older(@)]]
    /\ UNCHANGED <<status, owed, packet, op, listed, faults,
                   torn, acts, hurried>>

Console ==
    \E c \in Clients, t \in Threads :
        \/ CreateThread(c, t) \/ Reply(c, t) \/ Reprocess(c, t)
        \/ CreateCompleted(c, t) \/ ReplyCompleted(c, t)
        \/ PatchThread(c, t) \/ Star(t) \/ Feedback(c, t)

HandlerStep(a) ==
    MovePacket(a) \/ SkipPacket(a) \/ \E w \in Workers : Start(a, w)

WorkerStep(w) ==
    \/ Progress(w) \/ SaveAnswer(w) \/ FailAnswer(w) \/ GiveUp(w)
    \/ LeaveStream(w)
    \/ \E c \in Clients : SaveResponse(w, c)

RunnerStep == Scan \/ \E t \in Threads : Recover(t)

Next ==
    \/ Console
    \/ \E a \in Agents : HandlerStep(a)
    \/ \E w \in Workers : WorkerStep(w)
    \/ RunnerStep
    \/ Crash
    \/ Tick

Spec == Init /\ [][Next]_vars

\* The event loop runs every handler and task on, the recovery job looks again
\* every ten minutes (inbox_recovery_runner.py), and time goes by. Nobody is
\* bound to ask or to read, the process ends finitely often, and the database
\* fails an answer and the note of its failure finitely often.
FairSpec ==
    /\ Spec
    /\ \A a \in Agents : WF_vars(HandlerStep(a))
    /\ \A w \in Workers : WF_vars(WorkerStep(w))
    /\ WF_vars(RunnerStep)
    /\ WF_vars(Tick)

-----------------------------------------------------------------------------
\* However long answers take, tasks die, heartbeats get lost and threads are
\* recovered, every answer too many is accounted for: by a worker that had not
\* touched its thread for StaleAfter ticks when it was taken for dead, by a
\* save that broke off between its INSERT and its UPDATE, or by one that was
\* sent twice. A worker that has shown up since is never overtaken, and what
\* the job listed is listed for one answer, whatever happens before its turn
\* (inbox.py:768-883, 1599-1697).
NoStrayAnswer == \A t \in Threads : owed[t] >= 0

\* Once the handlers have done with a thread its packet tells what was last
\* done with it, unless a transition was lost or two handlers met; feedback
\* reopens a packet, and closing one that was never opened opens none
\* (inbox.py:161-330, 410-540).
PacketTellsThread ==
    \A t \in Threads \ torn :
        Untouched(t) =>
            /\ status[t] = "processing" => packet[t] \in Opening
            /\ status[t] \in DOMAIN Closing =>
                   packet[t] \in {"none", "awaiting_human", Closing[status[t]]}

\* A thread does not wait for ever, whoever went away.
WaitingEnds ==
    \A t \in Threads : status[t] = "processing" ~> status[t] # "processing"

\* In a thread that people leave alone while it is processing and that no
\* worker was overtaken in, every question gets its answer, however many
\* messages broken saves have left there (inbox.py:410-595, 832-883).
EveryQuestionAnswered ==
    \A t \in Threads :
        [](t \notin hurried /\ owed[t] > 0 => <>(t \in hurried \/ owed[t] = 0))
=============================================================================
