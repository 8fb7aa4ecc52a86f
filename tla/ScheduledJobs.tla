--------------------------- MODULE ScheduledJobs ---------------------------
(***************************************************************************)
(* The jobs the bot runs on a clock (cogs/AutonomousOps.py and its mixins, *)
(* cogs/KnowledgeGapTracker.py, cogs/ActionItems.py) and the rows of       *)
(* job_runs by which each runs once for its key (database.py).             *)
(*                                                                         *)
(* A job's loop starts at its time; people start some jobs by hand. Each   *)
(* start claims the key of the period (a day, a week, a quarter of an      *)
(* hour): it looks for a run that is running or completed, then inserts    *)
(* one, and ends by completing it. In between the job posts messages and   *)
(* marks what it posted about, in the order of its script; each step may   *)
(* fail or return early, and the process may end.                          *)
(*                                                                         *)
(* Jobs share nothing but the database connection, so a behaviour is that  *)
(* of one job, any one of them, and what is known of its current key.      *)
(***************************************************************************)
EXTENDS Integers, Sequences

CONSTANTS
    Items,      \* what a job may post about: questions, leads, takeaways
    Often       \* bound: times an item is posted about where the code has none

ASSUME JobsAssumption == Often \in Nat \ {0}

-----------------------------------------------------------------------------
(* Scripts. A step does one thing and may instead end in one of the ways   *)
(* of its "or":                                                            *)
(*    "quit"  the job returns, and does not complete its run               *)
(*    "done"  the job has nothing to do and completes its run              *)
(*    "over"  a failure is swallowed, or there is no channel: go on at "to"*)
(*    "cut"   the message has no room for everything                       *)
(*    "fail"  an exception                                                 *)
(* "look" reads what is due, and takes the first three ways when nothing   *)
(* is; "each" takes the items one by one, and goes to "to" after the last; *)
(* "back" goes to "to"; "markeach" commits a mark at a time.               *)
(* After an exception the loop "dies", the run is "left" running, it is    *)
(* closed as "failed", or it is "completed" like any other.                *)

Step(do, or) == [do |-> do, or |-> or, to |-> 0]
StepTo(do, or, to) == [do |-> do, or |-> or, to |-> to]

Work(or) == Step("work", or)
Post(or) == Step("post", or)
Mark(or) == Step("mark", or)

Job(onError, hand, times, steps) ==
    [onError |-> onError, hand |-> hand, times |-> times, steps |-> steps]

\* Jobs of this kind announce something and mark nothing.
Announcement(onError, hand, steps) == Job(onError, hand, 1, steps)

monthly_partners_meeting ==
    Announcement("dies", "no", <<Work({"quit"}), Post({"fail"})>>)

\* A post, its thread, and the row that names the thread.
monday_planning_kickoff ==
    Announcement("dies", "claims",
                 <<Work({"quit"}), Post({"fail"}), Work({"fail"})>>)

friday_closeout ==
    Announcement("dies", "claims",
                 <<Work({"quit"}), Post({"fail"}), Work({"fail"})>>)

\* Mutant: the ping is counted before it is sent.
MarkedFirst ==
    Job("failed", "no", 3,
        <<Step("look", {"done", "fail"}), StepTo("each", {}, 6),
          StepTo("mark", {"over"}, 2), StepTo("post", {"over", "fail"}, 2),
          StepTo("back", {}, 2)>>)

\* Each stale question is pinged, at most three times and two days apart.
question_watchdog ==
    Job("failed", "no", 3,
        <<Step("look", {"done", "fail"}), StepTo("each", {}, 6),
          StepTo("post", {"over", "fail"}, 2), StepTo("mark", {"over"}, 2),
          StepTo("back", {}, 2)>>)

\* The item is the week's dashboard: sent once, edited from then on. That it is
\* sent anew where the message cannot be fetched is left out.
weekly_dashboard_update ==
    Job("dies", "no", 1,
        <<Work({"quit"}), StepTo("look", {"over"}, 5), Post({"fail"}),
          StepTo("mark", {"over"}, 5)>>)

daily_digest ==
    Announcement("left", "claims", <<Work({"quit", "fail"}), Post({"fail"})>>)

\* The announcement, then the partners' updates since the last meeting, cut
\* to the length of a message. By hand it claims no key.
thursday_async_meeting ==
    Job("left", "free", 1,
        <<Work({"done", "fail"}), Post({"fail"}), StepTo("look", {"over"}, 6),
          StepTo("post", {"cut", "over"}, 6), StepTo("mark", {"over"}, 6)>>)

end_of_week_reflection ==
    Announcement("left", "no", <<Work({"done", "fail"}), Post({"fail"})>>)

weekly_strategic_review ==
    Announcement("left", "claims", <<Work({"quit", "fail"}), Post({"over"})>>)

daily_scout_search ==
    Announcement("left", "claims",
                 <<Work({"quit", "fail"}), Post({"over"}), Work({"fail"})>>)

\* Mutant: opportunities are reported before they are noted.
ReportedFirst ==
    Job("completed", "no", 1,
        <<Work({"quit", "done", "fail"}), Step("look", {"done"}),
          Post({"over"}), Mark({"fail"}), Work({"fail"})>>)

\* Opportunities never seen before are noted, reported and assessed.
scout_background_crawl ==
    Job("completed", "no", 1,
        <<Work({"quit", "done", "fail"}), Step("look", {"done"}),
          Mark({"fail"}), Post({"over"}), Work({"fail"})>>)

rainmaker_opportunity_hunt ==
    Job("left", "claims", 1,
        <<Work({"quit", "done", "fail"}), Step("look", {"done"}),
          Mark({"fail"}), Post({"over"}), Work({"fail"})>>)

\* By hand the console runs the ingestion itself.
daily_knowledge_refresh ==
    Announcement("left", "free", <<Work({"quit", "fail"}), Post({"over"})>>)

dreamer_ideation_cycle ==
    Announcement("left", "claims", <<Work({"done", "fail"}), Post({"over"})>>)

rainmaker_morning_pipeline ==
    Announcement("left", "claims", <<Work({"quit", "fail"}), Post({"over"})>>)

rainmaker_follow_up_nudges ==
    Announcement("left", "no",
                 <<Work({"quit", "done", "fail"}), Post({"over"}),
                   Work({"fail"})>>)

rainmaker_weekly_cold_review ==
    Announcement("left", "no",
                 <<Work({"quit", "done", "fail"}), Post({"over"})>>)

rainmaker_past_client_checkin ==
    Announcement("left", "no",
                 <<Work({"quit", "done", "fail"}), Post({"over"})>>)

steward_daily_health_check ==
    Announcement("left", "no",
                 <<Work({"quit", "fail"}), Post({"over"}), Work({"fail"})>>)

steward_weekly_self_assessment ==
    Announcement("left", "no", <<Work({"quit", "fail"}), Post({"over"})>>)

steward_learning_loop_audit ==
    Announcement("left", "no",
                 <<Work({"quit", "done", "fail"}), Post({"over"})>>)

curator_daily_scan ==
    Announcement("completed", "claims",
                 <<Work({"done", "fail"}), Post({"over"})>>)

curator_weekly_deep_analysis ==
    Announcement("completed", "claims", <<Work({"fail"}), Post({"over"})>>)

curator_corpus_interrogation ==
    Announcement("completed", "claims",
                 <<Work({"done", "fail"}), Post({"over"})>>)

\* The week's takeaways are posted where there is a channel, the pressing ones
\* first and as far as there is room, and are marked.
weekly_persona_meeting_digest ==
    Job("left", "claims", 1,
        <<Work({"quit", "fail"}), Step("look", {"done"}),
          Post({"cut", "over", "fail"}), Mark({"fail"})>>)

hourly_persona_meeting ==
    Announcement("left", "no", <<Work({"quit", "fail"}), Post({"fail"})>>)

gap_hygiene_sweep ==
    Announcement("failed", "no", <<Work({"fail"})>>)

archivist_shelf_check ==
    Job("completed", "no", Often,
        <<Work({"quit", "fail"}), StepTo("look", {"over"}, 3), Post({"fail"}),
          StepTo("mark", {"over"}, 5)>>)

bounty_board_post ==
    Job("failed", "no", Often,
        <<Work({"quit", "fail"}), Step("look", {"done", "fail"}),
          StepTo("each", {}, 7), StepTo("post", {"over"}, 3),
          StepTo("mark", {"over"}, 3), StepTo("back", {}, 3)>>)

\* The administrator's test of it claims no key.
thursday_partner_prompt ==
    Job("failed", "free", Often,
        <<Step("look", {"quit", "fail"}), Post({"over", "fail"}),
          Mark({"fail"})>>)

gap_reminder ==
    Announcement("failed", "no", <<Work({"done", "fail"}), Post({"over"})>>)

weekly_gap_escalation_check ==
    Job("failed", "no", 1,
        <<StepTo("look", {"over", "fail"}, 4), Step("markeach", {"fail"}),
          Post({"cut", "over", "fail"})>>)

\* Up to twenty are escalated, and ten are named.
weekly_escalation_check ==
    Job("failed", "no", 1,
        <<StepTo("look", {"over", "fail"}, 4), Step("markeach", {"fail"}),
          Post({"cut", "over", "fail"})>>)

\* Abandoned tasks are cancelled, and the cancellations posted.
daily_stale_sweep ==
    Job("failed", "no", 1,
        <<StepTo("look", {"done", "over", "fail"}, 3), Mark({"fail"}),
          Post({"over", "fail"})>>)

weekly_action_checkin ==
    Announcement("failed", "no",
                 <<Work({"quit", "done", "fail"}), Post({"fail"})>>)

daily_top3 ==
    Announcement("failed", "no", <<Work({"fail"}), Post({"over", "fail"})>>)

Script == [
    monthly_partners_meeting |-> monthly_partners_meeting,
    monday_planning_kickoff |-> monday_planning_kickoff,
    friday_closeout |-> friday_closeout,
    question_watchdog |-> question_watchdog,
    weekly_dashboard_update |-> weekly_dashboard_update,
    daily_digest |-> daily_digest,
    thursday_async_meeting |-> thursday_async_meeting,
    end_of_week_reflection |-> end_of_week_reflection,
    weekly_strategic_review |-> weekly_strategic_review,
    daily_scout_search |-> daily_scout_search,
    scout_background_crawl |-> scout_background_crawl,
    rainmaker_opportunity_hunt |-> rainmaker_opportunity_hunt,
    daily_knowledge_refresh |-> daily_knowledge_refresh,
    dreamer_ideation_cycle |-> dreamer_ideation_cycle,
    rainmaker_morning_pipeline |-> rainmaker_morning_pipeline,
    rainmaker_follow_up_nudges |-> rainmaker_follow_up_nudges,
    rainmaker_weekly_cold_review |-> rainmaker_weekly_cold_review,
    rainmaker_past_client_checkin |-> rainmaker_past_client_checkin,
    steward_daily_health_check |-> steward_daily_health_check,
    steward_weekly_self_assessment |-> steward_weekly_self_assessment,
    steward_learning_loop_audit |-> steward_learning_loop_audit,
    curator_daily_scan |-> curator_daily_scan,
    curator_weekly_deep_analysis |-> curator_weekly_deep_analysis,
    curator_corpus_interrogation |-> curator_corpus_interrogation,
    weekly_persona_meeting_digest |-> weekly_persona_meeting_digest,
    hourly_persona_meeting |-> hourly_persona_meeting,
    gap_hygiene_sweep |-> gap_hygiene_sweep,
    archivist_shelf_check |-> archivist_shelf_check,
    bounty_board_post |-> bounty_board_post,
    thursday_partner_prompt |-> thursday_partner_prompt,
    gap_reminder |-> gap_reminder,
    weekly_gap_escalation_check |-> weekly_gap_escalation_check,
    weekly_escalation_check |-> weekly_escalation_check,
    daily_stale_sweep |-> daily_stale_sweep,
    weekly_action_checkin |-> weekly_action_checkin,
    daily_top3 |-> daily_top3]

Jobs == DOMAIN Script

\* Loops on an interval run at once when the process starts; the others wait
\* for their time of day.
Intervals == {"scout_background_crawl", "hourly_persona_meeting"}

Refresh == "daily_knowledge_refresh"

\* Jobs that look at the last days only.
Windowed == {"thursday_async_meeting", "weekly_persona_meeting_digest"}

\* Jobs that mark an item and then post about it.
MarkFirst == {"scout_background_crawl", "rainmaker_opportunity_hunt",
              "weekly_gap_escalation_check", "weekly_escalation_check",
              "daily_stale_sweep"}

\* Who starts a job: its loop, a person, and the steward's health check, for
\* the knowledge refresh alone.
Starters == {"loop", "hand", "aid"}

-----------------------------------------------------------------------------
VARIABLES
    job,        \* the job this behaviour is about
    row,        \* its rows for the current key: how many run, has one completed
    run,        \* each starter's run
    item,       \* what is there to post about
    up,         \* the process runs
    alive,      \* the loop has not died of an exception
    due,        \* the loop's time has come
    triggered,  \* the health check has scheduled a refresh
    said,       \* history: runs with the current key that posted, until there
                \* is a reason for a second one to post
    met,        \* history: two runs of a job that marks first overlapped
    mute        \* history: something was passed over for want of a channel or room

vars == <<job, row, run, item, up, alive, due, triggered, said, met, mute>>

Machine == <<up, alive, triggered>>
History == <<said, met, mute>>

J == Script[job]

End == Len(J.steps) + 1

\* A run that is not under way, and one that has looked and not yet claimed.
None == 0
Looked == -1

\* For the history, more than one run may post.
Excused == -1

Run == [at : -1..8, batch : SUBSET Items, left : SUBSET Items,
        told : BOOLEAN, old : BOOLEAN, free : BOOLEAN]

Over == [at |-> None, batch |-> {}, left |-> {}, told |-> FALSE,
         old |-> FALSE, free |-> FALSE]

\* Marks and posts are counted as far as they make a difference.
Item == [when : {"to come", "now", "past"}, rested : BOOLEAN, marks : 0..J.times,
         told : 0..(J.times + 1)]

TypeOK ==
    /\ job \in Jobs
    /\ row \in [running : 0..4, completed : BOOLEAN]
    /\ run \in [Starters -> Run]
    /\ item \in [Items -> Item]
    /\ up \in BOOLEAN /\ alive \in BOOLEAN /\ due \in BOOLEAN
    /\ triggered \in BOOLEAN
    /\ said \in {Excused, 0, 1, 2}
    /\ met \in BOOLEAN /\ mute \in BOOLEAN

NoRow == [running |-> 0, completed |-> FALSE]

Init ==
    /\ job \in Jobs
    /\ row = NoRow
    /\ run = [s \in Starters |-> Over]
    /\ item = [i \in Items |-> [when |-> "to come", rested |-> TRUE, marks |-> 0,
                                told |-> 0]]
    /\ up = TRUE /\ alive = TRUE /\ due = FALSE /\ triggered = FALSE
    /\ said = 0 /\ met = FALSE /\ mute = FALSE

-----------------------------------------------------------------------------
(* Claiming a key and closing its row.                                     *)

Busy(s) == run[s].at # None

\* Mutant: a run under way is not one.
CompletedOnly == row.completed

\* record_job_run finds a run of this key.
Taken == row.running > 0 \/ row.completed

MayStart(s) ==
    CASE s = "loop" -> alive /\ due
      [] s = "hand" -> J.hand = "claims"
      [] s = "aid"  -> triggered

\* Once begun, the loop waits for its next time; the scheduled refresh is one
\* task.
Begun(s) ==
    /\ due' = (due /\ s # "loop")
    /\ triggered' = (triggered /\ s # "aid")
    /\ UNCHANGED <<up, alive>>

\* It looks for a run of the key: there is one, and it returns ...
Refused(s) ==
    /\ up /\ ~Busy(s) /\ MayStart(s) /\ Taken
    /\ Begun(s)
    /\ UNCHANGED <<job, row, run, item, History>>

\* ... or there is none ...
Look(s) ==
    /\ up /\ ~Busy(s) /\ MayStart(s) /\ ~Taken
    /\ run' = [run EXCEPT ![s].at = Looked]
    /\ Begun(s)
    /\ UNCHANGED <<job, row, item, History>>

\* ... and it inserts its own, whatever was inserted in the meantime.
Claimed == [row EXCEPT !.running = @ + 1]

\* A run gets under way.
UnderWay(s, free) ==
    /\ run' = [run EXCEPT ![s].at = 1, ![s].free = free]
    /\ met' = (met \/ (job \in MarkFirst /\ \E t \in Starters \ {s} : Busy(t)))
    /\ UNCHANGED <<job, item, mute>>

Claim(s) ==
    /\ up /\ run[s].at = Looked
    /\ row' = IF run[s].old THEN row ELSE Claimed
    /\ said' = IF Taken /\ ~run[s].old THEN Excused ELSE said
    /\ UnderWay(s, FALSE)
    /\ UNCHANGED <<Machine, due>>

\* A start by hand that claims nothing; or the database refused the claim,
\* and the job runs all the same.
StartFree ==
    /\ up /\ ~Busy("hand") /\ J.hand = "free"
    /\ UnderWay("hand", TRUE)
    /\ said' = Excused
    /\ UNCHANGED <<Machine, due, row>>

ClaimFails(s) ==
    /\ up /\ run[s].at = Looked
    /\ UnderWay(s, FALSE)
    /\ said' = Excused
    /\ UNCHANGED <<Machine, due, row>>

\* complete_job_run: the latest row that is running is closed, if there is one.
Closed(status) ==
    IF row.running = 0 THEN row
    ELSE [running |-> row.running - 1,
          completed |-> row.completed \/ status = "completed"]

\* A refresh the console runs is recorded as completed, when it is over.
Ended(s, status) ==
    CASE run[s].old              -> row
      [] run[s].free /\ ~run[s].old ->
             [row EXCEPT !.completed = @ \/ (job = Refresh /\ s = "hand")]
      [] OTHER                   -> Closed(status)

-----------------------------------------------------------------------------
(* The steps of a run.                                                     *)

At(s) == J.steps[run[s].at]

Stepping(s) == up /\ run[s].at \in 1..Len(J.steps)

Next1(s) == run[s].at + 1

\* Where "over" goes.
To(s) == IF At(s).to = 0 THEN Next1(s) ELSE At(s).to

Due == {i \in Items : item[i].when = "now" /\ item[i].rested
                        /\ item[i].marks < J.times}

Same == UNCHANGED <<job, row, Machine, due, met>>

DoWork(s) ==
    /\ Stepping(s) /\ At(s).do = "work"
    /\ run' = [run EXCEPT ![s].at = Next1(s)]
    /\ UNCHANGED <<item, said, mute>> /\ Same

DoLook(s) ==
    /\ Stepping(s) /\ At(s).do = "look" /\ Due # {}
    /\ run' = [run EXCEPT ![s].at = Next1(s), ![s].batch = Due,
                          ![s].left = Due]
    /\ UNCHANGED <<item, said, mute>> /\ Same

DoEach(s) ==
    /\ Stepping(s) /\ At(s).do \in {"each", "back"}
    /\ IF At(s).do = "back" \/ run[s].left = {}
          THEN run' = [run EXCEPT ![s].at = To(s)]
          ELSE \E i \in run[s].left :
                 run' = [run EXCEPT ![s].at = Next1(s), ![s].batch = {i},
                                    ![s].left = @ \ {i}]
    /\ UNCHANGED <<item, said, mute>> /\ Same

\* Counts stop at their bounds.
OneMore(n, most) == IF n < most THEN n + 1 ELSE most

Told(i) == [item[i] EXCEPT !.told = OneMore(@, J.times + 1)]

Marked(i) == [item[i] EXCEPT !.marks = OneMore(@, J.times),
                             !.rested = (J.times = 1)]

\* A post counts once in a run.
Posted(s) ==
    /\ run' = [run EXCEPT ![s].at = Next1(s), ![s].told = TRUE]
    /\ said' = IF said = Excused \/ run[s].told \/ run[s].old THEN said
               ELSE OneMore(said, 2)

DoPost(s) ==
    /\ Stepping(s) /\ At(s).do = "post"
    /\ Posted(s)
    /\ item' = [i \in Items |-> IF i \in run[s].batch THEN Told(i)
                                ELSE item[i]]
    /\ UNCHANGED mute /\ Same

\* What it was about is not told, or not in full.
Untold(s) ==
    /\ At(s).do = "post" /\ run[s].batch # {}
    /\ job \notin MarkFirst

PostCut(s) ==
    /\ Stepping(s) /\ "cut" \in At(s).or
    /\ Posted(s)
    /\ \E some \in SUBSET run[s].batch :
          item' = [i \in Items |-> IF i \in some THEN Told(i) ELSE item[i]]
    /\ mute' = (mute \/ Untold(s))
    /\ Same

DoMark(s) ==
    /\ Stepping(s) /\ At(s).do = "mark"
    /\ run' = [run EXCEPT ![s].at = Next1(s)]
    /\ item' = [i \in Items |-> IF i \in run[s].batch THEN Marked(i)
                                ELSE item[i]]
    /\ UNCHANGED <<said, mute>> /\ Same

DoMarkEach(s) ==
    /\ Stepping(s) /\ At(s).do = "markeach"
    /\ \E i \in run[s].left :
          /\ item' = [item EXCEPT ![i] = Marked(i)]
          /\ run' = [run EXCEPT ![s].left = @ \ {i},
                                ![s].at = IF run[s].left = {i} THEN Next1(s)
                                          ELSE @]
    /\ UNCHANGED <<said, mute>> /\ Same

\* The other ways, but for exceptions.
Otherwise(s, how) == /\ Stepping(s) /\ how \in At(s).or
                     /\ At(s).do = "look" => Due = {}

\* Without a channel the post is left out.
GoOver(s) ==
    /\ Otherwise(s, "over")
    /\ run' = [run EXCEPT ![s].at = To(s)]
    /\ mute' = (mute \/ Untold(s))
    /\ UNCHANGED <<item, said>> /\ Same

Quit(s) ==
    /\ Otherwise(s, "quit")
    /\ run' = [run EXCEPT ![s] = Over]
    /\ UNCHANGED <<item, said, mute>> /\ Same

NothingToDo(s) ==
    /\ Otherwise(s, "done")
    /\ run' = [run EXCEPT ![s].at = End]
    /\ UNCHANGED <<item, said, mute>> /\ Same

\* An exception. A loop that nothing catches it for dies, or is run again if
\* the library takes it for a lost connection. A run closed as failed, one
\* whose exception has no text as completed, may be followed by another with
\* the same key.
Raise(s) ==
    /\ Stepping(s) /\ "fail" \in At(s).or
    /\ run' = [run EXCEPT ![s] = IF J.onError = "completed"
                                 THEN [@ EXCEPT !.at = End] ELSE Over]
    /\ \/ /\ J.onError = "failed"
          /\ \E status \in {"failed", "completed"} : row' = Ended(s, status)
          /\ said' = IF run[s].told /\ ~run[s].old THEN Excused ELSE said
       \/ /\ J.onError # "failed"
          /\ UNCHANGED <<row, said>>
    /\ IF J.onError = "dies" /\ s = "loop"
          THEN \E retry \in BOOLEAN : alive' = retry /\ due' = (due \/ retry)
          ELSE UNCHANGED <<alive, due>>
    /\ UNCHANGED <<job, item, up, triggered, met, mute>>

\* The run is completed, or completing it fails and it stays as it is.
Complete(s) ==
    /\ up /\ run[s].at = End
    /\ row' = Ended(s, "completed")
    /\ run' = [run EXCEPT ![s] = Over]
    /\ UNCHANGED <<job, item, Machine, due, History>>

CompleteFails(s) ==
    /\ up /\ run[s].at = End
    /\ run' = [run EXCEPT ![s] = Over]
    /\ UNCHANGED <<job, row, item, Machine, due, History>>

-----------------------------------------------------------------------------
(* The steward's health check, finding the knowledge stale, asks whether   *)
(* the refresh ran today. Asking claims the key.                           *)
AskRefresh ==
    /\ up /\ job = Refresh /\ ~Taken /\ ~triggered /\ ~Busy("aid")
    /\ row' = Claimed
    /\ triggered' = TRUE
    /\ UNCHANGED <<job, run, item, up, alive, due, History>>

(* Time, people and the process.                                           *)

\* Mutant: the key leaves the date out.
SameKey == row

\* Rows of the keys before are not looked at again.
NextRows == NoRow

\* A loop whose time comes while the process is down misses it.
NewPeriod ==
    /\ row' = NextRows
    /\ run' = [s \in Starters |-> [run[s] EXCEPT !.old = Busy(s)]]
    /\ due' = up
    /\ said' = 0
    /\ UNCHANGED <<job, item, Machine, met, mute>>

Arrive(i) ==
    /\ item[i].when = "to come"
    /\ item' = [item EXCEPT ![i].when = "now"]
    /\ UNCHANGED <<job, row, run, Machine, due, History>>

\* Some are due for a week, and then never again.
Lapse(i) ==
    /\ job \in Windowed /\ i \in Due
    /\ item' = [item EXCEPT ![i].when = "past"]
    /\ UNCHANGED <<job, row, run, Machine, due, History>>

\* Two days after a ping, or when the cooldown is over, it may come again.
Rest(i) ==
    /\ ~item[i].rested
    /\ item' = [item EXCEPT ![i].rested = TRUE]
    /\ UNCHANGED <<job, row, run, Machine, due, History>>

Crash ==
    /\ up
    /\ up' = FALSE
    /\ run' = [s \in Starters |-> Over]
    /\ due' = FALSE /\ triggered' = FALSE
    /\ UNCHANGED <<job, row, item, alive, History>>

\* The time of day may be still to come.
Restart ==
    /\ ~up
    /\ up' = TRUE /\ alive' = TRUE
    /\ due' \in {TRUE, (job \in Intervals)}
    /\ UNCHANGED <<job, row, run, item, triggered, History>>

Begin(s) == Refused(s) \/ Look(s) \/ Claim(s) \/ ClaimFails(s)

Proceed(s) ==
    \/ DoWork(s) \/ DoLook(s) \/ DoEach(s) \/ DoPost(s)
    \/ DoMark(s) \/ DoMarkEach(s) \/ Complete(s)

Falter(s) ==
    \/ PostCut(s) \/ GoOver(s) \/ Quit(s)
    \/ NothingToDo(s) \/ Raise(s) \/ CompleteFails(s)

Next ==
    \/ \E s \in Starters : Begin(s) \/ Proceed(s) \/ Falter(s)
    \/ StartFree \/ AskRefresh
    \/ NewPeriod \/ Crash \/ Restart
    \/ \E i \in Items : Arrive(i) \/ Lapse(i) \/ Rest(i)

Spec == Init /\ [][Next]_vars

\* A loop whose time comes starts, now and then before anybody else; what a
\* step waits for, a model, a channel, the web, is there time and again; the
\* process is started again when it ends, and is up, time and again, when the
\* job's time comes.
Progress(s) ==
    /\ SF_vars(Look(s)) /\ SF_vars(Claim(s))
    /\ \A k \in 1..5 : SF_vars(run[s].at = k /\ Proceed(s))
    /\ WF_vars(Complete(s) \/ CompleteFails(s))

Fairness ==
    /\ WF_vars(Restart)
    /\ SF_vars(up /\ NewPeriod)
    /\ Progress("loop")

FairSpec == Spec /\ Fairness

-----------------------------------------------------------------------------
(* Properties.                                                             *)

\* What one key brings is said once, by a loop and people at once and through
\* crashes and restarts, but for the ways the code leaves open: two starts that
\* both look before either inserts, a claim the database refused, a start that
\* claims nothing, and a run closed as failed after it had posted.
\* (database.py record_job_run and complete_job_run, and every script.)
SaidOnce == said < 2

\* Jobs that mark an item first never post about it twice, whatever fails in
\* between, unless two runs overlap: an opportunity is reported, a gap or a task
\* escalated and a cancellation announced at most once.
NeverTwice ==
    ~met /\ job \in MarkFirst => \A i \in Items : item[i].told <= item[i].marks

\* The others mark an item after they posted about it: a question that counts
\* as pinged was pinged as often, an update marked as used was read out, a
\* dashboard that is on record was sent, unless there was no channel to post to
\* or the message had no room for it.
NeverLost ==
    job \notin MarkFirst /\ ~mute =>
        \A i \in Items : item[i].marks <= item[i].told

\* Whatever there is to post about is taken up, however many runs quit early,
\* fail, or are cut off and stay 'running', for every job whose loop survives an
\* exception, unless it is due for a time only.
Looks == \E k \in 1..Len(J.steps) : J.steps[k].do = "look"

TakenUp ==
    \A i \in Items :
        item[i].when = "now" /\ J.onError # "dies" /\ Looks
            ~> item[i].marks > 0 \/ item[i].when = "past"

=============================================================================
