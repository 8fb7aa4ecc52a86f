------------------------ MODULE JobsAndBreakerProofs ------------------------
(***************************************************************************)
(* Two components that run by themselves and share nothing: the scheduled  *)
(* jobs (ScheduledJobs) and a circuit breaker (CircuitBreaker).            *)
(*                                                                         *)
(* For every set of items and every job, one key is spoken for once but    *)
(* for the ways the code leaves open, what is marked first is posted about *)
(* once, and nothing counts as posted about that was not. The arguments    *)
(* rest on two shapes that the scripts have, and each script is shown to   *)
(* have its own.                                                           *)
(*                                                                         *)
(* For every set of callers and every choice of thresholds, a breaker      *)
(* never carries a count over from an earlier episode, trips only on       *)
(* consecutive failures, and closes by itself only on successes that no    *)
(* failure came after or shortly before.                                   *)
(***************************************************************************)
EXTENDS ScheduledJobs, CircuitBreaker, TLAPS

-----------------------------------------------------------------------------
(* What the scripts have in common.                                        *)

\* Every script ends, goes nowhere else, and cuts short nothing but a post.
WellFormed(j) ==
    /\ j.times \in Nat \ {0}
    /\ Len(j.steps) \in 1..7
    /\ \A k \in 1..Len(j.steps) :
         /\ j.steps[k].to \in 0..Len(j.steps) + 1
         /\ "cut" \in j.steps[k].or => j.steps[k].do = "post"

\* The only way to a mark is a post, which comes right before it.
MarksAfterPosting(j) ==
    \A k \in 1..Len(j.steps) :
       /\ j.steps[k].do # "markeach"
       /\ j.steps[k].do = "mark" =>
            /\ k > 1 /\ j.steps[k - 1].do = "post"
            /\ \A l \in 1..Len(j.steps) : j.steps[l].to # k

\* Look, mark, post: nothing is posted about that is not marked, and only what
\* finds nothing goes past the mark.
PostPlace(j) == IF Len(j.steps) = 5 THEN 4 ELSE 3

PostsAfterMarking(j) ==
    LET p == PostPlace(j) IN
    /\ j.times = 1
    /\ p <= Len(j.steps)
    /\ \A k \in 1..Len(j.steps) :
         /\ j.steps[k].do \in {"work", "look", "mark", "markeach", "post"}
         /\ j.steps[k].do = "look" <=> k = p - 2
         /\ j.steps[k].do = "post" <=> k = p
         /\ j.steps[k].do \in {"mark", "markeach"} <=> k = p - 1
         /\ j.steps[k].to # 0 => k = p - 2 /\ j.steps[k].to >= p
    /\ j.steps[p - 1].or \subseteq {"fail"}

\* An announcement is one message after some work.
Announces(j) ==
    /\ j.times = 1
    /\ Len(j.steps) \in 1..3
    /\ \A k \in 1..Len(j.steps) :
         /\ j.steps[k].do \in {"work", "post"}
         /\ j.steps[k].to = 0
         /\ "cut" \notin j.steps[k].or

LEMMA Announcements ==
    \A j \in {monthly_partners_meeting, monday_planning_kickoff,
              friday_closeout, daily_digest, end_of_week_reflection,
              weekly_strategic_review, daily_scout_search,
              daily_knowledge_refresh, dreamer_ideation_cycle,
              rainmaker_morning_pipeline, rainmaker_follow_up_nudges,
              rainmaker_weekly_cold_review, rainmaker_past_client_checkin,
              steward_daily_health_check, steward_weekly_self_assessment,
              steward_learning_loop_audit, curator_daily_scan,
              curator_weekly_deep_analysis, curator_corpus_interrogation,
              hourly_persona_meeting, gap_hygiene_sweep, gap_reminder,
              weekly_action_checkin, daily_top3} :
       Announces(j)
  BY DEF Announces, Announcement, Job, Step, Work, Post,
         monthly_partners_meeting, monday_planning_kickoff, friday_closeout,
         daily_digest, end_of_week_reflection, weekly_strategic_review,
         daily_scout_search, daily_knowledge_refresh,
         dreamer_ideation_cycle, rainmaker_morning_pipeline,
         rainmaker_follow_up_nudges, rainmaker_weekly_cold_review,
         rainmaker_past_client_checkin, steward_daily_health_check,
         steward_weekly_self_assessment, steward_learning_loop_audit,
         curator_daily_scan, curator_weekly_deep_analysis,
         curator_corpus_interrogation, hourly_persona_meeting,
         gap_hygiene_sweep, gap_reminder, weekly_action_checkin, daily_top3

LEMMA EachScript ==
    ASSUME NEW j \in Jobs
    PROVE  \/ /\ j \notin MarkFirst
              /\ Script[j] \in
                   {monthly_partners_meeting, monday_planning_kickoff,
                    friday_closeout, daily_digest, end_of_week_reflection,
                    weekly_strategic_review, daily_scout_search,
                    daily_knowledge_refresh, dreamer_ideation_cycle,
                    rainmaker_morning_pipeline, rainmaker_follow_up_nudges,
                    rainmaker_weekly_cold_review,
                    rainmaker_past_client_checkin,
                    steward_daily_health_check,
                    steward_weekly_self_assessment,
                    steward_learning_loop_audit, curator_daily_scan,
                    curator_weekly_deep_analysis,
                    curator_corpus_interrogation, hourly_persona_meeting,
                    gap_hygiene_sweep, gap_reminder, weekly_action_checkin,
                    daily_top3}
           \/ j = "question_watchdog" /\ Script[j] = question_watchdog
           \/ j = "weekly_dashboard_update" /\ Script[j] = weekly_dashboard_update
           \/ j = "thursday_async_meeting" /\ Script[j] = thursday_async_meeting
           \/ j = "scout_background_crawl" /\ Script[j] = scout_background_crawl
           \/ j = "rainmaker_opportunity_hunt" /\ Script[j] = rainmaker_opportunity_hunt
           \/ j = "weekly_persona_meeting_digest" /\ Script[j] = weekly_persona_meeting_digest
           \/ j = "archivist_shelf_check" /\ Script[j] = archivist_shelf_check
           \/ j = "bounty_board_post" /\ Script[j] = bounty_board_post
           \/ j = "thursday_partner_prompt" /\ Script[j] = thursday_partner_prompt
           \/ j = "weekly_gap_escalation_check" /\ Script[j] = weekly_gap_escalation_check
           \/ j = "weekly_escalation_check" /\ Script[j] = weekly_escalation_check
           \/ j = "daily_stale_sweep" /\ Script[j] = daily_stale_sweep
  BY DEF Jobs, Script, MarkFirst

\* Jobs that mark first post about what they marked, and the others mark what
\* they posted about (every script of cogs/AutonomousOps.py and its mixins).
LEMMA ScriptShapes ==
    ASSUME NEW j \in Jobs
    PROVE  /\ WellFormed(Script[j])
           /\ j \in MarkFirst => PostsAfterMarking(Script[j])
           /\ j \notin MarkFirst => MarksAfterPosting(Script[j])
<1> DEFINE Shape == /\ WellFormed(Script[j])
                    /\ j \in MarkFirst => PostsAfterMarking(Script[j])
                    /\ j \notin MarkFirst => MarksAfterPosting(Script[j])
<1>1. ASSUME j \notin MarkFirst, Announces(Script[j]) PROVE Shape
  BY <1>1 DEF Announces, WellFormed, MarksAfterPosting
<1>2. CASE j = "question_watchdog" /\ Script[j] = question_watchdog
  BY <1>2, JobsAssumption
     DEF question_watchdog, WellFormed, MarksAfterPosting,
         Job, Step, StepTo, Work, Post, Mark, MarkFirst
<1>3. CASE j = "weekly_dashboard_update" /\ Script[j] = weekly_dashboard_update
  BY <1>3, JobsAssumption
     DEF weekly_dashboard_update, WellFormed, MarksAfterPosting,
         Job, Step, StepTo, Work, Post, Mark, MarkFirst
<1>4. CASE j = "thursday_async_meeting" /\ Script[j] = thursday_async_meeting
  BY <1>4, JobsAssumption
     DEF thursday_async_meeting, WellFormed, MarksAfterPosting,
         Job, Step, StepTo, Work, Post, Mark, MarkFirst
<1>5. CASE j = "scout_background_crawl" /\ Script[j] = scout_background_crawl
  BY <1>5 DEF scout_background_crawl, WellFormed, PostsAfterMarking, PostPlace,
          Job, Step, StepTo, Work, Post, Mark, MarkFirst
<1>6. CASE j = "rainmaker_opportunity_hunt" /\ Script[j] = rainmaker_opportunity_hunt
  BY <1>6 DEF rainmaker_opportunity_hunt, WellFormed, PostsAfterMarking, PostPlace,
          Job, Step, StepTo, Work, Post, Mark, MarkFirst
<1>7. CASE j = "weekly_persona_meeting_digest" /\ Script[j] = weekly_persona_meeting_digest
  BY <1>7, JobsAssumption
     DEF weekly_persona_meeting_digest, WellFormed, MarksAfterPosting,
         Job, Step, StepTo, Work, Post, Mark, MarkFirst
<1>8. CASE j = "archivist_shelf_check" /\ Script[j] = archivist_shelf_check
  BY <1>8, JobsAssumption
     DEF archivist_shelf_check, WellFormed, MarksAfterPosting,
         Job, Step, StepTo, Work, Post, Mark, MarkFirst
<1>9. CASE j = "bounty_board_post" /\ Script[j] = bounty_board_post
  BY <1>9, JobsAssumption
     DEF bounty_board_post, WellFormed, MarksAfterPosting,
         Job, Step, StepTo, Work, Post, Mark, MarkFirst
<1>10. CASE j = "thursday_partner_prompt" /\ Script[j] = thursday_partner_prompt
  BY <1>10, JobsAssumption
     DEF thursday_partner_prompt, WellFormed, MarksAfterPosting,
         Job, Step, StepTo, Work, Post, Mark, MarkFirst
<1>11. CASE j = "weekly_gap_escalation_check" /\ Script[j] = weekly_gap_escalation_check
  BY <1>11 DEF weekly_gap_escalation_check, WellFormed, PostsAfterMarking, PostPlace,
          Job, Step, StepTo, Work, Post, Mark, MarkFirst
<1>12. CASE j = "weekly_escalation_check" /\ Script[j] = weekly_escalation_check
  BY <1>12 DEF weekly_escalation_check, WellFormed, PostsAfterMarking, PostPlace,
          Job, Step, StepTo, Work, Post, Mark, MarkFirst
<1>13. CASE j = "daily_stale_sweep" /\ Script[j] = daily_stale_sweep
  BY <1>13 DEF daily_stale_sweep, WellFormed, PostsAfterMarking, PostPlace,
          Job, Step, StepTo, Work, Post, Mark, MarkFirst
<1> QED
  BY <1>1, <1>2, <1>3, <1>4, <1>5, <1>6, <1>7,
     <1>8, <1>9, <1>10, <1>11, <1>12, <1>13,
     Announcements, EachScript

-----------------------------------------------------------------------------
(* Types.                                                                  *)

\* A start that has looked for a run of its key and not yet inserted one.
Looking(s) == IF run[s].at = Looked /\ ~run[s].old THEN 1 ELSE 0

\* What has looked may still claim: with those, four rows at most are running.
RowsBounded ==
    row.running + Looking("loop") + Looking("hand") + Looking("aid") <= 4

\* Who is not under way carries nothing.
Idle ==
    \A s \in Starters :
       /\ run[s].at = None => run[s] = Over
       /\ run[s].at = Looked => run[s].batch = {} /\ ~run[s].told /\ ~run[s].free

Typed == TypeOK /\ RowsBounded /\ Idle

Started(s) == run[s].at > 0

Rows == [running : 0..4, completed : BOOLEAN]

LEMMA OverIsRun ==
    /\ Over \in Run /\ Over.at = 0 /\ Over.batch = {} /\ ~Over.told
    /\ Over.old = FALSE /\ ~Over.free
  BY DEF Over, Run, None

\* How many steps the job has.
Length == Len(J.steps)

LEMMA ScriptOfJob ==
    ASSUME TypeOK
    PROVE  /\ J.times \in Nat \ {0}
           /\ Length \in 1..7
           /\ End \in 2..8 /\ End = Length + 1
           /\ \A k \in 1..Length :
                /\ J.steps[k].to \in 0..End
                /\ "cut" \in J.steps[k].or => J.steps[k].do = "post"
<1>1. WellFormed(J)
  BY ScriptShapes DEF TypeOK, J
<1>2. /\ J.times \in Nat \ {0} /\ Length \in 1..7
      /\ \A k \in 1..Length :
           /\ J.steps[k].to \in 0..Length + 1
           /\ "cut" \in J.steps[k].or => J.steps[k].do = "post"
  BY <1>1 DEF WellFormed, Length
<1>3. End = Length + 1
  BY DEF End, Length
<1> QED
  BY <1>2, <1>3

\* Where a step leads.
LEMMA Places ==
    ASSUME TypeOK, NEW s \in Starters, Stepping(s)
    PROVE  /\ up /\ run[s] \in Run /\ run[s].at \in 1..Length /\ Started(s)
           /\ Next1(s) \in 1..8 /\ Next1(s) = run[s].at + 1
           /\ To(s) \in 1..8 /\ End \in 1..8
           /\ To(s) = IF At(s).to = 0 THEN Next1(s) ELSE At(s).to
<1>1. up /\ run[s].at \in 1..Length /\ run[s] \in Run
  BY DEF Stepping, TypeOK, Length
<1>2. At(s).to \in 0..8
  <2>1. At(s).to \in 0..End
    BY <1>1, ScriptOfJob DEF At
  <2> QED
    BY <2>1, ScriptOfJob
<1>3. Next1(s) = run[s].at + 1 /\ To(s) = IF At(s).to = 0 THEN Next1(s) ELSE At(s).to
  BY DEF Next1, To
<1> QED
  BY <1>1, <1>2, <1>3, ScriptOfJob DEF Started

\* What a step of a run does to the runs: it goes on or is over.
GoesOn(s) ==
    /\ Started(s) /\ up
    /\ run' \in [Starters -> Run]
    /\ \A t \in Starters : t # s => run'[t] = run[t]
    /\ \/ run'[s] = Over
       \/ /\ run'[s].at \in 1..8
          /\ run'[s].old = run[s].old /\ run'[s].free = run[s].free
          /\ run[s].told => run'[s].told

LEMMA MovedGoesOn ==
    ASSUME TypeOK, NEW s \in Starters, up, Started(s), NEW r \in Run,
           run' = [run EXCEPT ![s] = r],
           \/ r = Over
           \/ /\ r.at \in 1..8 /\ r.old = run[s].old /\ r.free = run[s].free
              /\ run[s].told => r.told
    PROVE  GoesOn(s)
  BY DEF GoesOn, TypeOK

\* A run that only goes to another place.
LEMMA WalkGoesOn ==
    ASSUME TypeOK, NEW s \in Starters, Stepping(s), NEW k \in 1..8,
           run' = [run EXCEPT ![s].at = k]
    PROVE  /\ GoesOn(s)
           /\ run'[s].at = k /\ run'[s].batch = run[s].batch
           /\ run'[s].left = run[s].left
<1> DEFINE q == run[s]
           r == [q EXCEPT !.at = k]
<1>1. run' = [run EXCEPT ![s] = r] /\ q \in Run /\ q = run[s]
  BY Places
<1> HIDE DEF q
<1>2. /\ r \in Run /\ r.at = k /\ r.batch = q.batch /\ r.left = q.left
      /\ r.told = q.told /\ r.old = q.old /\ r.free = q.free
  BY <1>1 DEF Run
<1> HIDE DEF r
<1>3. GoesOn(s)
  BY <1>1, <1>2, Places, MovedGoesOn
<1>4. run'[s] = r
  BY <1>1 DEF TypeOK
<1> QED
  BY <1>1, <1>2, <1>3, <1>4

LEMMA PostedGoesOn ==
    ASSUME TypeOK, NEW s \in Starters, Stepping(s), Posted(s)
    PROVE  /\ GoesOn(s)
           /\ run'[s].at = Next1(s) /\ run'[s].batch = run[s].batch
           /\ run'[s].told
<1> DEFINE q == run[s]
           o == [q EXCEPT !.at = Next1(s)]
           r == [o EXCEPT !.told = TRUE]
<1>1. run' = [run EXCEPT ![s] = r] /\ q \in Run /\ q = run[s] /\ Next1(s) \in 1..8
  BY Places DEF Posted
<1> HIDE DEF q
<1>2. /\ o \in Run /\ o.at = Next1(s) /\ o.batch = q.batch /\ o.left = q.left
      /\ o.told = q.told /\ o.old = q.old /\ o.free = q.free
  BY <1>1 DEF Run
<1> HIDE DEF o
<1>3. /\ r \in Run /\ r.at = o.at /\ r.batch = o.batch /\ r.left = o.left
      /\ r.told /\ r.old = o.old /\ r.free = o.free
  BY <1>2 DEF Run
<1> HIDE DEF r
<1>4. GoesOn(s)
  BY <1>1, <1>2, <1>3, Places, MovedGoesOn
<1>5. run'[s] = r
  BY <1>1 DEF TypeOK
<1> QED
  BY <1>1, <1>2, <1>3, <1>4, <1>5

\* A run that takes up items.
LEMMA BatchGoesOn ==
    ASSUME TypeOK, NEW s \in Starters, Stepping(s), NEW b \in SUBSET Items,
           NEW l \in SUBSET Items,
           run' = [run EXCEPT ![s].at = Next1(s), ![s].batch = b, ![s].left = l]
    PROVE  /\ GoesOn(s)
           /\ run'[s].at = Next1(s) /\ run'[s].batch = b /\ run'[s].left = l
<1> DEFINE q == run[s]
           n == [q EXCEPT !.at = Next1(s)]
           o == [n EXCEPT !.batch = b]
           r == [o EXCEPT !.left = l]
<1>1. run' = [run EXCEPT ![s] = r] /\ q \in Run /\ q = run[s] /\ Next1(s) \in 1..8
  BY Places
<1> HIDE DEF q
<1>2. /\ n \in Run /\ n.at = Next1(s)
      /\ n.told = q.told /\ n.old = q.old /\ n.free = q.free
  BY <1>1 DEF Run
<1> HIDE DEF n
<1>3. /\ o \in Run /\ o.at = n.at /\ o.batch = b
      /\ o.told = n.told /\ o.old = n.old /\ o.free = n.free
  BY <1>2 DEF Run
<1> HIDE DEF o
<1>4. /\ r \in Run /\ r.at = o.at /\ r.batch = o.batch /\ r.left = l
      /\ r.told = o.told /\ r.old = o.old /\ r.free = o.free
  BY <1>3 DEF Run
<1> HIDE DEF r
<1>5. GoesOn(s)
  <2>1. /\ r.at \in 1..8 /\ r.old = run[s].old /\ r.free = run[s].free
        /\ r.told = run[s].told
    BY <1>1, <1>2, <1>3, <1>4
  <2> QED
    BY <1>1, <1>4, <2>1, Places, MovedGoesOn
<1>6. run'[s] = r
  BY <1>1 DEF TypeOK
<1> QED
  BY <1>1, <1>2, <1>3, <1>4, <1>5, <1>6

\* A run that is done with an item, and with its batch after the last.
LEMMA LeftGoesOn ==
    ASSUME TypeOK, NEW s \in Starters, Stepping(s), NEW i \in run[s].left,
           run' = [run EXCEPT ![s].left = @ \ {i},
                              ![s].at = IF run[s].left = {i} THEN Next1(s) ELSE @]
    PROVE  /\ GoesOn(s)
           /\ run'[s].batch = run[s].batch /\ run'[s].left = run[s].left \ {i}
           /\ run'[s].at = IF run[s].left = {i} THEN Next1(s) ELSE run[s].at
<1> DEFINE q == run[s]
           k == IF q.left = {i} THEN Next1(s) ELSE q.at
           l == q.left \ {i}
           o == [q EXCEPT !.left = l]
           r == [o EXCEPT !.at = k]
<1>1. /\ run' = [run EXCEPT ![s] = r] /\ q \in Run /\ q = run[s]
      /\ Next1(s) \in 1..8 /\ q.at > 0
  BY Places DEF Started
<1> HIDE DEF q
<1>2. k \in 1..8 /\ l \in SUBSET Items
  BY <1>1 DEF Run
<1>3. /\ k = IF q.left = {i} THEN Next1(s) ELSE q.at
      /\ l = q.left \ {i}
  OBVIOUS
<1> HIDE DEF k, l
<1>4. /\ o \in Run /\ o.batch = q.batch /\ o.left = l
      /\ o.told = q.told /\ o.old = q.old /\ o.free = q.free
  BY <1>1, <1>2 DEF Run
<1> HIDE DEF o
<1>5. /\ r \in Run /\ r.at = k /\ r.batch = o.batch /\ r.left = o.left
      /\ r.told = o.told /\ r.old = o.old /\ r.free = o.free
  BY <1>2, <1>4 DEF Run
<1> HIDE DEF r
<1>6. GoesOn(s)
  <2>1. /\ r.at \in 1..8 /\ r.old = run[s].old /\ r.free = run[s].free
        /\ r.told = run[s].told
    BY <1>1, <1>2, <1>4, <1>5
  <2> QED
    BY <1>1, <1>5, <2>1, Places, MovedGoesOn
<1>7. run'[s] = r
  BY <1>1 DEF TypeOK
<1> QED
  BY <1>1, <1>3, <1>4, <1>5, <1>6, <1>7

LEMMA ProceedGoesOn ==
    ASSUME TypeOK, NEW s \in Starters, Proceed(s)
    PROVE  GoesOn(s) /\ UNCHANGED <<job, up, alive, due, triggered, met, mute>>
<1>1. CASE DoWork(s) \/ DoMark(s)
  <2>1. run' = [run EXCEPT ![s].at = Next1(s)] /\ Stepping(s)
    BY <1>1 DEF DoWork, DoMark
  <2>2. GoesOn(s)
    BY <2>1, Places, WalkGoesOn
  <2> QED
    BY <1>1, <2>2 DEF DoWork, DoMark, Same, Machine
<1>2. CASE DoLook(s)
  <2>1. Due \in SUBSET Items /\ Stepping(s)
    BY <1>2 DEF Due, DoLook
  <2>2. run' = [run EXCEPT ![s].at = Next1(s), ![s].batch = Due, ![s].left = Due]
    BY <1>2 DEF DoLook
  <2>3. GoesOn(s)
    BY <2>1, <2>2, BatchGoesOn
  <2> QED
    BY <1>2, <2>3 DEF DoLook, Same, Machine
<1>3. CASE DoEach(s)
  <2>0. Stepping(s)
    BY <1>3 DEF DoEach
  <2>1. ASSUME run' = [run EXCEPT ![s].at = To(s)] PROVE GoesOn(s)
    BY <2>0, <2>1, Places, WalkGoesOn
  <2>2. ASSUME NEW i \in run[s].left,
               run' = [run EXCEPT ![s].at = Next1(s), ![s].batch = {i},
                                  ![s].left = @ \ {i}]
        PROVE  GoesOn(s)
    <3>1. {i} \in SUBSET Items /\ run[s].left \ {i} \in SUBSET Items
      BY <2>0, <2>2, Places DEF Run
    <3>2. run' = [run EXCEPT ![s].at = Next1(s), ![s].batch = {i},
                             ![s].left = run[s].left \ {i}]
      BY <2>2
    <3> QED
      BY <2>0, <3>1, <3>2, BatchGoesOn
  <2>3. GoesOn(s)
    BY <1>3, <2>1, <2>2 DEF DoEach
  <2> QED
    BY <1>3, <2>3 DEF DoEach, Same, Machine
<1>4. CASE DoPost(s)
  <2>1. Stepping(s) /\ Posted(s)
    BY <1>4 DEF DoPost
  <2>2. GoesOn(s)
    BY <2>1, PostedGoesOn
  <2> QED
    BY <1>4, <2>2 DEF DoPost, Same, Machine
<1>5. CASE DoMarkEach(s)
  <2>0. Stepping(s)
    BY <1>5 DEF DoMarkEach
  <2> PICK i \in run[s].left :
          run' = [run EXCEPT ![s].left = @ \ {i},
                             ![s].at = IF run[s].left = {i} THEN Next1(s) ELSE @]
    BY <1>5 DEF DoMarkEach
  <2>5. GoesOn(s)
    BY <2>0, LeftGoesOn
  <2> QED
    BY <1>5, <2>5 DEF DoMarkEach, Same, Machine
<1>6. CASE Complete(s)
  <2>1. run[s].at > 0 /\ up /\ run' = [run EXCEPT ![s] = Over]
    BY <1>6, ScriptOfJob DEF Complete
  <2>2. GoesOn(s)
    BY <2>1, OverIsRun, MovedGoesOn DEF Started
  <2> QED
    BY <1>6, <2>2 DEF Complete, Machine, History
<1> QED
  BY <1>1, <1>2, <1>3, <1>4, <1>5, <1>6 DEF Proceed

LEMMA FalterGoesOn ==
    ASSUME TypeOK, NEW s \in Starters, Falter(s)
    PROVE  /\ GoesOn(s) /\ UNCHANGED <<job, up, triggered, met>>
           /\ alive' \in BOOLEAN /\ due' \in BOOLEAN /\ mute' \in BOOLEAN
           /\ mute => mute'
<1>1. CASE PostCut(s)
  <2>1. GoesOn(s)
    BY <1>1, PostedGoesOn DEF PostCut
  <2> QED
    BY <1>1, <2>1 DEF PostCut, Same, Machine, TypeOK
<1>2. CASE GoOver(s)
  <2>1. run' = [run EXCEPT ![s].at = To(s)] /\ Stepping(s)
    BY <1>2 DEF GoOver, Otherwise
  <2>2. GoesOn(s)
    BY <2>1, Places, WalkGoesOn
  <2> QED
    BY <1>2, <2>2 DEF GoOver, Same, Machine, TypeOK
<1>3. CASE Quit(s)
  <2>1. run' = [run EXCEPT ![s] = Over] /\ Stepping(s)
    BY <1>3 DEF Quit, Otherwise
  <2>2. GoesOn(s)
    BY <2>1, Places, OverIsRun, MovedGoesOn
  <2> QED
    BY <1>3, <2>2 DEF Quit, Same, Machine, TypeOK
<1>4. CASE NothingToDo(s)
  <2>1. run' = [run EXCEPT ![s].at = End] /\ Stepping(s)
    BY <1>4 DEF NothingToDo, Otherwise
  <2>2. GoesOn(s)
    BY <2>1, Places, WalkGoesOn
  <2> QED
    BY <1>4, <2>2 DEF NothingToDo, Same, Machine, TypeOK
<1>5. CASE Raise(s)
  <2>0. Stepping(s)
    BY <1>5 DEF Raise
  <2>1. GoesOn(s)
    <3>1. CASE run' = [run EXCEPT ![s] = Over]
      BY <2>0, <3>1, Places, OverIsRun, MovedGoesOn
    <3>2. CASE run' = [run EXCEPT ![s].at = End]
      BY <2>0, <3>2, Places, WalkGoesOn
    <3> QED
      BY <1>5, <3>1, <3>2 DEF Raise
  <2>2. alive' \in BOOLEAN /\ due' \in BOOLEAN
    BY <1>5 DEF Raise, TypeOK
  <2> QED
    BY <1>5, <2>1, <2>2 DEF Raise, TypeOK
<1>6. CASE CompleteFails(s)
  <2>1. run[s].at > 0 /\ up /\ run' = [run EXCEPT ![s] = Over]
    BY <1>6, ScriptOfJob DEF CompleteFails
  <2>2. GoesOn(s)
    BY <2>1, OverIsRun, MovedGoesOn DEF Started
  <2> QED
    BY <1>6, <2>2 DEF CompleteFails, Machine, History, TypeOK
<1> QED
  BY <1>1, <1>2, <1>3, <1>4, <1>5, <1>6 DEF Falter

LEMMA OneMoreRange ==
    ASSUME NEW m \in Nat, NEW n \in 0..m PROVE OneMore(n, m) \in 0..m
  BY DEF OneMore

\* Items and rows keep their ranges.
LEMMA ItemTypes ==
    ASSUME TypeOK, NEW i \in Items
    PROVE  /\ Told(i) \in Item /\ Marked(i) \in Item
           /\ Told(i).marks = item[i].marks /\ Marked(i).told = item[i].told
           /\ Told(i).told = OneMore(item[i].told, J.times + 1)
           /\ Marked(i).marks = OneMore(item[i].marks, J.times)
<1> DEFINE n == J.times
           q == item[i]
           It == [when : {"to come", "now", "past"}, rested : BOOLEAN,
                  marks : 0..n, told : 0..(n + 1)]
<1>0. n \in Nat /\ n + 1 \in Nat
  BY ScriptOfJob
<1>1. q \in It
  BY DEF TypeOK, Item
<1>2. Item = It
  BY DEF Item
<1> HIDE DEF q, n
<1> DEFINE x == OneMore(q.told, n + 1)
           y == OneMore(q.marks, n)
           m == [q EXCEPT !.marks = y]
           u == (n = 1)
<1>3. x \in 0..(n + 1) /\ y \in 0..n
  <2>1. q.told \in 0..(n + 1) /\ q.marks \in 0..n
    BY <1>1, Zenon
  <2> QED
    BY <1>0, <2>1, OneMoreRange
<1>4. u \in BOOLEAN
  OBVIOUS
<1>5. Marked(i) = [m EXCEPT !.rested = u] /\ Told(i) = [q EXCEPT !.told = x]
  BY DEF Marked, Told, q, n
<1> HIDE DEF u
<1>6. x = OneMore(q.told, n + 1) /\ y = OneMore(q.marks, n)
  OBVIOUS
<1> HIDE DEF x, y
<1>7. /\ [q EXCEPT !.told = x] \in It /\ [q EXCEPT !.told = x].marks = q.marks
      /\ [q EXCEPT !.told = x].told = x
  BY <1>1, <1>3
<1>8. m \in It /\ m.told = q.told /\ m.marks = y
  BY <1>1, <1>3
<1> HIDE DEF m
<1>9. /\ [m EXCEPT !.rested = u] \in It /\ [m EXCEPT !.rested = u].told = m.told
      /\ [m EXCEPT !.rested = u].marks = m.marks
  BY <1>4, <1>8
<1> QED
  BY <1>2, <1>5, <1>6, <1>7, <1>8, <1>9 DEF q, n

\* A row is closed, added to or left alone.
LEMMA EndedTypes ==
    ASSUME TypeOK, NEW s \in Starters, NEW st, job \in Jobs
    PROVE  Ended(s, st) \in Rows /\ Ended(s, st).running <= row.running
<1>1. row \in Rows
  BY DEF TypeOK, Rows
<1>2. Closed(st) \in Rows /\ Closed(st).running <= row.running
  BY <1>1 DEF Closed, Rows
<1> DEFINE c == (row.completed \/ (job = Refresh /\ s = "hand"))
           f == [row EXCEPT !.completed = c]
<1>3. c \in BOOLEAN
  OBVIOUS
<1> HIDE DEF c
<1>4. f \in Rows /\ f.running = row.running
  BY <1>1, <1>3 DEF Rows
<1>5. Ended(s, st) \in {row, f, Closed(st)}
  BY DEF Ended, c
<1> HIDE DEF f
<1> QED
  BY <1>1, <1>2, <1>4, <1>5 DEF Rows

LEMMA SameItems == ASSUME job' = job PROVE Item' = Item /\ J' = J
  BY DEF Item, J

\* A step of a run keeps the bound on rows, and who is idle carries nothing.
LEMMA GoesOnTyped ==
    ASSUME Typed, NEW s \in Starters, GoesOn(s), row' \in Rows,
           row'.running <= row.running
    PROVE  RowsBounded' /\ Idle'
<1>1. Idle'
  BY OverIsRun DEF GoesOn, Typed, Idle, None, Looked
<1>2. \A t \in Starters : Looking(t)' <= Looking(t) /\ Looking(t) \in 0..1
                                                  /\ Looking(t)' \in 0..1
  BY OverIsRun DEF GoesOn, Looking, Looked
<1>3. "loop" \in Starters /\ "hand" \in Starters /\ "aid" \in Starters
  BY DEF Starters
<1>4. row.running \in Nat /\ row'.running \in Nat
  BY DEF Typed, TypeOK, Rows
<1>5. RowsBounded'
  BY <1>2, <1>3, <1>4 DEF Typed, RowsBounded
<1> QED
  BY <1>1, <1>5

LEMMA PostedSays ==
    ASSUME TypeOK, NEW s \in Starters, Posted(s)
    PROVE  /\ said' \in {Excused, 0, 1, 2}
           /\ said = Excused => said' = Excused
           /\ said' # said => said # Excused /\ ~run[s].told /\ ~run[s].old
                                /\ said' = OneMore(said, 2)
  BY DEF Posted, TypeOK, OneMore, Excused

LEMMA ProceedTyped ==
    ASSUME Typed, NEW s \in Starters, Proceed(s)
    PROVE  Typed'
<1>1. GoesOn(s) /\ UNCHANGED <<job, up, alive, due, triggered, met, mute>>
  BY ProceedGoesOn DEF Typed
<1>2. Item' = Item /\ TypeOK /\ run' \in [Starters -> Run]
  BY <1>1, SameItems DEF Typed, GoesOn
<1>3. row' \in Rows /\ row'.running <= row.running
  <2>1. CASE Complete(s)
    BY <1>2, <2>1, EndedTypes DEF Complete, TypeOK
  <2>2. CASE row' = row
    BY <1>2, <2>2 DEF TypeOK, Rows
  <2> QED
    BY <2>1, <2>2
       DEF Proceed, DoWork, DoLook, DoEach, DoPost, DoMark, DoMarkEach, Same
<1>4. said' \in {Excused, 0, 1, 2}
  <2>1. CASE DoPost(s)
    BY <1>2, <2>1, PostedSays DEF DoPost
  <2>2. CASE said' = said
    BY <1>2, <2>2 DEF TypeOK
  <2> QED
    BY <2>1, <2>2
       DEF Proceed, DoWork, DoLook, DoEach, DoMark, DoMarkEach, Complete, History
<1>5. item' \in [Items -> Item]
  <2>1. CASE DoPost(s)
    BY <1>2, <2>1, ItemTypes DEF DoPost, TypeOK
  <2>2. CASE DoMark(s)
    BY <1>2, <2>2, ItemTypes DEF DoMark, TypeOK
  <2>3. CASE DoMarkEach(s)
    <3>1. PICK i \in run[s].left : item' = [item EXCEPT ![i] = Marked(i)]
      BY <2>3 DEF DoMarkEach
    <3>2. i \in Items
      BY <1>2, <3>1 DEF TypeOK, Run
    <3> QED
      BY <1>2, <3>1, <3>2, ItemTypes DEF TypeOK
  <2>4. CASE item' = item
    BY <1>2, <2>4 DEF TypeOK
  <2> QED
    BY <2>1, <2>2, <2>3, <2>4 DEF Proceed, DoWork, DoLook, DoEach, Complete
<1>6. RowsBounded' /\ Idle'
  BY <1>1, <1>3, GoesOnTyped
<1> QED
  BY <1>1, <1>2, <1>3, <1>4, <1>5, <1>6 DEF Typed, TypeOK, Rows

LEMMA FalterTyped ==
    ASSUME Typed, NEW s \in Starters, Falter(s)
    PROVE  Typed'
<1>1. /\ GoesOn(s) /\ UNCHANGED <<job, up, triggered, met>>
      /\ alive' \in BOOLEAN /\ due' \in BOOLEAN /\ mute' \in BOOLEAN
  BY FalterGoesOn DEF Typed
<1>2. Item' = Item /\ TypeOK /\ run' \in [Starters -> Run]
  BY <1>1, SameItems DEF Typed, GoesOn
<1>3. row' \in Rows /\ row'.running <= row.running
  <2>1. ASSUME NEW st, row' = Ended(s, st) PROVE row' \in Rows /\ row'.running <= row.running
    BY <1>2, <2>1, EndedTypes DEF TypeOK
  <2>2. CASE row' = row
    BY <1>2, <2>2 DEF TypeOK, Rows
  <2> QED
    BY <2>1, <2>2 DEF Falter, PostCut, GoOver, Quit, NothingToDo, Raise,
                      CompleteFails, Same
<1>4. said' \in {Excused, 0, 1, 2}
  <2>1. CASE PostCut(s)
    BY <1>2, <2>1, PostedSays DEF PostCut
  <2>2. CASE said' \in {said, Excused}
    BY <1>2, <2>2 DEF TypeOK
  <2> QED
    BY <2>1, <2>2
       DEF Falter, GoOver, Quit, NothingToDo, Raise, CompleteFails, History
<1>5. item' \in [Items -> Item]
  <2>1. CASE PostCut(s)
    BY <1>2, <2>1, ItemTypes DEF PostCut, TypeOK
  <2>2. CASE item' = item
    BY <1>2, <2>2 DEF TypeOK
  <2> QED
    BY <2>1, <2>2 DEF Falter, GoOver, Quit, NothingToDo, Raise, CompleteFails
<1>6. RowsBounded' /\ Idle'
  BY <1>1, <1>3, GoesOnTyped
<1> QED
  BY <1>1, <1>2, <1>3, <1>4, <1>5, <1>6 DEF Typed, TypeOK, Rows

\* A run under way starts at its first step, with nothing in hand.
LEMMA UnderWayRuns ==
    ASSUME Typed, NEW s \in Starters, NEW f \in BOOLEAN, UnderWay(s, f),
           run[s].at \in {None, Looked}
    PROVE  /\ run' \in [Starters -> Run]
           /\ \A t \in Starters : t # s => run'[t] = run[t]
           /\ run'[s].at = 1 /\ run'[s].free = f /\ run'[s].old = run[s].old
           /\ ~run'[s].told /\ run'[s].batch = {}
           /\ job' = job /\ item' = item /\ mute' = mute /\ met' \in BOOLEAN
<1> DEFINE q == run[s]
           o == [q EXCEPT !.at = 1]
           r == [o EXCEPT !.free = f]
<1>1. q \in Run /\ q = run[s] /\ ~q.told /\ q.batch = {}
  BY OverIsRun DEF Typed, TypeOK, Idle
<1>2. run' = [run EXCEPT ![s] = r] /\ job' = job /\ item' = item /\ mute' = mute
  BY DEF UnderWay
<1>3. met' \in BOOLEAN
  BY DEF UnderWay, Typed, TypeOK
<1> HIDE DEF q
<1>4. /\ o \in Run /\ o.at = 1 /\ o.batch = q.batch /\ o.told = q.told
      /\ o.old = q.old
  BY <1>1 DEF Run
<1> HIDE DEF o
<1>5. /\ r \in Run /\ r.at = o.at /\ r.batch = o.batch /\ r.told = o.told
      /\ r.old = o.old /\ r.free = f
  BY <1>4 DEF Run
<1> HIDE DEF r
<1>6. /\ run'[s] = r /\ run' \in [Starters -> Run]
      /\ \A t \in Starters : t # s => run'[t] = run[t]
  BY <1>2, <1>5 DEF Typed, TypeOK
<1> QED
  BY <1>1, <1>2, <1>3, <1>4, <1>5, <1>6

\* Who gets under way no longer may claim.
LEMMA UnderWayTyped ==
    ASSUME Typed, NEW s \in Starters, NEW f \in BOOLEAN, UnderWay(s, f),
           run[s].at \in {None, Looked}, row' \in Rows,
           row'.running <= row.running + Looking(s),
           UNCHANGED <<Machine, due>>, said' \in {Excused, 0, 1, 2}
    PROVE  Typed'
<1>1. /\ run' \in [Starters -> Run]
      /\ \A t \in Starters : t # s => run'[t] = run[t]
      /\ run'[s].at = 1
      /\ job' = job /\ item' = item /\ mute' = mute /\ met' \in BOOLEAN
  BY UnderWayRuns
<1>2. Idle'
  BY <1>1 DEF Typed, Idle, None, Looked
<1>3. /\ \A t \in Starters : t # s => Looking(t)' = Looking(t)
      /\ \A t \in Starters : Looking(t) \in 0..1
      /\ Looking(s)' = 0
  BY <1>1 DEF Looking, Looked
<1>4. "loop" \in Starters /\ "hand" \in Starters /\ "aid" \in Starters
      /\ s \in {"loop", "hand", "aid"}
  BY DEF Starters
<1>5. row.running \in Nat /\ row'.running \in Nat
  BY DEF Typed, TypeOK, Rows
<1>6. RowsBounded'
  BY <1>3, <1>4, <1>5 DEF Typed, RowsBounded
<1>7. Item' = Item
  BY <1>1, SameItems
<1> QED
  BY <1>1, <1>2, <1>6, <1>7 DEF Typed, TypeOK, Machine, Rows

\* Once it has looked, a start knows nothing but that.
LEMMA LookRuns ==
    ASSUME Typed, NEW s \in Starters, Look(s)
    PROVE  /\ run' \in [Starters -> Run]
           /\ \A t \in Starters : t # s => run'[t] = run[t]
           /\ run'[s].at = Looked /\ run'[s].batch = {} /\ ~run'[s].told
           /\ ~run'[s].free /\ ~run'[s].old
<1> DEFINE q == run[s]
           r == [q EXCEPT !.at = Looked]
<1>1. q = Over /\ run' = [run EXCEPT ![s] = r]
  BY DEF Look, Busy, Typed, Idle
<1>2. q \in Run /\ q.batch = {} /\ ~q.told /\ ~q.free /\ ~q.old
  BY <1>1, OverIsRun
<1> HIDE DEF q
<1>3. /\ r \in Run /\ r.at = Looked /\ r.batch = q.batch /\ r.told = q.told
      /\ r.free = q.free /\ r.old = q.old
  BY <1>2 DEF Run, Looked
<1> HIDE DEF r
<1> QED
  BY <1>1, <1>2, <1>3 DEF Typed, TypeOK

LEMMA BeginTyped ==
    ASSUME Typed, NEW s \in Starters, Begin(s)
    PROVE  Typed'
<1>0. row \in Rows /\ Looking(s) \in 0..1
  BY DEF Typed, TypeOK, Rows, Looking
<1>1. CASE Refused(s)
  <2>1. Item' = Item
    BY <1>1, SameItems DEF Refused
  <2> QED
    BY <1>1, <2>1
       DEF Refused, Begun, Typed, TypeOK, RowsBounded, Looking, Idle, History
<1>2. CASE Look(s)
  <2>1. /\ run' \in [Starters -> Run]
        /\ \A t \in Starters : t # s => run'[t] = run[t]
        /\ run'[s].at = Looked /\ run'[s].batch = {} /\ ~run'[s].told
        /\ ~run'[s].free /\ ~run'[s].old
    BY <1>2, LookRuns
  <2>2. Idle'
    BY <2>1 DEF Typed, Idle, None, Looked
  <2>3. RowsBounded'
    <3>1. row'.running = 0
      BY <1>0, <1>2 DEF Look, Taken, Rows
    <3>2. /\ Looking("loop")' \in 0..1 /\ Looking("hand")' \in 0..1
          /\ Looking("aid")' \in 0..1
      BY DEF Looking
    <3> QED
      BY <3>1, <3>2 DEF RowsBounded
  <2>4. Item' = Item
    BY <1>2, SameItems DEF Look
  <2> QED
    BY <1>2, <2>1, <2>2, <2>3, <2>4 DEF Look, Begun, Typed, TypeOK, History
<1>3. CASE Claim(s)
  <2>1. row' \in Rows /\ row'.running <= row.running + Looking(s)
    <3>1. CASE run[s].old
      BY <1>0, <1>3, <3>1 DEF Claim, Rows
    <3>2. CASE ~run[s].old
      <4>1. Looking(s) = 1 /\ row' = [row EXCEPT !.running = @ + 1]
        BY <1>3, <3>2 DEF Claim, Claimed, Looking
      <4>2. row.running + 1 \in 0..4
        <5>1. /\ Looking("loop") \in 0..1 /\ Looking("hand") \in 0..1
              /\ Looking("aid") \in 0..1 /\ row.running \in Nat
              /\ s \in {"loop", "hand", "aid"}
          BY <1>0 DEF Looking, Rows, Starters
        <5> QED
          BY <4>1, <5>1 DEF Typed, RowsBounded
      <4> QED
        BY <1>0, <4>1, <4>2 DEF Rows
    <3> QED
      BY <3>1, <3>2
  <2>2. said' \in {Excused, 0, 1, 2}
    BY <1>3 DEF Claim, Typed, TypeOK
  <2> QED
    BY <1>3, <2>1, <2>2, UnderWayTyped DEF Claim
<1>4. CASE ClaimFails(s)
  <2>1. row' \in Rows /\ row'.running <= row.running + Looking(s)
    BY <1>0, <1>4 DEF ClaimFails, Rows
  <2> QED
    BY <1>4, <2>1, UnderWayTyped DEF ClaimFails
<1> QED
  BY <1>1, <1>2, <1>3, <1>4 DEF Begin

\* When the key changes, what is under way is of the old one.
LEMMA PeriodRuns ==
    ASSUME Typed, NewPeriod, NEW s \in Starters
    PROVE  /\ run'[s] \in Run /\ run'[s].at = run[s].at
           /\ run'[s].batch = run[s].batch /\ run'[s].left = run[s].left
           /\ run'[s].told = run[s].told /\ run'[s].free = run[s].free
           /\ run'[s].old = (run[s].at # None)
           /\ run[s] = Over => run'[s] = Over
<1> DEFINE q == run[s]
           b == (q.at # None)
<1>1. q \in Run /\ run'[s] = [q EXCEPT !.old = b] /\ q = run[s]
  BY DEF Typed, TypeOK, NewPeriod, Busy
<1>2. b \in BOOLEAN /\ (b <=> q.at # None) /\ (q = Over => b = FALSE)
  BY DEF Over
<1>3. b = (q.at # None)
  OBVIOUS
<1> HIDE DEF q, b
<1>4. /\ [q EXCEPT !.old = b] \in Run
      /\ [q EXCEPT !.old = b].at = q.at /\ [q EXCEPT !.old = b].batch = q.batch
      /\ [q EXCEPT !.old = b].left = q.left /\ [q EXCEPT !.old = b].told = q.told
      /\ [q EXCEPT !.old = b].free = q.free /\ [q EXCEPT !.old = b].old = b
  BY <1>1, <1>2 DEF Run
<1>5. ASSUME q = Over PROVE [q EXCEPT !.old = b] = Over
  <2>1. q.old = b /\ q \in Run
    BY <1>1, <1>2, <1>5, OverIsRun
  <2>2. [q EXCEPT !.old = b] = q
    BY <2>1 DEF Run
  <2> QED
    BY <1>5, <2>2
<1> QED
  BY <1>1, <1>2, <1>3, <1>4, <1>5

LEMMA TypedStep == Typed /\ [Next]_vars => Typed'
<1> SUFFICES ASSUME Typed, [Next]_vars PROVE Typed'
  OBVIOUS
<1>1. ASSUME NEW s \in Starters, Begin(s) \/ Proceed(s) \/ Falter(s) PROVE Typed'
  BY <1>1, BeginTyped, ProceedTyped, FalterTyped
<1>2. CASE StartFree
  <2>1. "hand" \in Starters /\ run["hand"].at \in {None, Looked}
    BY <1>2 DEF StartFree, Busy, Starters
  <2>2. row' \in Rows /\ row'.running <= row.running + Looking("hand")
    BY <1>2 DEF StartFree, Typed, TypeOK, Rows, Looking
  <2> QED
    BY <1>2, <2>1, <2>2, UnderWayTyped DEF StartFree
<1>3. CASE AskRefresh
  <2>1. row \in Rows /\ row.running = 0 /\ row' = [row EXCEPT !.running = @ + 1]
    BY <1>3 DEF AskRefresh, Taken, Claimed, Typed, TypeOK, Rows
  <2>2. row' \in Rows /\ row'.running = 1
    BY <2>1 DEF Rows
  <2>3. /\ Looking("loop")' \in 0..1 /\ Looking("hand")' \in 0..1
        /\ Looking("aid")' \in 0..1
    BY DEF Looking
  <2>4. RowsBounded'
    BY <2>2, <2>3 DEF RowsBounded
  <2>5. Item' = Item
    BY <1>3, SameItems DEF AskRefresh
  <2> QED
    BY <1>3, <2>2, <2>4, <2>5
       DEF AskRefresh, Typed, TypeOK, Idle, History, Rows
<1>4. CASE NewPeriod
  <2>1. \A s \in Starters :
           /\ run'[s] \in Run /\ run'[s].at = run[s].at
           /\ run'[s].batch = run[s].batch
           /\ run'[s].told = run[s].told /\ run'[s].free = run[s].free
           /\ run[s] = Over => run'[s] = Over
    BY <1>4, PeriodRuns
  <2>2. run' \in [Starters -> Run]
    BY <1>4, <2>1 DEF NewPeriod
  <2>3. row' \in Rows /\ row'.running = 0
    BY <1>4 DEF NewPeriod, NextRows, NoRow, Rows
  <2>4. /\ Looking("loop")' \in 0..1 /\ Looking("hand")' \in 0..1
        /\ Looking("aid")' \in 0..1
    BY DEF Looking
  <2>5. RowsBounded'
    BY <2>3, <2>4 DEF RowsBounded
  <2>6. Idle'
    BY <2>1 DEF Typed, Idle
  <2>7. Item' = Item
    BY <1>4, SameItems DEF NewPeriod
  <2> QED
    BY <1>4, <2>2, <2>3, <2>5, <2>6, <2>7
       DEF NewPeriod, Typed, TypeOK, Machine, Rows
<1>5. CASE Crash
  <2>1. \A s \in Starters : run'[s] = Over
    BY <1>5 DEF Crash
  <2>2. Idle' /\ run' \in [Starters -> Run]
    BY <1>5, <2>1, OverIsRun DEF Crash, Idle, None, Looked
  <2>3. RowsBounded'
    <3>1. Looking("loop")' = 0 /\ Looking("hand")' = 0 /\ Looking("aid")' = 0
      BY <2>1, OverIsRun DEF Looking, Looked, Starters
    <3>2. row' = row /\ row.running \in 0..4
      BY <1>5 DEF Crash, Typed, TypeOK
    <3> QED
      BY <3>1, <3>2 DEF RowsBounded
  <2>4. Item' = Item
    BY <1>5, SameItems DEF Crash
  <2> QED
    BY <1>5, <2>2, <2>3, <2>4 DEF Crash, Typed, TypeOK, History
<1>6. CASE Restart
  <2>1. Item' = Item
    BY <1>6, SameItems DEF Restart
  <2>2. due' \in BOOLEAN
    <3>1. due' = TRUE \/ due' = (job \in Intervals)
      BY <1>6 DEF Restart
    <3>2. ASSUME NEW b, b = (job \in Intervals) PROVE b \in BOOLEAN
      BY <3>2
    <3> QED
      BY <3>1, <3>2, Zenon
  <2> QED
    BY <1>6, <2>1, <2>2
       DEF Restart, Typed, TypeOK, RowsBounded, Looking, Idle, History
<1>7. ASSUME NEW i \in Items, Arrive(i) \/ Lapse(i) \/ Rest(i) PROVE Typed'
  <2> DEFINE q == item[i]
  <2>1. Item' = Item
    BY <1>7, SameItems DEF Arrive, Lapse, Rest
  <2>2. q \in Item
    BY DEF Typed, TypeOK
  <2>3. \/ item' = [item EXCEPT ![i] = [q EXCEPT !.when = "now"]]
        \/ item' = [item EXCEPT ![i] = [q EXCEPT !.when = "past"]]
        \/ item' = [item EXCEPT ![i] = [q EXCEPT !.rested = TRUE]]
    BY <1>7 DEF Arrive, Lapse, Rest
  <2> HIDE DEF q
  <2>4. /\ [q EXCEPT !.when = "now"] \in Item /\ [q EXCEPT !.when = "past"] \in Item
        /\ [q EXCEPT !.rested = TRUE] \in Item
    BY <2>2 DEF Item
  <2>5. item' \in [Items -> Item]
    BY <2>3, <2>4 DEF Typed, TypeOK
  <2> QED
    BY <1>7, <2>1, <2>5
       DEF Arrive, Lapse, Rest, Typed, TypeOK, RowsBounded, Looking, Idle,
           Machine, History
<1>8. CASE UNCHANGED vars
  <2>1. Item' = Item
    BY <1>8, SameItems DEF vars
  <2> QED
    BY <1>8, <2>1
       DEF vars, Typed, TypeOK, RowsBounded, Looking, Idle, Machine, History
<1> QED
  BY <1>1, <1>2, <1>3, <1>4, <1>5, <1>6, <1>7, <1>8 DEF Next

LEMMA TypedInit == Init => Typed
<1> SUFFICES ASSUME Init PROVE Typed
  OBVIOUS
<1>1. \A s \in Starters : run[s] = Over
  BY DEF Init
<1>2. Idle /\ run \in [Starters -> Run]
  BY <1>1, OverIsRun DEF Init, Idle, None, Looked
<1>3. Looking("loop") = 0 /\ Looking("hand") = 0 /\ Looking("aid") = 0
  BY <1>1, OverIsRun DEF Looking, Looked, Starters
<1>4. RowsBounded /\ row \in [running : 0..4, completed : BOOLEAN]
  <2>1. row = NoRow
    BY DEF Init
  <2>2. row.running = 0 /\ row \in [running : 0..4, completed : BOOLEAN]
    BY <2>1 DEF NoRow
  <2> QED
    BY <1>3, <2>2 DEF RowsBounded
<1>5. item \in [Items -> Item]
  <2> DEFINE n == J.times
             q == [when |-> "to come", rested |-> TRUE, marks |-> 0, told |-> 0]
  <2>1. n \in Nat /\ 0 \in 0..n /\ 0 \in 0..(n + 1)
    <3>1. WellFormed(J)
      BY ScriptShapes DEF Init, J
    <3>2. n \in Nat
      BY <3>1 DEF WellFormed
    <3> QED
      BY <3>2
  <2>2. q \in [when : {"to come", "now", "past"}, rested : BOOLEAN,
               marks : 0..n, told : 0..(n + 1)]
    BY <2>1
  <2>3. item = [i \in Items |-> q] /\ q \in Item
    BY <2>2 DEF Init, Item
  <2> QED
    BY <2>3
<1> QED
  <2>1. /\ job \in Jobs /\ up \in BOOLEAN /\ alive \in BOOLEAN /\ due \in BOOLEAN
        /\ triggered \in BOOLEAN /\ said \in {Excused, 0, 1, 2}
        /\ met \in BOOLEAN /\ mute \in BOOLEAN
    BY DEF Init
  <2> QED
    BY <1>2, <1>4, <1>5, <2>1 DEF Typed, TypeOK

\* Every run of every job keeps its ranges, and at most four rows of a key are
\* ever running at once: what three starts and the question of the health check
\* insert when all have looked before any inserts (database.py record_job_run).
THEOREM JobTypes == Spec => []TypeOK
<1>1. Typed => TypeOK
  BY DEF Typed
<1> QED
  BY <1>1, TypedInit, TypedStep, PTL DEF Spec

-----------------------------------------------------------------------------
(* One key is held by one run.                                             *)

\* A run of the current key.
Holder(s) == Started(s) /\ ~run[s].old

\* Until there is a reason for a second one, one run at most has the key: its
\* row says so, and whoever has it when something was said has said it.
KeyHeld ==
    said # Excused =>
       /\ said < 2
       /\ \A s \in Starters : Holder(s) =>
             /\ Taken /\ ~run[s].free
             /\ \A t \in Starters : Holder(t) => t = s
       /\ said >= 1 => Taken /\ \A s \in Starters : Holder(s) => run[s].told

\* A step of a run that leaves the rows alone and says nothing.
LEMMA HeldOn ==
    ASSUME Typed, KeyHeld, NEW s \in Starters, GoesOn(s), row' = row,
           said' = said
    PROVE  KeyHeld'
<1>1. \A t \in Starters : Holder(t)' => /\ Holder(t) /\ run'[t].free = run[t].free
                                        /\ run[t].told => run'[t].told
  BY OverIsRun DEF GoesOn, Holder, Started
<1> QED
  BY <1>1 DEF KeyHeld, Taken

\* A run that is over holds nothing.
LEMMA HeldNoMore ==
    ASSUME Typed, KeyHeld, NEW s \in Starters, GoesOn(s), Holder(s),
           run'[s] = Over, said' = said, said >= 1 => Taken'
    PROVE  KeyHeld'
<1>1. CASE said = Excused
  BY <1>1 DEF KeyHeld
<1>2. CASE said # Excused
  <2>1. \A t \in Starters : ~Holder(t)'
    BY <1>2, OverIsRun DEF KeyHeld, GoesOn, Holder, Started
  <2> QED
    BY <1>2, <2>1 DEF KeyHeld
<1> QED
  BY <1>1, <1>2

LEMMA HeldPosted ==
    ASSUME Typed, KeyHeld, NEW s \in Starters, GoesOn(s), row' = row, Posted(s),
           run'[s].told
    PROVE  KeyHeld'
<1>1. CASE said' = said
  BY <1>1, HeldOn
<1>2. CASE said' # said
  <2>1. said # Excused /\ ~run[s].told /\ ~run[s].old /\ said' = OneMore(said, 2)
    BY <1>2, PostedSays DEF Typed
  <2>2. Holder(s)
    BY <2>1 DEF Holder, GoesOn
  <2>3. said \in {0, 1, 2} /\ said < 2 /\ ~(said >= 1)
    BY <2>1, <2>2 DEF KeyHeld, Typed, TypeOK
  <2>4. said' = 1
    BY <2>1, <2>3 DEF OneMore
  <2>5. \A t \in Starters : Holder(t)' => Holder(t) /\ t = s
    BY <2>1, <2>2, OverIsRun DEF KeyHeld, GoesOn, Holder, Started
  <2>6. Taken' /\ (Holder(s)' => ~run'[s].free)
    BY <2>1, <2>2, OverIsRun DEF KeyHeld, GoesOn, Taken, Holder, Started
  <2> QED
    BY <2>4, <2>5, <2>6 DEF KeyHeld
<1> QED
  BY <1>1, <1>2

\* A row that is closed as completed, or that has been, keeps the key taken.
LEMMA CompletedTakes ==
    ASSUME Typed, Taken, NEW s \in Starters, ~run[s].old, ~run[s].free,
           row' = Ended(s, "completed")
    PROVE  Taken'
<1>1. row' = Closed("completed")
  BY DEF Ended
<1>2. CASE row.running = 0
  BY <1>1, <1>2 DEF Closed, Taken
<1>3. CASE row.running # 0
  <2>1. row' = [running |-> row.running - 1, completed |-> TRUE]
    BY <1>1, <1>3 DEF Closed
  <2> QED
    BY <2>1 DEF Taken
<1> QED
  BY <1>2, <1>3

LEMMA ProceedHeld ==
    ASSUME Typed, KeyHeld, NEW s \in Starters, Proceed(s)
    PROVE  KeyHeld'
<1>1. GoesOn(s) /\ TypeOK
  BY ProceedGoesOn DEF Typed
<1>2. CASE DoPost(s)
  <2>1. Posted(s) /\ Stepping(s) /\ row' = row
    BY <1>2 DEF DoPost, Same
  <2> QED
    BY <1>1, <2>1, PostedGoesOn, HeldPosted
<1>3. CASE Complete(s)
  <2>1. /\ run' = [run EXCEPT ![s] = Over] /\ said' = said
        /\ row' = Ended(s, "completed")
    BY <1>3 DEF Complete, History
  <2>2. run'[s] = Over
    BY <1>1, <2>1 DEF TypeOK
  <2>3. CASE run[s].old
    BY <1>1, <2>1, <2>3, HeldOn DEF Ended
  <2>4. CASE ~run[s].old
    <3>1. Holder(s)
      BY <1>1, <2>4 DEF Holder, GoesOn
    <3>2. CASE said = Excused
      BY <2>1, <3>2 DEF KeyHeld
    <3>3. CASE said # Excused
      <4>1. Taken'
        BY <2>1, <2>4, <3>1, <3>3, CompletedTakes DEF KeyHeld
      <4> QED
        BY <1>1, <2>1, <2>2, <3>1, <4>1, HeldNoMore
    <3> QED
      BY <3>2, <3>3
  <2> QED
    BY <2>3, <2>4
<1>4. CASE row' = row /\ said' = said
  BY <1>1, <1>4, HeldOn
<1> QED
  BY <1>2, <1>3, <1>4
     DEF Proceed, DoWork, DoLook, DoEach, DoMark, DoMarkEach, Same

LEMMA FalterHeld ==
    ASSUME Typed, KeyHeld, NEW s \in Starters, Falter(s)
    PROVE  KeyHeld'
<1>1. GoesOn(s) /\ TypeOK
  BY FalterGoesOn DEF Typed
<1>2. CASE PostCut(s)
  <2>1. Posted(s) /\ Stepping(s) /\ row' = row
    BY <1>2 DEF PostCut, Same
  <2> QED
    BY <1>1, <2>1, PostedGoesOn, HeldPosted
<1>3. CASE row' = row /\ said' = said
  BY <1>1, <1>3, HeldOn
<1>4. CASE Raise(s) /\ J.onError = "failed"
  <2>1. /\ run' = [run EXCEPT ![s] = Over]
        /\ \E status : row' = Ended(s, status)
        /\ said' = IF run[s].told /\ ~run[s].old THEN Excused ELSE said
    BY <1>4 DEF Raise
  <2>2. run'[s] = Over
    BY <1>1, <2>1 DEF TypeOK
  <2>3. CASE said' = Excused
    BY <2>3 DEF KeyHeld
  <2>4. CASE run[s].old
    BY <1>1, <2>1, <2>4, HeldOn DEF Ended
  <2>5. CASE said' # Excused /\ ~run[s].old
    <3>1. Holder(s) /\ said' = said /\ ~run[s].told
      BY <1>1, <2>1, <2>5 DEF Holder, GoesOn
    <3>2. ~(said >= 1)
      BY <2>5, <3>1 DEF KeyHeld
    <3> QED
      BY <1>1, <2>2, <3>1, <3>2, HeldNoMore
  <2> QED
    BY <2>3, <2>4, <2>5
<1> QED
  BY <1>2, <1>3, <1>4
     DEF Falter, GoOver, Quit, NothingToDo, Raise, CompleteFails, Same, History

\* Whoever gets under way found the key free, or there is a reason.
LEMMA BeginHeld ==
    ASSUME Typed, KeyHeld, NEW s \in Starters, Begin(s)
    PROVE  KeyHeld'
<1>1. CASE Refused(s)
  BY <1>1 DEF Refused, History, KeyHeld, Holder, Started, Taken
<1>2. CASE Look(s)
  <2>1. \A t \in Starters : Holder(t)' => Holder(t) /\ run'[t] = run[t]
    BY <1>2, LookRuns DEF Holder, Started, Looked
  <2> QED
    BY <1>2, <2>1 DEF Look, History, KeyHeld, Taken
<1>3. CASE Claim(s)
  <2>1. /\ \A t \in Starters : t # s => run'[t] = run[t]
        /\ run'[s].free = FALSE /\ run'[s].old = run[s].old
    BY <1>3, UnderWayRuns DEF Claim
  <2>2. CASE run[s].old
    <3>1. \A t \in Starters : Holder(t)' => Holder(t) /\ run'[t] = run[t]
      BY <2>1, <2>2 DEF Holder, Started
    <3>2. row' = row /\ said' = said
      BY <1>3, <2>2 DEF Claim
    <3> QED
      BY <3>1, <3>2 DEF KeyHeld, Taken
  <2>3. CASE said' = Excused
    BY <2>3 DEF KeyHeld
  <2>4. CASE ~run[s].old /\ said' # Excused
    <3>1. ~Taken /\ said' = said /\ row' = [row EXCEPT !.running = @ + 1]
      BY <1>3, <2>4 DEF Claim, Claimed
    <3>2. said < 1 /\ \A t \in Starters : ~Holder(t)
      BY <2>4, <3>1 DEF KeyHeld, Typed, TypeOK
    <3>3. Taken'
      BY <3>1 DEF Taken, Typed, TypeOK
    <3>4. \A t \in Starters : Holder(t)' => t = s
      BY <2>1, <3>2 DEF Holder, Started
    <3> QED
      BY <2>1, <3>1, <3>2, <3>3, <3>4 DEF KeyHeld, Typed, TypeOK
  <2> QED
    BY <2>2, <2>3, <2>4
<1>4. CASE ClaimFails(s)
  BY <1>4 DEF ClaimFails, KeyHeld
<1> QED
  BY <1>1, <1>2, <1>3, <1>4 DEF Begin

LEMMA HeldStep == Typed /\ KeyHeld /\ [Next]_vars => KeyHeld'
<1> SUFFICES ASSUME Typed, KeyHeld, [Next]_vars PROVE KeyHeld'
  OBVIOUS
<1>1. ASSUME NEW s \in Starters, Begin(s) \/ Proceed(s) \/ Falter(s)
      PROVE  KeyHeld'
  BY <1>1, BeginHeld, ProceedHeld, FalterHeld
<1>2. CASE StartFree
  BY <1>2 DEF StartFree, KeyHeld
<1>3. CASE AskRefresh
  <2>1. ~Taken /\ Taken' /\ run' = run /\ said' = said
    BY <1>3 DEF AskRefresh, Claimed, Taken, History, Typed, TypeOK
  <2> QED
    BY <2>1 DEF KeyHeld, Holder, Started
<1>4. CASE NewPeriod
  <2>0. \A s \in Starters :
           run'[s].at = run[s].at /\ (run[s].at # 0 => run'[s].old)
    <3> TAKE s \in Starters
    <3>1. run'[s].at = run[s].at /\ run'[s].old = (run[s].at # None)
      BY <1>4, PeriodRuns
    <3> QED
      BY <3>1 DEF None
  <2>1. \A s \in Starters : ~Holder(s)'
    BY <2>0 DEF Holder, Started
  <2>2. said' = 0
    BY <1>4 DEF NewPeriod
  <2> QED
    BY <2>1, <2>2 DEF KeyHeld
<1>5. CASE Crash
  <2>0. \A s \in Starters : run'[s] = Over
    BY <1>5 DEF Crash
  <2>1. \A s \in Starters : ~Holder(s)'
    BY <2>0, OverIsRun DEF Holder, Started
  <2> QED
    BY <1>5, <2>1 DEF Crash, History, KeyHeld, Taken
<1>6. CASE run' = run /\ row' = row /\ said' = said
  BY <1>6 DEF KeyHeld, Holder, Started, Taken
<1> QED
  BY <1>1, <1>2, <1>3, <1>4, <1>5, <1>6
     DEF Next, Restart, Arrive, Lapse, Rest, History, vars

\* What one key brings is said once, by the loop and people at once and through
\* crashes and restarts, but for the ways the code leaves open: the row a run
\* inserts keeps the others out, and it stays when the process ends
\* (database.py record_job_run and complete_job_run).
THEOREM SaidOnceEach == Spec => []SaidOnce
<1>1. Init => KeyHeld
  <2> SUFFICES ASSUME Init PROVE KeyHeld
    OBVIOUS
  <2>0. said = 0 /\ \A s \in Starters : run[s] = Over
    BY DEF Init
  <2>1. said = 0 /\ \A s \in Starters : ~Holder(s)
    BY <2>0, OverIsRun DEF Holder, Started
  <2> QED
    BY <2>1 DEF KeyHeld
<1>2. Typed /\ KeyHeld => SaidOnce
  BY DEF KeyHeld, SaidOnce, Excused
<1> QED
  BY <1>1, <1>2, TypedInit, TypedStep, HeldStep, PTL DEF Spec

-----------------------------------------------------------------------------
(* Nothing counts as posted about that was not.                            *)

\* A step that marks.
MarkPlace(k) == k \in 1..Length /\ J.steps[k].do = "mark"

\* A mark the run of s is about to make.
Pending(s, i) == IF MarkPlace(run[s].at) /\ i \in run[s].batch THEN 1 ELSE 0

Owed(i) == Pending("loop", i) + Pending("hand", i) + Pending("aid", i)

\* An item was posted about as often as it is marked or is about to be, or
\* more often than is counted.
Accounted(i) ==
    \/ item[i].told = J.times + 1
    \/ item[i].marks + Owed(i) <= item[i].told

AllAccounted ==
    ~mute /\ job \notin MarkFirst => \A i \in Items : Accounted(i)

LEMMA ItemNumbers ==
    ASSUME TypeOK, NEW i \in Items
    PROVE  /\ J.times \in Nat \ {0}
           /\ item[i].marks \in Nat /\ item[i].marks <= J.times
           /\ item[i].told \in Nat /\ item[i].told <= J.times + 1
<1> DEFINE n == J.times
<1>1. n \in Nat \ {0}
  BY ScriptOfJob
<1>2. item[i] \in [when : {"to come", "now", "past"}, rested : BOOLEAN,
                   marks : 0..n, told : 0..(n + 1)]
  BY DEF TypeOK, Item
<1> HIDE DEF n
<1>3. item[i].marks \in 0..n /\ item[i].told \in 0..(n + 1)
  BY <1>2
<1>4. /\ item[i].marks \in Nat /\ item[i].marks <= n
      /\ item[i].told \in Nat /\ item[i].told <= n + 1
  BY <1>1, <1>3
<1> QED
  BY <1>1, <1>4 DEF n

LEMMA PendingThen ==
    ASSUME job' = job, NEW s \in Starters, NEW i \in Items
    PROVE  Pending(s, i)' =
              IF MarkPlace(run'[s].at) /\ i \in run'[s].batch THEN 1 ELSE 0
  BY SameItems DEF Pending, MarkPlace, Length

\* Only the run that makes a step may owe more or less for it.
LEMMA OwedOne ==
    ASSUME job' = job, NEW s \in Starters, NEW i \in Items,
           \A t \in Starters : t # s => run'[t] = run[t]
    PROVE  /\ Owed(i)' + Pending(s, i) = Owed(i) + Pending(s, i)'
           /\ Pending(s, i) \in 0..1 /\ Pending(s, i)' \in 0..1
           /\ Owed(i) \in Nat /\ Owed(i)' \in Nat
<1>1. \A t \in Starters : Pending(t, i) \in 0..1 /\ Pending(t, i)' \in 0..1
  BY DEF Pending
<1>2. \A t \in Starters : t # s => Pending(t, i)' = Pending(t, i)
  BY PendingThen DEF Pending
<1>3. /\ "loop" \in Starters /\ "hand" \in Starters /\ "aid" \in Starters
      /\ s \in {"loop", "hand", "aid"}
  BY DEF Starters
<1> QED
  BY <1>1, <1>2, <1>3 DEF Owed

\* The only way to a mark is the post right before it.
LEMMA ToAMark ==
    ASSUME TypeOK, job \notin MarkFirst
    PROVE  /\ ~MarkPlace(1) /\ ~MarkPlace(End) /\ ~MarkPlace(None)
           /\ ~MarkPlace(Looked)
           /\ \A k \in 1..Length :
                /\ J.steps[k].do # "markeach"
                /\ MarkPlace(k) => J.steps[k - 1].do = "post"
                /\ MarkPlace(k) => \A l \in 1..Length : J.steps[l].to # k
<1>1. MarksAfterPosting(J)
  BY ScriptShapes DEF TypeOK, J
<1>2. \A k \in 1..Length :
        /\ J.steps[k].do # "markeach"
        /\ J.steps[k].do = "mark" =>
             /\ k > 1 /\ J.steps[k - 1].do = "post"
             /\ \A l \in 1..Length : J.steps[l].to # k
  BY <1>1 DEF MarksAfterPosting, Length
<1>3. Length \in 1..7 /\ End = Length + 1
  BY ScriptOfJob
<1> QED
  BY <1>2, <1>3 DEF MarkPlace, None, Looked

LEMMA StepToMark ==
    ASSUME TypeOK, job \notin MarkFirst, NEW s \in Starters, Stepping(s)
    PROVE  /\ At(s).do # "post" => ~MarkPlace(Next1(s)) /\ ~MarkPlace(To(s))
           /\ At(s).do # "markeach"
           /\ At(s).do = "mark" => MarkPlace(run[s].at)
           /\ At(s).do # "mark" => ~MarkPlace(run[s].at)
<1>1. /\ run[s].at \in 1..Length /\ Next1(s) = run[s].at + 1
      /\ To(s) = IF At(s).to = 0 THEN Next1(s) ELSE At(s).to
  BY Places
<1>2. Length \in 1..7
  BY ScriptOfJob
<1>3. ASSUME At(s).do # "post" PROVE ~MarkPlace(Next1(s))
  <2>1. CASE Next1(s) \in 1..Length
    BY <1>1, <1>2, <1>3, <2>1, ToAMark DEF At
  <2>2. CASE Next1(s) \notin 1..Length
    BY <2>2 DEF MarkPlace
  <2> QED
    BY <2>1, <2>2
<1>4. ASSUME At(s).do # "post" PROVE ~MarkPlace(To(s))
  <2>1. CASE At(s).to = 0
    BY <1>1, <1>3, <1>4, <2>1
  <2>2. CASE At(s).to # 0
    <3>1. To(s) = J.steps[run[s].at].to
      BY <1>1, <2>2 DEF At
    <3>2. CASE To(s) \in 1..Length
      BY <1>1, <3>1, <3>2, ToAMark
    <3>3. CASE To(s) \notin 1..Length
      BY <3>3 DEF MarkPlace
    <3> QED
      BY <3>2, <3>3
  <2> QED
    BY <2>1, <2>2
<1> QED
  BY <1>1, <1>3, <1>4, ToAMark DEF At, MarkPlace

\* Nothing is posted, nothing marked, and the step leads to no mark.
LEMMA AccountKept ==
    ASSUME TypeOK, job' = job, NEW i \in Items, Accounted(i),
           item'[i].told = item[i].told, item'[i].marks = item[i].marks,
           Owed(i) \in Nat, Owed(i)' \in Nat, Owed(i)' <= Owed(i)
    PROVE  Accounted(i)'
<1>1. J' = J
  BY SameItems
<1>2. item[i].marks \in Nat /\ item[i].told \in Nat
  BY ItemNumbers
<1> QED
  BY <1>1, <1>2 DEF Accounted

LEMMA WalkAccounted ==
    ASSUME TypeOK, AllAccounted, job' = job, NEW s \in Starters,
           \A t \in Starters : t # s => run'[t] = run[t],
           mute => mute', item' = item,
           job \notin MarkFirst /\ ~mute' =>
              ~MarkPlace(run'[s].at) \/ run'[s].batch = {}
    PROVE  AllAccounted'
<1> SUFFICES ASSUME ~mute', job \notin MarkFirst, NEW i \in Items
             PROVE  Accounted(i)'
  BY DEF AllAccounted
<1>1. Pending(s, i)' = 0
  BY PendingThen
<1>2. Accounted(i)
  BY DEF AllAccounted
<1>3. Owed(i) \in Nat /\ Owed(i)' \in Nat /\ Owed(i)' <= Owed(i)
  BY <1>1, OwedOne
<1> QED
  BY <1>2, <1>3, AccountKept

LEMMA PostAccounted ==
    ASSUME TypeOK, AllAccounted, NEW s \in Starters, DoPost(s)
    PROVE  AllAccounted'
<1>1. /\ Stepping(s) /\ At(s).do = "post" /\ Posted(s) /\ job' = job /\ mute' = mute
      /\ item' = [i \in Items |-> IF i \in run[s].batch THEN Told(i) ELSE item[i]]
  BY DEF DoPost, Same
<1> SUFFICES ASSUME ~mute', job \notin MarkFirst, NEW i \in Items
             PROVE  Accounted(i)'
  BY <1>1 DEF AllAccounted
<1>2. run'[s].batch = run[s].batch /\ \A t \in Starters : t # s => run'[t] = run[t]
  BY <1>1, PostedGoesOn DEF GoesOn
<1>3. Pending(s, i) = 0
  BY <1>1, StepToMark DEF Pending
<1>4. Accounted(i)
  BY <1>1 DEF AllAccounted
<1>5. CASE i \notin run[s].batch
  <2>1. Pending(s, i)' = 0
    BY <1>1, <1>2, <1>5, PendingThen
  <2>2. Owed(i) \in Nat /\ Owed(i)' \in Nat /\ Owed(i)' <= Owed(i)
    BY <1>1, <1>2, <1>3, <2>1, OwedOne
  <2> QED
    BY <1>1, <1>4, <1>5, <2>2, AccountKept
<1>6. CASE i \in run[s].batch
  <2>1. /\ item'[i].marks = item[i].marks
        /\ item'[i].told = OneMore(item[i].told, J.times + 1)
    BY <1>1, <1>6, ItemTypes
  <2>2. Owed(i) \in Nat /\ Owed(i)' \in Nat /\ Owed(i)' <= Owed(i) + 1
    BY <1>1, <1>2, <1>3, OwedOne
  <2>3. /\ J.times \in Nat /\ item[i].marks \in Nat /\ item[i].told \in Nat
        /\ item[i].told <= J.times + 1 /\ J' = J
    BY <1>1, ItemNumbers, SameItems
  <2> QED
    BY <1>4, <2>1, <2>2, <2>3 DEF Accounted, OneMore
<1> QED
  BY <1>5, <1>6

LEMMA MarkAccounted ==
    ASSUME TypeOK, AllAccounted, NEW s \in Starters, DoMark(s)
    PROVE  AllAccounted'
<1>1. /\ Stepping(s) /\ At(s).do = "mark" /\ job' = job /\ mute' = mute
      /\ run' = [run EXCEPT ![s].at = Next1(s)]
      /\ item' = [i \in Items |-> IF i \in run[s].batch THEN Marked(i) ELSE item[i]]
  BY DEF DoMark, Same
<1> SUFFICES ASSUME ~mute', job \notin MarkFirst, NEW i \in Items
             PROVE  Accounted(i)'
  BY <1>1 DEF AllAccounted
<1>2. run'[s].at = Next1(s) /\ \A t \in Starters : t # s => run'[t] = run[t]
  BY <1>1, Places, WalkGoesOn DEF GoesOn
<1>3. Pending(s, i)' = 0
  BY <1>1, <1>2, StepToMark, PendingThen
<1>4. Accounted(i)
  BY <1>1 DEF AllAccounted
<1>5. CASE i \notin run[s].batch
  <2>1. Owed(i) \in Nat /\ Owed(i)' \in Nat /\ Owed(i)' <= Owed(i)
    BY <1>1, <1>2, <1>3, OwedOne
  <2> QED
    BY <1>1, <1>4, <1>5, <2>1, AccountKept
<1>6. CASE i \in run[s].batch
  <2>1. /\ item'[i].told = item[i].told
        /\ item'[i].marks = OneMore(item[i].marks, J.times)
    BY <1>1, <1>6, ItemTypes
  <2>2. Pending(s, i) = 1
    BY <1>1, <1>6, StepToMark DEF Pending
  <2>3. Owed(i) \in Nat /\ Owed(i)' \in Nat /\ Owed(i)' + 1 = Owed(i)
    BY <1>1, <1>2, <1>3, <2>2, OwedOne
  <2>4. /\ J.times \in Nat /\ item[i].marks \in Nat /\ item[i].told \in Nat
        /\ item[i].marks <= J.times /\ J' = J
    BY <1>1, ItemNumbers, SameItems
  <2> QED
    BY <1>4, <2>1, <2>3, <2>4 DEF Accounted, OneMore
<1> QED
  BY <1>5, <1>6

LEMMA ProceedAccounted ==
    ASSUME TypeOK, AllAccounted, NEW s \in Starters, Proceed(s)
    PROVE  AllAccounted'
<1>1. /\ job' = job /\ mute' = mute
      /\ \A t \in Starters : t # s => run'[t] = run[t]
  BY ProceedGoesOn DEF GoesOn
<1>2. CASE DoWork(s)
  <2>1. /\ Stepping(s) /\ At(s).do # "post" /\ item' = item
        /\ run' = [run EXCEPT ![s].at = Next1(s)]
    BY <1>2 DEF DoWork
  <2>2. run'[s].at = Next1(s)
    BY <2>1, Places, WalkGoesOn
  <2> QED
    BY <1>1, <2>1, <2>2, StepToMark, WalkAccounted
<1>3. CASE DoLook(s)
  <2>1. /\ Stepping(s) /\ At(s).do # "post" /\ item' = item
        /\ Due \in SUBSET Items
        /\ run' = [run EXCEPT ![s].at = Next1(s), ![s].batch = Due,
                              ![s].left = Due]
    BY <1>3 DEF DoLook, Due
  <2>2. run'[s].at = Next1(s)
    BY <2>1, BatchGoesOn
  <2> QED
    BY <1>1, <2>1, <2>2, StepToMark, WalkAccounted
<1>4. CASE DoEach(s)
  <2>1. Stepping(s) /\ At(s).do # "post" /\ item' = item
    BY <1>4 DEF DoEach
  <2>2. CASE run' = [run EXCEPT ![s].at = To(s)]
    <3>1. run'[s].at = To(s)
      BY <2>1, <2>2, Places, WalkGoesOn
    <3> QED
      BY <1>1, <2>1, <3>1, StepToMark, WalkAccounted
  <2>3. ASSUME NEW i \in run[s].left,
               run' = [run EXCEPT ![s].at = Next1(s), ![s].batch = {i},
                                  ![s].left = @ \ {i}]
        PROVE  AllAccounted'
    <3>1. {i} \in SUBSET Items /\ run[s].left \ {i} \in SUBSET Items
      BY <2>1, <2>3, Places DEF Run
    <3>2. run' = [run EXCEPT ![s].at = Next1(s), ![s].batch = {i},
                             ![s].left = run[s].left \ {i}]
      BY <2>3
    <3>3. run'[s].at = Next1(s)
      BY <2>1, <3>1, <3>2, BatchGoesOn
    <3> QED
      BY <1>1, <2>1, <3>3, StepToMark, WalkAccounted
  <2> QED
    BY <1>4, <2>2, <2>3 DEF DoEach
<1>5. CASE DoPost(s)
  BY <1>5, PostAccounted
<1>6. CASE DoMark(s)
  BY <1>6, MarkAccounted
<1>7. CASE DoMarkEach(s)
  <2>1. job \in MarkFirst
    BY <1>7, StepToMark DEF DoMarkEach
  <2> QED
    BY <1>1, <2>1 DEF AllAccounted
<1>8. CASE Complete(s)
  <2>1. item' = item /\ run'[s].at = None
    BY <1>8, OverIsRun DEF Complete, TypeOK, None
  <2> QED
    BY <1>1, <2>1, ToAMark, WalkAccounted
<1> QED
  BY <1>2, <1>3, <1>4, <1>5, <1>6, <1>7, <1>8 DEF Proceed

\* A post that is left out, or cut, is noted as such.
LEMMA CutAccounted ==
    ASSUME TypeOK, AllAccounted, NEW s \in Starters, PostCut(s)
    PROVE  AllAccounted'
<1>1. /\ Stepping(s) /\ "cut" \in At(s).or /\ Posted(s) /\ job' = job
      /\ mute' = (mute \/ Untold(s))
  BY DEF PostCut, Same
<1>2. PICK some \in SUBSET run[s].batch :
         item' = [i \in Items |-> IF i \in some THEN Told(i) ELSE item[i]]
  BY DEF PostCut
<1>3. At(s).do = "post"
  BY <1>1, ScriptOfJob, Places DEF At
<1>4. CASE mute' \/ job \in MarkFirst
  BY <1>1, <1>4 DEF AllAccounted
<1>5. CASE ~mute' /\ job \notin MarkFirst
  <2>1. run[s].batch = {} /\ (mute => mute')
    BY <1>1, <1>3, <1>5 DEF Untold
  <2>2. item' = item
    <3>1. item = [i \in Items |-> item[i]]
      BY DEF TypeOK
    <3> QED
      BY <1>2, <2>1, <3>1
  <2>3. run'[s].batch = {} /\ \A t \in Starters : t # s => run'[t] = run[t]
    BY <1>1, <2>1, PostedGoesOn DEF GoesOn
  <2> QED
    BY <1>1, <2>1, <2>2, <2>3, WalkAccounted
<1> QED
  BY <1>4, <1>5

LEMMA FalterAccounted ==
    ASSUME TypeOK, AllAccounted, NEW s \in Starters, Falter(s)
    PROVE  AllAccounted'
<1>1. /\ job' = job /\ (mute => mute')
      /\ \A t \in Starters : t # s => run'[t] = run[t]
  BY FalterGoesOn DEF GoesOn
<1>2. CASE PostCut(s)
  BY <1>2, CutAccounted
<1>3. CASE GoOver(s)
  <2>1. /\ Stepping(s) /\ item' = item /\ mute' = (mute \/ Untold(s))
        /\ run' = [run EXCEPT ![s].at = To(s)]
    BY <1>3 DEF GoOver, Otherwise
  <2>2. run'[s].at = To(s) /\ run'[s].batch = run[s].batch
    BY <2>1, Places, WalkGoesOn
  <2>3. CASE At(s).do # "post"
    BY <1>1, <2>1, <2>2, <2>3, StepToMark, WalkAccounted
  <2>4. CASE At(s).do = "post"
    <3>1. job \notin MarkFirst /\ ~mute' => run'[s].batch = {}
      BY <2>1, <2>2, <2>4 DEF Untold
    <3> QED
      BY <1>1, <2>1, <3>1, WalkAccounted
  <2> QED
    BY <2>3, <2>4
<1>4. ASSUME item' = item, run'[s].at \in {None, End} PROVE AllAccounted'
  BY <1>1, <1>4, ToAMark, WalkAccounted
<1>5. CASE Quit(s) \/ CompleteFails(s)
  <2>1. item' = item /\ run'[s].at = None
    BY <1>5, OverIsRun DEF Quit, CompleteFails, TypeOK, None
  <2> QED
    BY <1>4, <2>1
<1>6. ASSUME Stepping(s), run' = [run EXCEPT ![s].at = End] PROVE run'[s].at = End
  BY <1>6, Places, WalkGoesOn
<1>7. CASE NothingToDo(s)
  BY <1>4, <1>6, <1>7 DEF NothingToDo, Otherwise
<1>8. CASE Raise(s)
  <2>1. run'[s].at \in {None, End}
    <3>1. CASE run' = [run EXCEPT ![s] = Over]
      BY <3>1, OverIsRun DEF TypeOK, None
    <3>2. CASE run' = [run EXCEPT ![s].at = End]
      BY <1>6, <1>8, <3>2 DEF Raise
    <3> QED
      BY <1>8, <3>1, <3>2 DEF Raise
  <2> QED
    BY <1>4, <1>8, <2>1 DEF Raise
<1> QED
  BY <1>2, <1>3, <1>5, <1>7, <1>8 DEF Falter

\* A run under way owes nothing yet.
LEMMA UnderWayAccounted ==
    ASSUME Typed, AllAccounted, NEW s \in Starters, NEW f \in BOOLEAN,
           UnderWay(s, f), run[s].at \in {None, Looked}
    PROVE  AllAccounted'
<1>1. /\ \A t \in Starters : t # s => run'[t] = run[t]
      /\ run'[s].at = 1 /\ job' = job /\ item' = item /\ mute' = mute
  BY UnderWayRuns
<1> QED
  BY <1>1, ToAMark, WalkAccounted DEF Typed

\* Nobody owes more than before, and the items are as marked and told about.
LEMMA AccountedOn ==
    ASSUME TypeOK, AllAccounted, job' = job, mute' = mute,
           \A s \in Starters : \/ run'[s] = Over
                               \/ /\ run'[s].at = run[s].at
                                  /\ run'[s].batch = run[s].batch,
           \A i \in Items : /\ item'[i].told = item[i].told
                            /\ item'[i].marks = item[i].marks
    PROVE  AllAccounted'
<1> SUFFICES ASSUME ~mute', job \notin MarkFirst, NEW i \in Items
             PROVE  Accounted(i)'
  BY DEF AllAccounted
<1>1. ~MarkPlace(Over.at)
  BY OverIsRun, ToAMark DEF None
<1>2. \A s \in Starters : /\ Pending(s, i) \in 0..1 /\ Pending(s, i)' \in 0..1
                          /\ Pending(s, i)' <= Pending(s, i)
  BY <1>1, PendingThen DEF Pending
<1>3. "loop" \in Starters /\ "hand" \in Starters /\ "aid" \in Starters
  BY DEF Starters
<1>4. Owed(i) \in Nat /\ Owed(i)' \in Nat /\ Owed(i)' <= Owed(i)
  BY <1>2, <1>3 DEF Owed
<1>5. Accounted(i)
  BY DEF AllAccounted
<1> QED
  BY <1>4, <1>5, AccountKept

\* What is to come, due or resting has nothing to do with marks and posts.
LEMMA TimePasses ==
    ASSUME TypeOK, NEW i \in Items, Arrive(i) \/ Lapse(i) \/ Rest(i)
    PROVE  \A k \in Items : /\ item'[k].told = item[k].told
                            /\ item'[k].marks = item[k].marks
<1> DEFINE q == item[i]
           It == [when : {"to come", "now", "past"}, rested : BOOLEAN,
                  marks : 0..J.times, told : 0..(J.times + 1)]
<1>1. q \in It /\ q = item[i]
  BY DEF TypeOK, Item
<1>2. \/ item' = [item EXCEPT ![i] = [q EXCEPT !.when = "now"]]
      \/ item' = [item EXCEPT ![i] = [q EXCEPT !.when = "past"]]
      \/ item' = [item EXCEPT ![i] = [q EXCEPT !.rested = TRUE]]
  BY DEF Arrive, Lapse, Rest
<1> HIDE DEF q
<1>3. \A r \in {[q EXCEPT !.when = "now"], [q EXCEPT !.when = "past"],
               [q EXCEPT !.rested = TRUE]} : r.told = q.told /\ r.marks = q.marks
  BY <1>1
<1>4. PICK r : /\ item' = [item EXCEPT ![i] = r]
               /\ r.told = q.told /\ r.marks = q.marks
  BY <1>2, <1>3
<1> QED
  BY <1>1, <1>4 DEF TypeOK

LEMMA AccountedStep == Typed /\ AllAccounted /\ [Next]_vars => AllAccounted'
<1> SUFFICES ASSUME Typed, AllAccounted, [Next]_vars PROVE AllAccounted'
  OBVIOUS
<1>0. TypeOK
  BY DEF Typed
<1>1. ASSUME NEW s \in Starters, Proceed(s) \/ Falter(s) PROVE AllAccounted'
  BY <1>0, <1>1, ProceedAccounted, FalterAccounted
<1>2. ASSUME NEW s \in Starters, Claim(s) \/ ClaimFails(s) PROVE AllAccounted'
  BY <1>2, UnderWayAccounted DEF Claim, ClaimFails
<1>3. CASE StartFree
  <2>1. "hand" \in Starters /\ run["hand"].at = None /\ UnderWay("hand", TRUE)
    BY <1>3 DEF StartFree, Busy, Starters
  <2> QED
    BY <2>1, UnderWayAccounted
<1>4. ASSUME NEW s \in Starters, Look(s) PROVE AllAccounted'
  <2>1. /\ job' = job /\ item' = item /\ mute' = mute /\ run'[s].at = Looked
        /\ \A t \in Starters : t # s => run'[t] = run[t]
    BY <1>4, LookRuns DEF Look, History
  <2> QED
    BY <1>0, <2>1, ToAMark, WalkAccounted
<1>5. ASSUME UNCHANGED <<job, run, item, mute>> PROVE AllAccounted'
  BY <1>0, <1>5, AccountedOn
<1>6. CASE NewPeriod
  <2>1. \A s \in Starters : /\ run'[s].at = run[s].at
                            /\ run'[s].batch = run[s].batch
    BY <1>6, PeriodRuns
  <2>2. job' = job /\ mute' = mute /\ item' = item
    BY <1>6 DEF NewPeriod
  <2> QED
    BY <1>0, <2>1, <2>2, AccountedOn
<1>7. CASE Crash
  <2>1. \A s \in Starters : run'[s] = Over
    BY <1>7 DEF Crash
  <2>2. job' = job /\ mute' = mute /\ item' = item
    BY <1>7 DEF Crash, History
  <2> QED
    BY <1>0, <2>1, <2>2, AccountedOn
<1>8. ASSUME NEW i \in Items, Arrive(i) \/ Lapse(i) \/ Rest(i) PROVE AllAccounted'
  <2>1. job' = job /\ mute' = mute /\ run' = run
    BY <1>8 DEF Arrive, Lapse, Rest, History
  <2>2. \A k \in Items : /\ item'[k].told = item[k].told
                         /\ item'[k].marks = item[k].marks
    BY <1>0, <1>8, TimePasses
  <2> QED
    BY <1>0, <2>1, <2>2, AccountedOn
<1> QED
  BY <1>1, <1>2, <1>3, <1>4, <1>5, <1>6, <1>7, <1>8
     DEF Next, Begin, Refused, AskRefresh, Restart, History, vars

\* A question that counts as pinged was pinged as often, an update marked as
\* used was read out, a dashboard on record was sent, unless there was no
\* channel or the message had no room: each mark follows its post, and a run
\* that fails, returns or is cut off in between leaves the mark out
\* (every script of cogs/AutonomousOps.py and its mixins).
THEOREM NothingLost == Spec => []NeverLost
<1>1. Init => AllAccounted
  <2> SUFFICES ASSUME Init, job \notin MarkFirst, NEW i \in Items
               PROVE  Accounted(i)
    BY DEF AllAccounted
  <2>1. TypeOK
    BY TypedInit DEF Typed
  <2>2. \A s \in Starters : run[s] = Over
    BY DEF Init
  <2>3. \A s \in Starters : Pending(s, i) = 0
    BY <2>1, <2>2, OverIsRun, ToAMark DEF Pending, None
  <2>4. Owed(i) = 0
    BY <2>3 DEF Owed, Starters
  <2>5. item[i].marks = 0 /\ item[i].told = 0
    BY DEF Init
  <2> QED
    BY <2>4, <2>5 DEF Accounted
<1>2. Typed /\ AllAccounted => NeverLost
  <2> SUFFICES ASSUME Typed, AllAccounted, job \notin MarkFirst, ~mute,
                      NEW i \in Items
               PROVE  item[i].marks <= item[i].told
    BY DEF NeverLost
  <2>1. Accounted(i)
    BY DEF AllAccounted
  <2>2. /\ J.times \in Nat /\ item[i].marks \in Nat /\ item[i].marks <= J.times
        /\ item[i].told \in Nat
    BY ItemNumbers DEF Typed
  <2>3. Owed(i) \in Nat
    <3>1. \A s \in Starters : Pending(s, i) \in 0..1
      BY DEF Pending
    <3> QED
      BY <3>1 DEF Owed, Starters
  <2> QED
    BY <2>1, <2>2, <2>3 DEF Accounted
<1> QED
  BY <1>1, <1>2, TypedInit, TypedStep, AccountedStep, PTL DEF Spec

-----------------------------------------------------------------------------
(* What is marked first is posted about once.                              *)

\* Where a job that marks first posts; it marks right before, and looks before
\* that.
PostAt == PostPlace(J)

\* Up to its look a run has nothing in hand; then what nobody posted about,
\* which is marked by the time it posts.
Carries(r, it) ==
    /\ r.at \in 1..(PostAt - 2) => r.batch = {}
    /\ r.at \in {PostAt - 1, PostAt} => \A i \in r.batch : it[i].told = 0
    /\ r.at = PostAt - 1 => \A i \in r.batch \ r.left : it[i].marks > 0
    /\ r.at = PostAt => \A i \in r.batch : it[i].marks > 0

\* As long as no two runs meet, there is one at a time, and it carries what it
\* should.
OneCarries ==
    ~met /\ job \in MarkFirst =>
       /\ \A i \in Items : item[i].told <= item[i].marks
       /\ \A s \in Starters : Started(s) =>
             /\ Carries(run[s], item)
             /\ \A t \in Starters : Started(t) => t = s

LEMMA MarkFirstShape ==
    ASSUME TypeOK, job \in MarkFirst
    PROVE  /\ J.times = 1 /\ PostAt \in {3, 4} /\ PostAt <= Length
           /\ Length \in 1..7 /\ End > PostAt
           /\ \A k \in 1..Length :
                /\ J.steps[k].do \in {"work", "look", "mark", "markeach", "post"}
                /\ J.steps[k].do = "look" <=> k = PostAt - 2
                /\ J.steps[k].do = "post" <=> k = PostAt
                /\ J.steps[k].do \in {"mark", "markeach"} <=> k = PostAt - 1
                /\ J.steps[k].to # 0 => k = PostAt - 2
                /\ k = PostAt - 1 => J.steps[k].or \subseteq {"fail"}
<1>1. PostsAfterMarking(J)
  BY ScriptShapes DEF TypeOK, J
<1>2. PostAt \in {3, 4}
  BY DEF PostAt, PostPlace
<1>3. /\ J.times = 1 /\ PostAt <= Length
      /\ \A k \in 1..Length :
           /\ J.steps[k].do \in {"work", "look", "mark", "markeach", "post"}
           /\ J.steps[k].do = "look" <=> k = PostAt - 2
           /\ J.steps[k].do = "post" <=> k = PostAt
           /\ J.steps[k].do \in {"mark", "markeach"} <=> k = PostAt - 1
           /\ J.steps[k].to # 0 => k = PostAt - 2
      /\ J.steps[PostAt - 1].or \subseteq {"fail"}
  BY <1>1, Zenon DEF PostsAfterMarking, PostAt, Length
<1>4. Length \in 1..7 /\ End = Length + 1
  BY ScriptOfJob
<1>5. End > PostAt
  BY <1>2, <1>3, <1>4
<1> QED
  BY <1>2, <1>3, <1>4, <1>5

LEMMA MarkFirstStep ==
    ASSUME TypeOK, job \in MarkFirst, NEW s \in Starters, Stepping(s)
    PROVE  /\ At(s).do \in {"work", "look", "mark", "markeach", "post"}
           /\ At(s).do = "look" <=> run[s].at = PostAt - 2
           /\ At(s).do = "post" <=> run[s].at = PostAt
           /\ At(s).do \in {"mark", "markeach"} <=> run[s].at = PostAt - 1
           /\ At(s).to # 0 => run[s].at = PostAt - 2
           /\ run[s].at = PostAt - 1 => At(s).or \subseteq {"fail"}
           /\ run[s].at \in 1..7 /\ PostAt \in {3, 4}
           /\ Next1(s) = run[s].at + 1
           /\ To(s) = IF At(s).to = 0 THEN Next1(s) ELSE At(s).to
<1>1. /\ run[s].at \in 1..Length /\ Next1(s) = run[s].at + 1
      /\ To(s) = IF At(s).to = 0 THEN Next1(s) ELSE At(s).to
  BY Places
<1>2. run[s].at \in 1..7 /\ PostAt \in {3, 4}
  BY <1>1, MarkFirstShape
<1> QED
  BY <1>1, <1>2, MarkFirstShape DEF At

\* The items of a job that marks first.
LEMMA OnceNumbers ==
    ASSUME TypeOK, job \in MarkFirst, NEW i \in Items
    PROVE  item[i].marks \in 0..1 /\ item[i].told \in 0..2
<1>1. /\ J.times = 1
      /\ item[i].marks \in Nat /\ item[i].marks <= J.times
      /\ item[i].told \in Nat /\ item[i].told <= J.times + 1
  BY ItemNumbers, MarkFirstShape
<1> QED
  BY <1>1

\* The others have not started.
LEMMA CarriesOn ==
    ASSUME TypeOK, OneCarries, job' = job, met' = met, NEW s \in Starters,
           GoesOn(s),
           ~met /\ job \in MarkFirst =>
              /\ \A i \in Items : item'[i].told <= item'[i].marks
              /\ run'[s] = Over \/ Carries(run'[s], item')
    PROVE  OneCarries'
<1> SUFFICES ASSUME ~met', job' \in MarkFirst
             PROVE  /\ \A i \in Items : item'[i].told <= item'[i].marks
                    /\ \A t \in Starters : Started(t)' =>
                         /\ Carries(run[t], item)'
                         /\ \A u \in Starters : Started(u)' => u = t
  BY DEF OneCarries
<1>1. \A t \in Starters : Started(t)' => t = s
  BY DEF OneCarries, GoesOn, Started
<1>2. Started(s)' => run'[s] # Over
  BY OverIsRun DEF Started
<1>3. PostAt' = PostAt
  BY SameItems DEF PostAt
<1>4. Started(s)' => Carries(run[s], item)'
  BY <1>2, <1>3 DEF Carries
<1> QED
  BY <1>1, <1>4

\* A run with nothing in hand, or past its post, may go where it likes.
LEMMA FreeToGo ==
    ASSUME TypeOK, OneCarries, job' = job, met' = met, NEW s \in Starters,
           GoesOn(s), item' = item,
           ~met /\ job \in MarkFirst =>
              \/ run'[s] = Over
              \/ run'[s].at > PostAt
              \/ run'[s].batch = {}
    PROVE  OneCarries'
<1> SUFFICES ASSUME ~met, job \in MarkFirst
             PROVE  /\ \A i \in Items : item'[i].told <= item'[i].marks
                    /\ run'[s] = Over \/ Carries(run'[s], item')
  BY CarriesOn
<1>1. \A i \in Items : item'[i].told <= item'[i].marks
  BY DEF OneCarries
<1>2. PostAt \in {3, 4} /\ run'[s] \in Run
  BY MarkFirstShape DEF GoesOn
<1>3. run'[s].at \in Int
  BY <1>2 DEF Run
<1>4. run'[s] # Over => Carries(run'[s], item')
  BY <1>2, <1>3 DEF Carries
<1> QED
  BY <1>1, <1>4

\* From its look or before, with nothing, or from its post or after.
LEMMA WalkCarries ==
    ASSUME TypeOK, OneCarries, NEW s \in Starters, Stepping(s), job' = job,
           met' = met, item' = item, NEW k \in 1..8,
           run' = [run EXCEPT ![s].at = k],
           job \in MarkFirst =>
              \/ k > PostAt
              \/ run[s].at <= PostAt - 2
    PROVE  OneCarries'
<1>1. GoesOn(s) /\ run'[s].at = k /\ run'[s].batch = run[s].batch
  BY WalkGoesOn
<1>2. ASSUME ~met, job \in MarkFirst, run[s].at <= PostAt - 2
      PROVE  run'[s].batch = {}
  <2>1. run[s].at \in 1..(PostAt - 2) /\ Started(s)
    BY <1>2, MarkFirstStep, Places
  <2> QED
    BY <1>1, <1>2, <2>1 DEF OneCarries, Carries
<1> QED
  BY <1>1, <1>2, FreeToGo

LEMMA LookCarries ==
    ASSUME TypeOK, OneCarries, NEW s \in Starters, DoLook(s)
    PROVE  OneCarries'
<1>1. /\ Stepping(s) /\ At(s).do = "look" /\ job' = job /\ met' = met
      /\ item' = item /\ Due \in SUBSET Items
      /\ run' = [run EXCEPT ![s].at = Next1(s), ![s].batch = Due, ![s].left = Due]
  BY DEF DoLook, Same, Due
<1>2. /\ GoesOn(s) /\ run'[s].at = Next1(s) /\ run'[s].batch = Due
      /\ run'[s].left = Due
  BY <1>1, BatchGoesOn
<1> SUFFICES ASSUME ~met, job \in MarkFirst
             PROVE  /\ \A i \in Items : item'[i].told <= item'[i].marks
                    /\ run'[s] = Over \/ Carries(run'[s], item')
  BY <1>1, <1>2, CarriesOn
<1>3. \A i \in Due : item[i].told = 0
  <2> TAKE i \in Due
  <2>1. i \in Items /\ item[i].marks < 1
    BY MarkFirstShape DEF Due
  <2>2. item[i].told <= item[i].marks
    BY <2>1 DEF OneCarries
  <2> QED
    BY <2>1, <2>2, OnceNumbers
<1>4. run'[s].at = PostAt - 1 /\ PostAt \in {3, 4}
  BY <1>1, <1>2, MarkFirstStep
<1>5. Carries(run'[s], item')
  <2>1. /\ run'[s].batch \ run'[s].left = {}
        /\ \A i \in run'[s].batch : item'[i].told = 0
    BY <1>1, <1>2, <1>3
  <2> QED
    BY <1>4, <2>1 DEF Carries
<1> QED
  BY <1>1, <1>5 DEF OneCarries

\* A post, whole or cut.
LEMMA PostCarries ==
    ASSUME TypeOK, OneCarries, NEW s \in Starters, Stepping(s), Posted(s),
           At(s).do = "post", job' = job, met' = met,
           NEW some \in SUBSET run[s].batch,
           item' = [i \in Items |-> IF i \in some THEN Told(i) ELSE item[i]]
    PROVE  OneCarries'
<1>1. GoesOn(s) /\ run'[s].at = Next1(s)
  BY PostedGoesOn
<1> SUFFICES ASSUME ~met, job \in MarkFirst
             PROVE  /\ \A i \in Items : item'[i].told <= item'[i].marks
                    /\ run'[s] = Over \/ Carries(run'[s], item')
  BY <1>1, CarriesOn
<1>2. /\ run[s].at = PostAt /\ PostAt \in {3, 4} /\ Started(s)
      /\ run'[s].at = PostAt + 1
  BY <1>1, MarkFirstStep, Places
<1>3. ASSUME NEW i \in Items PROVE item'[i].told <= item'[i].marks
  <2>1. CASE i \notin some
    BY <2>1 DEF OneCarries
  <2>2. CASE i \in some
    <3>1. item[i].told = 0 /\ item[i].marks > 0
      BY <1>2, <2>2 DEF OneCarries, Carries
    <3>2. /\ item'[i].told = OneMore(item[i].told, 2)
          /\ item'[i].marks = item[i].marks
      BY <2>2, ItemTypes, MarkFirstShape
    <3> QED
      BY <3>1, <3>2, OnceNumbers DEF OneMore
  <2> QED
    BY <2>1, <2>2
<1>4. Carries(run'[s], item')
  BY <1>2 DEF Carries
<1> QED
  BY <1>3, <1>4

\* An item that is marked counts as marked, and is told about as before.
LEMMA MarkedCounts ==
    ASSUME TypeOK, job \in MarkFirst, NEW i \in Items
    PROVE  /\ Marked(i).marks > 0 /\ Marked(i).told = item[i].told
           /\ item[i].told <= item[i].marks => Marked(i).told <= Marked(i).marks
<1>1. /\ Marked(i).told = item[i].told
      /\ Marked(i).marks = OneMore(item[i].marks, 1)
  BY ItemTypes, MarkFirstShape
<1> QED
  BY <1>1, OnceNumbers DEF OneMore

LEMMA MarkCarries ==
    ASSUME TypeOK, OneCarries, NEW s \in Starters, DoMark(s)
    PROVE  OneCarries'
<1>1. /\ Stepping(s) /\ At(s).do = "mark" /\ job' = job /\ met' = met
      /\ run' = [run EXCEPT ![s].at = Next1(s)]
      /\ item' = [i \in Items |-> IF i \in run[s].batch THEN Marked(i) ELSE item[i]]
  BY DEF DoMark, Same
<1>2. GoesOn(s) /\ run'[s].at = Next1(s) /\ run'[s].batch = run[s].batch
  BY <1>1, Places, WalkGoesOn
<1> SUFFICES ASSUME ~met, job \in MarkFirst
             PROVE  /\ \A i \in Items : item'[i].told <= item'[i].marks
                    /\ run'[s] = Over \/ Carries(run'[s], item')
  BY <1>1, <1>2, CarriesOn
<1>3. /\ run[s].at = PostAt - 1 /\ PostAt \in {3, 4} /\ Started(s)
      /\ run'[s].at = PostAt /\ run[s].batch \in SUBSET Items
  BY <1>1, <1>2, MarkFirstStep, Places DEF Run
<1>4. \A i \in Items : item'[i].told <= item'[i].marks
  BY <1>1, MarkedCounts DEF OneCarries
<1>5. \A i \in run[s].batch : item[i].told = 0
  BY <1>3 DEF OneCarries, Carries
<1>6. \A i \in run'[s].batch : item'[i].told = 0 /\ item'[i].marks > 0
  BY <1>1, <1>2, <1>3, <1>5, MarkedCounts
<1>7. Carries(run'[s], item')
  BY <1>3, <1>6 DEF Carries
<1> QED
  BY <1>4, <1>7

LEMMA MarkEachCarries ==
    ASSUME TypeOK, OneCarries, NEW s \in Starters, DoMarkEach(s)
    PROVE  OneCarries'
<1>1. Stepping(s) /\ At(s).do = "markeach" /\ job' = job /\ met' = met
  BY DEF DoMarkEach, Same
<1>2. PICK i \in run[s].left :
         /\ item' = [item EXCEPT ![i] = Marked(i)]
         /\ run' = [run EXCEPT ![s].left = @ \ {i},
                               ![s].at = IF run[s].left = {i} THEN Next1(s) ELSE @]
  BY DEF DoMarkEach
<1>3. /\ GoesOn(s) /\ run'[s].batch = run[s].batch
      /\ run'[s].left = run[s].left \ {i}
      /\ run'[s].at = IF run[s].left = {i} THEN Next1(s) ELSE run[s].at
  BY <1>1, <1>2, LeftGoesOn
<1> SUFFICES ASSUME ~met, job \in MarkFirst
             PROVE  /\ \A j \in Items : item'[j].told <= item'[j].marks
                    /\ run'[s] = Over \/ Carries(run'[s], item')
  BY <1>1, <1>3, CarriesOn
<1>4. /\ run[s].at = PostAt - 1 /\ PostAt \in {3, 4} /\ Started(s)
      /\ run[s].batch \in SUBSET Items /\ i \in Items
      /\ Next1(s) = PostAt
  BY <1>1, <1>2, MarkFirstStep, Places DEF Run
<1>5. \A j \in Items : item'[j] = IF j = i THEN Marked(i) ELSE item[j]
  BY <1>2, <1>4 DEF TypeOK
<1>6. \A j \in Items : item'[j].told <= item'[j].marks
  BY <1>4, <1>5, MarkedCounts DEF OneCarries
<1>7. /\ \A j \in run[s].batch : item[j].told = 0
      /\ \A j \in run[s].batch \ run[s].left : item[j].marks > 0
  BY <1>4 DEF OneCarries, Carries
<1>8. /\ \A j \in run'[s].batch : item'[j].told = 0
      /\ \A j \in run'[s].batch \ run'[s].left : item'[j].marks > 0
  BY <1>3, <1>4, <1>5, <1>7, MarkedCounts
<1>9. Carries(run'[s], item')
  <2>1. CASE run[s].left = {i}
    <3>1. run'[s].left = {} /\ run'[s].at = PostAt
      BY <1>3, <1>4, <2>1
    <3> QED
      BY <1>4, <1>8, <3>1 DEF Carries
  <2>2. CASE run[s].left # {i}
    <3>1. run'[s].at = PostAt - 1
      BY <1>3, <1>4, <2>2
    <3> QED
      BY <1>4, <1>8, <3>1 DEF Carries
  <2> QED
    BY <2>1, <2>2
<1> QED
  BY <1>6, <1>9

LEMMA ProceedCarries ==
    ASSUME TypeOK, OneCarries, NEW s \in Starters, Proceed(s)
    PROVE  OneCarries'
<1>1. GoesOn(s) /\ job' = job /\ met' = met
  BY ProceedGoesOn
<1>2. CASE DoWork(s)
  <2>1. /\ Stepping(s) /\ At(s).do = "work" /\ item' = item
        /\ run' = [run EXCEPT ![s].at = Next1(s)]
    BY <1>2 DEF DoWork
  <2>2. job \in MarkFirst => Next1(s) > PostAt \/ run[s].at <= PostAt - 2
    <3> SUFFICES ASSUME job \in MarkFirst, run[s].at > PostAt - 2
                 PROVE  Next1(s) > PostAt
      BY <2>1, MarkFirstStep
    <3>1. /\ run[s].at # PostAt - 1 /\ run[s].at # PostAt
          /\ run[s].at \in 1..7 /\ PostAt \in {3, 4} /\ Next1(s) = run[s].at + 1
      BY <2>1, MarkFirstStep
    <3> QED
      BY <3>1
  <2> QED
    BY <1>1, <2>1, <2>2, Places, WalkCarries
<1>3. CASE DoLook(s)
  BY <1>3, LookCarries
<1>4. CASE DoEach(s)
  <2>1. job \notin MarkFirst
    BY <1>4, MarkFirstStep DEF DoEach
  <2> QED
    BY <1>1, <2>1 DEF OneCarries
<1>5. CASE DoPost(s)
  <2>1. /\ Stepping(s) /\ Posted(s) /\ At(s).do = "post"
        /\ item' = [i \in Items |-> IF i \in run[s].batch THEN Told(i)
                                    ELSE item[i]]
        /\ run[s].batch \in SUBSET run[s].batch
    BY <1>5 DEF DoPost
  <2> QED
    BY <1>1, <2>1, PostCarries
<1>6. CASE DoMark(s)
  BY <1>6, MarkCarries
<1>7. CASE DoMarkEach(s)
  BY <1>7, MarkEachCarries
<1>8. CASE Complete(s)
  <2>1. item' = item /\ run'[s] = Over
    BY <1>8 DEF Complete, TypeOK
  <2> QED
    BY <1>1, <2>1, FreeToGo
<1> QED
  BY <1>2, <1>3, <1>4, <1>5, <1>6, <1>7, <1>8 DEF Proceed

LEMMA FalterCarries ==
    ASSUME TypeOK, OneCarries, NEW s \in Starters, Falter(s)
    PROVE  OneCarries'
<1>1. GoesOn(s) /\ job' = job /\ met' = met
  BY FalterGoesOn
<1>2. CASE PostCut(s)
  <2>1. Stepping(s) /\ Posted(s) /\ "cut" \in At(s).or
    BY <1>2 DEF PostCut
  <2>2. At(s).do = "post"
    BY <2>1, ScriptOfJob, Places DEF At
  <2>3. PICK some \in SUBSET run[s].batch :
           item' = [i \in Items |-> IF i \in some THEN Told(i) ELSE item[i]]
    BY <1>2 DEF PostCut
  <2> QED
    BY <1>1, <2>1, <2>2, <2>3, PostCarries
<1>3. CASE GoOver(s)
  <2>1. /\ Stepping(s) /\ item' = item /\ "over" \in At(s).or
        /\ run' = [run EXCEPT ![s].at = To(s)]
    BY <1>3 DEF GoOver, Otherwise
  <2>2. job \in MarkFirst => To(s) > PostAt \/ run[s].at <= PostAt - 2
    <3> SUFFICES ASSUME job \in MarkFirst, run[s].at > PostAt - 2
                 PROVE  To(s) > PostAt
      BY <2>1, MarkFirstStep
    <3>1. /\ run[s].at # PostAt - 1 /\ run[s].at # PostAt - 2
          /\ run[s].at \in 1..7 /\ PostAt \in {3, 4}
      BY <2>1, MarkFirstStep
    <3>2. To(s) = run[s].at + 1
      BY <2>1, <3>1, MarkFirstStep
    <3> QED
      BY <3>1, <3>2
  <2> QED
    BY <1>1, <2>1, <2>2, Places, WalkCarries
<1>4. ASSUME item' = item, run'[s] = Over PROVE OneCarries'
  BY <1>1, <1>4, FreeToGo
<1>5. ASSUME item' = item, Stepping(s), run' = [run EXCEPT ![s].at = End]
      PROVE  OneCarries'
  <2>1. End \in 1..8
    BY <1>5, Places
  <2> QED
    BY <1>1, <1>5, <2>1, MarkFirstShape, WalkCarries
<1>6. CASE Quit(s) \/ CompleteFails(s)
  BY <1>4, <1>6 DEF Quit, CompleteFails, TypeOK
<1>7. CASE NothingToDo(s)
  BY <1>5, <1>7 DEF NothingToDo, Otherwise
<1>8. CASE Raise(s)
  <2>1. CASE run' = [run EXCEPT ![s] = Over]
    BY <1>4, <1>8, <2>1 DEF Raise, TypeOK
  <2>2. CASE run' = [run EXCEPT ![s].at = End]
    BY <1>5, <1>8, <2>2 DEF Raise
  <2> QED
    BY <1>8, <2>1, <2>2 DEF Raise
<1> QED
  BY <1>2, <1>3, <1>6, <1>7, <1>8 DEF Falter

\* A run gets under way alone, or it meets another.
LEMMA UnderWayCarries ==
    ASSUME Typed, OneCarries, NEW s \in Starters, NEW f \in BOOLEAN,
           UnderWay(s, f), run[s].at \in {None, Looked}
    PROVE  OneCarries'
<1>1. /\ \A t \in Starters : t # s => run'[t] = run[t]
      /\ run'[s].at = 1 /\ run'[s].batch = {} /\ job' = job /\ item' = item
  BY UnderWayRuns
<1>2. met' = (met \/ (job \in MarkFirst /\ \E t \in Starters \ {s} : Busy(t)))
  BY DEF UnderWay
<1> SUFFICES ASSUME ~met', job' \in MarkFirst
             PROVE  /\ \A i \in Items : item'[i].told <= item'[i].marks
                    /\ \A t \in Starters : Started(t)' =>
                         /\ Carries(run[t], item)'
                         /\ \A u \in Starters : Started(u)' => u = t
  BY DEF OneCarries
<1>3. ~met /\ \A t \in Starters : t # s => run[t].at = 0
  BY <1>1, <1>2 DEF Busy, None
<1>4. \A t \in Starters : Started(t)' => t = s
  BY <1>1, <1>3 DEF Started
<1>5. PostAt' \in {3, 4}
  BY DEF PostAt, PostPlace
<1>6. Carries(run[s], item)'
  BY <1>1, <1>5 DEF Carries
<1> QED
  BY <1>1, <1>3, <1>4, <1>6 DEF OneCarries

\* Runs that have started stay as they are, or have just ended; the items are
\* as marked and told about.
LEMMA CarriedOn ==
    ASSUME OneCarries, job' = job, met' = met,
           \A s \in Starters : Started(s)' =>
              /\ Started(s)
              /\ run'[s].at = run[s].at /\ run'[s].batch = run[s].batch
              /\ run'[s].left = run[s].left,
           \A i \in Items : /\ item'[i].told = item[i].told
                            /\ item'[i].marks = item[i].marks,
           \A s \in Starters : run[s] \in Run
    PROVE  OneCarries'
<1> SUFFICES ASSUME ~met, job \in MarkFirst
             PROVE  /\ \A i \in Items : item'[i].told <= item'[i].marks
                    /\ \A t \in Starters : Started(t)' =>
                         /\ Carries(run[t], item)'
                         /\ \A u \in Starters : Started(u)' => u = t
  BY DEF OneCarries
<1>1. PostAt' = PostAt
  BY SameItems DEF PostAt
<1>2. ASSUME NEW t \in Starters, Started(t)' PROVE Carries(run[t], item)'
  <2>1. /\ Carries(run[t], item) /\ run[t].batch \subseteq Items
        /\ run'[t].at = run[t].at /\ run'[t].batch = run[t].batch
        /\ run'[t].left = run[t].left
    BY <1>2 DEF OneCarries, Run
  <2> QED
    BY <1>1, <2>1 DEF Carries
<1> QED
  BY <1>2 DEF OneCarries

LEMMA CarriesStep == Typed /\ OneCarries /\ [Next]_vars => OneCarries'
<1> SUFFICES ASSUME Typed, OneCarries, [Next]_vars PROVE OneCarries'
  OBVIOUS
<1>0. TypeOK /\ \A s \in Starters : run[s] \in Run
  BY DEF Typed, TypeOK
<1>1. ASSUME NEW s \in Starters, Proceed(s) \/ Falter(s) PROVE OneCarries'
  BY <1>0, <1>1, ProceedCarries, FalterCarries
<1>2. ASSUME NEW s \in Starters, Claim(s) \/ ClaimFails(s) PROVE OneCarries'
  BY <1>2, UnderWayCarries DEF Claim, ClaimFails
<1>3. CASE StartFree
  <2>1. "hand" \in Starters /\ run["hand"].at = None /\ UnderWay("hand", TRUE)
    BY <1>3 DEF StartFree, Busy, Starters
  <2> QED
    BY <2>1, UnderWayCarries
<1>4. ASSUME NEW s \in Starters, Look(s) PROVE OneCarries'
  <2>1. /\ job' = job /\ item' = item /\ met' = met /\ run'[s].at = Looked
        /\ \A t \in Starters : t # s => run'[t] = run[t]
    BY <1>4, LookRuns DEF Look, History
  <2>2. \A t \in Starters : Started(t)' => Started(t) /\ run'[t] = run[t]
    BY <2>1 DEF Started, Looked
  <2> QED
    BY <1>0, <2>1, <2>2, CarriedOn
<1>5. ASSUME UNCHANGED <<job, run, item, met>> PROVE OneCarries'
  BY <1>0, <1>5, CarriedOn DEF Started
<1>6. CASE NewPeriod
  <2>1. \A s \in Starters : /\ run'[s].at = run[s].at
                            /\ run'[s].batch = run[s].batch
                            /\ run'[s].left = run[s].left
    BY <1>6, PeriodRuns
  <2>2. job' = job /\ met' = met /\ item' = item
    BY <1>6 DEF NewPeriod
  <2> QED
    BY <1>0, <2>1, <2>2, CarriedOn DEF Started
<1>7. CASE Crash
  <2>1. \A s \in Starters : run'[s] = Over
    BY <1>7 DEF Crash
  <2>2. job' = job /\ met' = met /\ item' = item
    BY <1>7 DEF Crash, History
  <2>3. \A s \in Starters : ~Started(s)'
    BY <2>1, OverIsRun DEF Started
  <2> QED
    BY <1>0, <2>2, <2>3, CarriedOn
<1>8. ASSUME NEW i \in Items, Arrive(i) \/ Lapse(i) \/ Rest(i) PROVE OneCarries'
  <2>1. job' = job /\ met' = met /\ run' = run
    BY <1>8 DEF Arrive, Lapse, Rest, History
  <2>2. \A k \in Items : /\ item'[k].told = item[k].told
                         /\ item'[k].marks = item[k].marks
    BY <1>0, <1>8, TimePasses
  <2> QED
    BY <1>0, <2>1, <2>2, CarriedOn DEF Started
<1> QED
  BY <1>1, <1>2, <1>3, <1>4, <1>5, <1>6, <1>7, <1>8
     DEF Next, Begin, Refused, AskRefresh, Restart, History, vars

\* An opportunity is reported, a gap or a task escalated and a cancellation
\* announced at most once, however runs fail or are cut off, unless two of them
\* overlap: what a run posts about was not marked when it looked and is marked
\* when it posts, so no later run looks it up again
\* (database.py record_opportunity, KnowledgeGapTracker.py, ActionItems.py).
THEOREM NeverToldTwice == Spec => []NeverTwice
<1>1. Init => OneCarries
  <2> SUFFICES ASSUME Init PROVE OneCarries
    OBVIOUS
  <2>1. \A s \in Starters : run[s] = Over
    BY DEF Init
  <2>2. \A s \in Starters : ~Started(s)
    BY <2>1, OverIsRun DEF Started
  <2>3. \A i \in Items : item[i].told = 0 /\ item[i].marks = 0
    BY DEF Init
  <2> QED
    BY <2>2, <2>3 DEF OneCarries
<1>2. OneCarries => NeverTwice
  BY DEF OneCarries, NeverTwice
<1> QED
  BY <1>1, <1>2, TypedInit, TypedStep, CarriesStep, PTL DEF Spec

-----------------------------------------------------------------------------
(* The circuit breaker.                                                    *)

\* The streak of failures is at least what a closed breaker has counted: the
\* strengthening TripsOnConsecutiveFailures needs.
CountedIsStreak == state = "closed" => failureCount <= streak

\* The breaker's clock runs from the last failure of any call, and while it
\* probes a cooldown has passed and what it counts came after: the
\* strengthening RecoveryIsEarned needs.
ClockIsQuiet ==
    /\ sinceFailure = quiet
    /\ state = "half_open" => quiet = Cooldown /\ successCount <= wins

BreakerInv ==
    BreakerTypeOK /\ CountsBelowThresholds /\ CountedIsStreak /\ ClockIsQuiet

\* Reading the breaker keeps its part of the invariant.
LEMMA ReadKeepsCounts ==
    ASSUME BreakerInv, ReadState, UNCHANGED <<failureCount, sinceFailure, history>>
    PROVE  /\ state' \in States
           /\ successCount' \in 0..SuccessThreshold
           /\ CountsBelowThresholds'
           /\ CountedIsStreak'
           /\ ClockIsQuiet'
  BY BreakerAssumption
     DEF BreakerInv, BreakerTypeOK, CountsBelowThresholds, CountedIsStreak, ClockIsQuiet,
         history, ReadState,
         StateRead, SuccessesRead, CooledDown, States

\* Every step of the breaker keeps the invariant.
LEMMA BreakerInvStep == BreakerInv /\ [BreakerNext]_breakerVars => BreakerInv'
<1> SUFFICES ASSUME BreakerInv, [BreakerNext]_breakerVars PROVE BreakerInv'
  OBVIOUS
<1> USE BreakerAssumption
<1>1. ASSUME NEW c \in Callers, AllowRequest(c) PROVE BreakerInv'
  <2>1. call' \in [Callers -> CallKinds]
    BY <1>1 DEF BreakerInv, BreakerTypeOK, AllowRequest, StateRead, CallKinds, States
  <2>2. ReadState /\ UNCHANGED <<failureCount, sinceFailure, history>>
    BY <1>1 DEF AllowRequest
  <2> QED
    BY <1>1, <2>1, <2>2, ReadKeepsCounts DEF BreakerInv, BreakerTypeOK, AllowRequest, history
<1>2. ASSUME NEW c \in Callers, RecordSuccess(c) PROVE BreakerInv'
  BY <1>2 DEF BreakerInv, BreakerTypeOK, CountsBelowThresholds, CountedIsStreak, ClockIsQuiet,
              RecordSuccess, Recovered, FailuresAfterSuccess, States, CallKinds
<1>3. ASSUME NEW c \in Callers, RecordFailure(c) PROVE BreakerInv'
  BY <1>3 DEF BreakerInv, BreakerTypeOK, CountsBelowThresholds, CountedIsStreak, ClockIsQuiet,
              RecordFailure, CoolingAfterFailure, States, CallKinds
<1>4. ASSUME NEW c \in Callers, Cancel(c) PROVE BreakerInv'
  BY <1>4 DEF BreakerInv, BreakerTypeOK, CountsBelowThresholds, CountedIsStreak, ClockIsQuiet,
              Cancel, counters, history, CallKinds
<1>5. CASE Status
  BY <1>5, ReadKeepsCounts DEF BreakerInv, BreakerTypeOK, Status, history
<1>6. CASE Reset
  BY <1>6 DEF BreakerInv, BreakerTypeOK, CountsBelowThresholds, CountedIsStreak, ClockIsQuiet,
              Reset, States
<1>7. CASE Tick
  BY <1>7 DEF BreakerInv, BreakerTypeOK, CountsBelowThresholds, CountedIsStreak, ClockIsQuiet,
              Tick, Later
<1>8. CASE UNCHANGED breakerVars
  BY <1>8 DEF BreakerInv, BreakerTypeOK, CountsBelowThresholds, CountedIsStreak, ClockIsQuiet,
              breakerVars, counters, history
<1> QED
  BY <1>1, <1>2, <1>3, <1>4, <1>5, <1>6, <1>7, <1>8 DEF BreakerNext

\* The invariant holds throughout every run of the breaker.
LEMMA BreakerInvariant == BreakerSpec => []BreakerInv
<1>1. BreakerInit => BreakerInv
  BY BreakerAssumption
     DEF BreakerInit, BreakerInv, BreakerTypeOK, CountsBelowThresholds, CountedIsStreak, ClockIsQuiet,
         States, CallKinds
<1> QED
  BY <1>1, BreakerInvStep, PTL DEF BreakerSpec

\* A closed breaker is always short of tripping and a probing one short of
\* closing, so one stale count never decides an episode (circuit_breaker.py:
\* 79, 103, 111).
THEOREM CountsStayBelowThresholds == BreakerSpec => []CountsBelowThresholds
<1>1. BreakerInv => CountsBelowThresholds
  BY DEF BreakerInv
<1> QED
  BY <1>1, BreakerInvariant, PTL

\* A step that trips the breaker records at least FailureThreshold failures
\* without a success between them (circuit_breaker.py:59, 125-129).
THEOREM OnlyConsecutiveFailuresTrip == BreakerSpec => TripsOnConsecutiveFailures
<1> DEFINE Trip == state = "closed" /\ state' = "open"
                     => streak' >= FailureThreshold
<1>1. BreakerInv /\ [BreakerNext]_breakerVars => [Trip]_breakerVars
  <2> SUFFICES ASSUME BreakerInv, BreakerNext, state = "closed", state' = "open"
               PROVE  streak' >= FailureThreshold
    OBVIOUS
  <2>1. PICK c \in Callers : RecordFailure(c)
    BY DEF BreakerNext, AllowRequest, Status, ReadState, StateRead, CooledDown,
           RecordSuccess, Recovered, Cancel, Reset, Tick
  <2> QED
    BY <2>1, BreakerAssumption
       DEF RecordFailure, BreakerInv, BreakerTypeOK, CountedIsStreak
<1> QED
  BY <1>1, BreakerInvariant, PTL DEF BreakerSpec, TripsOnConsecutiveFailures

\* Whatever calls are still out when the breaker trips, and in whatever order
\* they fail or succeed, it closes by itself only after SuccessThreshold
\* successes that no failure separates and a cooldown precedes
\* (circuit_breaker.py:76-79, 99-102, 114, 117-119).
THEOREM OnlyEarnedRecovery == BreakerSpec => RecoveryIsEarned
<1> DEFINE Earned == state = "half_open" /\ state' = "closed" =>
                       Reset \/ (quiet = Cooldown /\ wins' >= SuccessThreshold)
<1>1. BreakerInv /\ [BreakerNext]_breakerVars => [Earned]_breakerVars
  <2> SUFFICES ASSUME BreakerInv, BreakerNext, state = "half_open", state' = "closed",
                      ~Reset
               PROVE  quiet = Cooldown /\ wins' >= SuccessThreshold
    OBVIOUS
  <2>1. PICK c \in Callers : RecordSuccess(c)
    BY DEF BreakerNext, AllowRequest, Status, ReadState, StateRead, CooledDown,
           RecordFailure, Cancel, Tick
  <2>2. successCount + 1 >= SuccessThreshold
    BY <2>1 DEF RecordSuccess, Recovered
  <2>3. /\ quiet = Cooldown /\ successCount <= wins
        /\ successCount \in Nat /\ wins \in 0..SuccessThreshold
    BY BreakerAssumption DEF BreakerInv, BreakerTypeOK, ClockIsQuiet
  <2> QED
    BY <2>1, <2>2, <2>3, BreakerAssumption DEF RecordSuccess
<1> QED
  BY <1>1, BreakerInvariant, PTL DEF BreakerSpec, RecoveryIsEarned

=============================================================================
