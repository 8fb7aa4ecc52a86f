------------------------------ MODULE Handlers ------------------------------
(***************************************************************************)
(* All the handlers of the bot and of the web console, by name, and what   *)
(* they are known to do wrong.                                             *)
(***************************************************************************)
EXTENDS TaskHandlers, WebHandlers, TLC

Commands ==
    TaskCommands @@ GapCommands @@ ChatCommands @@ MeetingCommands @@ JobCommands
Views == TaskViews @@ GapViews
Controls == TaskControls @@ GapControls @@ ChatControls @@ MeetingControls

Interactions == AllIn(Command, Commands) @@ AllIn(InView, Views) @@ Controls
Requests == AllIn(Request, StreamRequests @@ WebRequests)
Others ==
    TaskOthers @@ GapOthers @@ ChatOthers @@ MeetingOthers @@ JobOthers
        @@ StreamOthers @@ WebOthers

Scripts == Interactions @@ Requests @@ Others

Firsts == {"ack", "ack ok"}
FollowUps == {"tell", "tell ok"}
Success == {"ack ok", "tell ok", "reply ok"}
Discord == Firsts \cup FollowUps \cup {"post"}

-----------------------------------------------------------------------------
(* What goes wrong is told handler by handler: the sets below name those   *)
(* that do not keep a property of SharedConnection, and no other handler   *)
(* is exempt.                                                              *)

\* Their interaction is answered twice, or followed up before it was answered.
AnswersTwice ==
    {"action_add",       \* an unreadable due date, after the text was improved
     "action_done",      \* a task described instead of numbered
     "remember_button"}  \* without the cog it tells, and has not answered

\* They end without an answer, or ask a model before they answer.
NeverAnswers ==
    {"ActionAddModal",   \* on_submit stands in the wrong class
     "add_agenda_item",  \* the body ends after its first check
     "remember_button"}
AnswersLate ==
    {"not_helpful_button", "ImprovementModal"} \* after a memo was written by a model

\* They tell of success whatever became of a write.
SwallowsFailure ==
    {"helpful_button", "not_helpful_button",
     "persistent_helpful_button", "persistent_not_helpful_button",
     "remember_slash", "remember_context", "remember_button", "save_btn",
     "ReclassifySelect", "AddDetailsModal",
     "parse_meeting", "MeetingNotesModal",
     "api_set_preference", "api_set_preferences_bulk", "api_import_preferences",
     "api_set_budget", "api_register_variant", "api_refine_prompts",
     "api_import_knowledge"}

\* One write of several fails, and the first ones stay on the connection, where
\* the next commit of anybody makes them last.
LeavesHalf ==
    {"InterviewModal", "SkipDispositionView", "end_session", "gap_curate", "gaps_bulk",
     "gaps_cleanup", "api_create_lead", "api_advance_lead", "api_lead_touchpoint",
     "api_tool_confirm", "api_import_knowledge", "api_set_preference"}
\* Each write of these stands for itself.
OneByOne ==
    {"bulk_done", "pm_on_message", "steward_daily_health_check", "api_refine_prompts",
     "api_set_preferences_bulk", "api_import_preferences"}

\* They keep a write open while they wait for a model or for Discord.
HoldsLock ==
    {"InterviewModal",                \* tasks are sought in the answer
     "curator_daily_scan", "curator_weekly_deep_analysis",
     "force_persona_meeting",         \* urgent takeaways are posted
     "not_helpful_button", "ImprovementModal"} \* the memo's note is never committed
=============================================================================
