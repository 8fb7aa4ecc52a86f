-------------------------- MODULE MeetingHandlers ---------------------------
(***************************************************************************)
(* The personas' meetings, the owner's commands and the set-up wizard:     *)
(* cogs/mixins/persona_meetings.py, cogs/mixins/admin_ops.py, the meeting  *)
(* command of cogs/mixins/agenda_ops.py, cogs/SetupWizard.py,              *)
(* core/onboarding_sprint.py, core/seed_foundational_gaps.py and the       *)
(* commands of leisureLLM.py.                                              *)
(***************************************************************************)
EXTENDS GapHandlers

post_to_bots_channel == Maybe(Try(Post))

-----------------------------------------------------------------------------
_check_partner_agenda == Try(Read)

_find_knowledge_tension ==
    Call(Maybe(Return) \o TryElse(Slow, Return) \o Maybe(Return) \o Try(Slow))

_check_db_triggers == Call(TryElse(Many(Read), Return) \o Maybe(Try(Read)))

_check_exercise_triggers ==
    _check_partner_agenda \o Maybe(_find_knowledge_tension \o Maybe(_check_db_triggers))

_load_persona_prompts == File

expire_agenda_items == Write \o Commit

\* What has been on record, what the index knows and what the web says.
meeting_web == Try(Many(Try(Slow)))

_gather_meeting_context ==
    Try(Many(Read) \o expire_agenda_items) \o Try(Many(Slow)) \o Maybe(meeting_web)

_generate_exercise_conversation == Call(Maybe(Return) \o _load_persona_prompts \o Try(Slow))

\* The agenda item is marked as discussed whether or not the result was posted.
_post_exercise_results == Call(Maybe(Return) \o Try(Post) \o Maybe(Try(Save)))

_hold_persona_exercise ==
    Call(Maybe(Return) \o _gather_meeting_context \o _generate_exercise_conversation
             \o Maybe(Return) \o _post_exercise_results)

hourly_persona_meeting ==
    Maybe(Return) \o _check_exercise_triggers \o Maybe(Return) \o StartRun \o Maybe(Return)
        \o Try(_hold_persona_exercise \o EndRun)

pick_topic == TryElse(Slow \o Many(Slow) \o Maybe(Return), Return)

exchange == Try(Slow)

wrap_up == Try(Slow)

_generate_persona_conversation ==
    Call(Maybe(Return) \o _load_persona_prompts \o Maybe(Return) \o pick_topic
             \o Many(exchange) \o Maybe(Return) \o wrap_up)

note_gap == Read \o Maybe(TryElse(Write, Write) \o Read)

\* A message about each urgent takeaway, with all of them still uncommitted.
_process_persona_meeting_takeaways ==
    LET takeaway ==
            Write \o Read \o Maybe(note_gap \o Read \o Maybe(Write))
                \o Maybe(Try(Post \o Maybe(Write)))
    IN  Call(Maybe(Return)
                 \o Try(Many(note_gap) \o Many(takeaway) \o Commit \o Maybe(Try(Post))))

_post_persona_meeting ==
    Call(Maybe(Return) \o Try(Many(Post)) \o Maybe(Try(Save))
             \o _process_persona_meeting_takeaways)

_hold_persona_meeting ==
    Call(Maybe(Try(Read)) \o _gather_meeting_context \o _generate_persona_conversation
             \o Maybe(Return) \o _post_persona_meeting)

force_persona_meeting ==
    Maybe(Refuse) \o Ack \o TryElse(Tell \o _hold_persona_meeting \o Tell, Tell)

weekly_persona_meeting_digest ==
    Maybe(Return) \o StartRun \o Maybe(Return)
        \o Try(Read \o Maybe(EndRun \o Return) \o Many(Post) \o Many(Write) \o Commit
                   \o EndRun)

-----------------------------------------------------------------------------
ingest ==
    Ack \o Tell \o TryElse(TryElse(Slow, Tell) \o Slow \o TellOk, Tell)

hire_persona == Maybe(Refuse) \o Ack

fire_persona ==
    Maybe(Refuse) \o Maybe(Refuse) \o TryElse(Read \o Maybe(Refuse) \o Ack, Ack)

list_staff == Maybe(Refuse) \o Ack \o Maybe(Try(Read)) \o Tell

dev_status == Ack \o Tell

set_bots_channel == Ack \o post_to_bots_channel

\* Database has no get_recent_job_runs: the report always fails.
db_status_command == Ack \o Maybe(RefuseLate) \o TryElse(Read \o Read \o Raise, Tell)

_reload_cogs_impl == Many(Try(Slow)) \o Many(Try(Slow))

reload_cogs == Ack \o TryElse(_reload_cogs_impl \o TellOk, Tell)

\* Its error is told as a follow-up even when nothing has been answered.
sync == TryElse(Ack \o Post \o Tell, Tell)

daily_reload == Try(_reload_cogs_impl)

-----------------------------------------------------------------------------
seed_foundational_gaps == Call(Maybe(Return) \o Many(Try(insert_gap)) \o Commit)

run_capture_sprint ==
    Many(Post \o TryElse(Slow, Post) \o Maybe(TryElse(File \o Post, Post))) \o Post

OrgInfoModal_on_submit == Ack

setup_command == Ack \o Slow \o Post

SetupView_finish ==
    TryElse(File \o File \o Maybe(Try(seed_foundational_gaps)) \o Ack
                \o Try(Maybe(Tell \o Slow \o Maybe(run_capture_sprint))),
            Ack)

sprint_command ==
    Maybe(Try(Read)) \o Ack \o Slow \o Maybe(run_capture_sprint)

-----------------------------------------------------------------------------
MeetingCommands ==
    [force_persona_meeting |-> force_persona_meeting,
     ingest |-> ingest,
     hire_persona |-> hire_persona,
     fire_persona |-> fire_persona,
     list_staff |-> list_staff,
     dev_status |-> dev_status,
     set_bots_channel |-> set_bots_channel,
     db_status |-> db_status_command,
     reload_cogs |-> reload_cogs,
     sync |-> sync,
     setup |-> setup_command,
     sprint |-> sprint_command]

MeetingControls ==
    [OrgInfoModal |-> OrgInfoModal_on_submit,
     SetupView_finish |-> SetupView_finish]

MeetingOthers ==
    [hourly_persona_meeting |-> hourly_persona_meeting,
     weekly_persona_meeting_digest |-> weekly_persona_meeting_digest,
     daily_reload |-> daily_reload,
     command_completion |-> on_app_command_completion]

=============================================================================
