---------------------------- MODULE TaskHandlers ----------------------------
(***************************************************************************)
(* What partners do about action items, agenda items and updates in        *)
(* Discord: cogs/ActionItems.py, cogs/mixins/agenda_ops.py,                *)
(* cogs/ui/autonomous_ui.py and the PM listeners of cogs/AutonomousOps.py. *)
(***************************************************************************)
EXTENDS HandlerScripts

_award_partner_points == Try(Save)

_add_task_owner == Try(Save)
_remove_task_owner == Try(Save)
_get_task_owners == Try(Read)

_spawn_next_recurrence == Call(Try(Read \o Maybe(Return) \o Save))

\* Points are committed in the middle, and with them all that came before.
_update_action_status ==
    Read \o Want
        \o Maybe(Read \o Many(Write) \o Try(Read \o Read \o Many(Write \o Write))
                     \o _award_partner_points \o Maybe(_award_partner_points))
        \o Maybe(Try(Write)) \o Commit

SnoozeActionModal_on_submit ==
    Ack \o Maybe(RefuseLate)
        \o TryElse(Read \o Want \o Try(Write) \o Commit \o TellOk, Tell)

DailyTopActionsView ==
    LET done == Ack \o Attempt(_update_action_status, TellOk, Tell)
        snooze == Ack
        triage == Ack \o Maybe(RefuseLate) \o TryElse(Read \o Keep \o TellOk, Tell)
    IN  Either(done, Either(snooze, triage))

\* The modal that creates an action item has no on_submit: that of the view
\* behind it, which Discord never calls, is the one that was meant.
ActionAddModal == <<>>

open_modal == Maybe(Refuse) \o Ack \o Try(Tell)

\* Mutant: nobody looks at what the update returns.
_update_status_blindly ==
    Ack \o Maybe(RefuseLate) \o Attempt(_update_action_status, <<>>, <<>>) \o TellOk

_update_status ==
    Ack \o Maybe(RefuseLate) \o Maybe(Try(Read \o Maybe(RefuseLate)))
        \o TryElse(Attempt(_update_action_status, <<>>, Raise) \o TellOk, Tell)

_assign ==
    Ack \o Maybe(RefuseLate) \o TryElse(Keep \o TellOk, Tell)

_reload_rows == Try(Read)

bulk_refresh == Ack \o _reload_rows \o Tell

\* It tells how many it has marked, and which of them it could not.
bulk_done ==
    Ack \o Maybe(RefuseLate)
        \o Many(Attempt(_update_action_status, <<>>, <<>>)) \o Tell \o Tell

record_followup ==
    Write \o Maybe(Try(Write))
        \o Maybe(Try(Read \o Maybe(Write \o Try(Write)))) \o Write \o Commit

\* A reminder that was sent and could not be recorded is sent again.
_send_overdue_followups ==
    Many(Attempt(Read \o Read, Attempt(Post, Try(record_followup), <<>>), <<>>))

_smart_extract_action == Try(Slow)

\* A bad due date is refused as if nothing had been answered yet.
action_add ==
    Maybe(Refuse)
        \o Either(Ack \o _smart_extract_action \o Maybe(Refuse) \o Tell,
                  Maybe(Refuse) \o Ack)

cleanup == Maybe(Refuse) \o Read \o Maybe(Refuse) \o Keep \o AckOk

\* Mutant: a refusal is sent as if nothing had been answered.
action_list_refuses ==
    Maybe(Refuse) \o Ack \o Maybe(Refuse) \o TryElse(Read \o Tell, Tell)

action_list ==
    Maybe(Refuse) \o Ack \o Maybe(RefuseLate)
        \o TryElse(Read \o Maybe(RefuseLate) \o Tell, Tell)

action_thin ==
    Maybe(Refuse) \o Ack \o Maybe(RefuseLate)
        \o TryElse(Read \o Maybe(RefuseLate) \o Tell, Tell)

\* Described instead of numbered, the item is looked for after a first answer.
action_done ==
    LET search == Ack \o TryElse(Read \o Maybe(RefuseLate) \o Maybe(RefuseLate), RefuseLate)
        finish ==
            Read \o Maybe(Refuse)
                \o Attempt(_update_action_status, Try(_spawn_next_recurrence) \o AckOk, Ack)
    IN  Maybe(Refuse) \o Maybe(search) \o TryElse(finish, Ack)

_done_select_callback ==
    Ack \o Attempt(_update_action_status, Try(_spawn_next_recurrence) \o TellOk, Tell)

post_new_action == Call(Try(Read \o Maybe(Return) \o _get_task_owners \o Post \o Many(Post)))

_refresh_action_embed == _get_task_owners \o Post

on_raw_reaction_add ==
    Maybe(Return) \o TryElse(Post, Return) \o Maybe(Return)
        \o _add_task_owner \o _refresh_action_embed

on_raw_reaction_remove ==
    Maybe(Return) \o TryElse(Post, Return) \o Maybe(Return)
        \o _remove_task_owner \o _refresh_action_embed

-----------------------------------------------------------------------------
(* Updates, points, hired personas and the agenda of their meetings.       *)

DidCompleteTaskSelect == Ack \o TryElse(Maybe(Keep \o TellOk), Tell)

DidSomethingModal ==
    Ack \o Maybe(RefuseLate)
        \o TryElse(Read \o Maybe(RefuseLate) \o Want \o Try(Read \o Maybe(Write))
                       \o Read \o Commit \o TellOk \o Try(Post),
                   Tell)

HirePersonaModal ==
    Ack \o Maybe(RefuseLate) \o TryElse(Read \o Keep \o TellOk \o Try(Post), Tell)

FirePersonaSelect ==
    Ack \o Maybe(RefuseLate)
        \o TryElse(Read \o Maybe(RefuseLate) \o Keep \o TellOk, Tell)

\* The command's body ends after its first check.
add_agenda_item == Maybe(Refuse)

agenda_list ==
    Maybe(Refuse) \o Ack \o Maybe(RefuseLate)
        \o TryElse(Read \o Maybe(RefuseLate) \o Tell, Tell)

agenda_remove ==
    Maybe(Refuse) \o Ack \o Maybe(RefuseLate)
        \o TryElse(Read \o Maybe(RefuseLate) \o Post \o Maybe(RefuseLate)
                       \o Keep \o TellOk,
                   Tell)

did == Maybe(Refuse) \o Ack

did_list ==
    Ack \o Maybe(RefuseLate) \o TryElse(Read \o Maybe(RefuseLate) \o Tell, Tell)

leaderboard == Ack \o Maybe(RefuseLate) \o TryElse(Read \o Read \o Tell, Tell)

_trigger_incremental_ingest == Try(Slow)

extracted_items == Post \o Many(Try(Save))

\* A progress message in the channel goes along; each part may fail alone. In
\* the end the notes are "saved", when neither their file nor their row was.
_process_meeting_notes ==
    LET progress == Post
        file == TryElse(File \o progress \o Maybe(_trigger_incremental_ingest \o progress),
                        progress)
        row == TryElse(progress \o Keep \o progress, progress)
        extract == progress \o Try(Slow)
    IN  progress
            \o TryElse(progress \o progress \o file \o Maybe(row) \o Maybe(extract)
                           \o Maybe(extracted_items) \o Maybe(extracted_items) \o Maybe(progress)
                           \o progress \o TellOk,
                       progress)

parse_meeting ==
    Either(Maybe(Refuse) \o Ack \o TryElse(Post \o _process_meeting_notes, Tell), Ack)

MeetingNotesModal == Ack \o Either(_process_meeting_notes, Tell)

-----------------------------------------------------------------------------
(* Messages in the PM channel and its threads.                             *)

_pm_record_thread == Try(Save)
_pm_get_thread_purpose == Try(Read)
_pm_owner_wip == Try(Read)

_pm_create_action_item ==
    Maybe(Raise) \o _pm_owner_wip \o Keep \o Read
        \o Try(Maybe(Maybe(Save) \o post_new_action))

_pm_create_decision == Maybe(Raise) \o Keep \o Read \o Try(Save)

create_action == Ack \o TryElse(_pm_create_action_item \o TellOk, Tell)

record == Ack \o TryElse(_pm_create_decision \o TellOk, Tell)

_pm_track_open_question == Try(Save)
_pm_resolve_open_question_if_reply == Try(Save)

on_message_dreamer_schemes == Maybe(Try(Slow \o Post))

_pm_record_proposal_once(recorded) ==
    Attempt(Read \o Maybe(Return) \o Save, recorded, <<>>)

_pm_handle_pm_thread_reply ==
    LET planning == Many(Try(_pm_create_action_item)) \o Maybe(Try(Post) \o Post)
        risk ==
            Many(Try(_pm_create_action_item \o TryElse(Write, Write) \o Commit))
                \o Maybe(Try(Post) \o Post)
        closeout == Many(Try(Write)) \o Many(Try(Write)) \o Commit \o Post
    IN  Maybe(Return) \o Maybe(Either(planning, Either(risk, closeout)))

AutonomousOps_on_message ==
    Maybe(Return) \o on_message_dreamer_schemes \o Maybe(Return)
        \o _pm_resolve_open_question_if_reply \o _pm_track_open_question
        \o Maybe(_pm_get_thread_purpose \o Maybe(_pm_handle_pm_thread_reply \o Return))
        \o Maybe(_pm_record_proposal_once(Post))

get_report == Ack \o Try(Post) \o Tell

-----------------------------------------------------------------------------
TaskCommands ==
    [action_add |-> action_add,
     cleanup |-> cleanup,
     action_list |-> action_list,
     action_thin |-> action_thin,
     action_done |-> action_done,
     add_agenda_item |-> add_agenda_item,
     agenda_list |-> agenda_list,
     agenda_remove |-> agenda_remove,
     did |-> did,
     did_list |-> did_list,
     leaderboard |-> leaderboard,
     parse_meeting |-> parse_meeting,
     get_report |-> get_report]

TaskViews ==
    [DailyTopActionsView |-> DailyTopActionsView,
     update_status |-> _update_status,
     assign |-> _assign,
     bulk_refresh |-> bulk_refresh,
     bulk_done |-> bulk_done]

TaskControls ==
    [SnoozeActionModal |-> SnoozeActionModal_on_submit,
     ActionAddModal |-> ActionAddModal,
     open_modal |-> open_modal,
     done_select |-> _done_select_callback,
     DidCompleteTaskSelect |-> DidCompleteTaskSelect,
     DidSomethingModal |-> DidSomethingModal,
     HirePersonaModal |-> HirePersonaModal,
     FirePersonaSelect |-> FirePersonaSelect,
     MeetingNotesModal |-> MeetingNotesModal,
     create_action |-> create_action,
     record |-> record]

TaskOthers ==
    [overdue_followups |-> _send_overdue_followups,
     spawn_next_recurrence |-> _spawn_next_recurrence,
     reaction_add |-> on_raw_reaction_add,
     reaction_remove |-> on_raw_reaction_remove,
     pm_record_thread |-> _pm_record_thread,
     pm_on_message |-> AutonomousOps_on_message]

=============================================================================
