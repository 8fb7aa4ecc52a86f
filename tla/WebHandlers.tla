---------------------------- MODULE WebHandlers ----------------------------
(***************************************************************************)
(* Requests of the web console beyond the chat: admin/routers/artifacts.py,*)
(* continuity.py, pulse.py, knowledge.py, accounts.py, activity.py and     *)
(* moat.py, with the services behind them. No folder is ever watched: the  *)
(* program only keeps the list of those to watch.                          *)
(*                                                                         *)
(* Most requests turn any failure into an answer that says so; to them it  *)
(* is all one whether that answer is returned or the failure raised.       *)
(***************************************************************************)
EXTENDS StreamHandlers

\* Every request looks its session up, after making sure of the tables with a
\* script that commits whatever is open on the connection.
ensure_schema == Save

get_session_actor ==
    Call(ensure_schema \o Maybe(Return) \o Read \o Maybe(Return) \o Write \o Commit)

get_current_actor_optional == Maybe(get_session_actor)
require_authenticated_actor == get_current_actor_optional \o Maybe(Raise)
_require_role == require_authenticated_actor \o Maybe(Raise)

Request(s) == _require_role \o s

ensure_actor ==
    Call(Maybe(Raise) \o Read \o Maybe(Maybe(Save \o Read) \o Return) \o Save \o Read)

_persist_actor_id == Maybe(ensure_actor)

get_account_by_username == ensure_schema \o Read
has_any_accounts == ensure_schema \o Read
list_accounts == ensure_schema \o Read

create_account ==
    ensure_schema \o Maybe(Raise) \o ensure_actor \o Read \o Maybe(Raise)
        \o Keep \o get_account_by_username \o Maybe(Raise)

bootstrap_admin == ensure_schema \o has_any_accounts \o Maybe(Raise) \o create_account

authenticate ==
    ensure_schema \o get_account_by_username \o Maybe(Raise) \o Write \o Write \o Commit

revoke_session == Call(ensure_schema \o Maybe(Return) \o Save)

api_list_web_users == list_accounts
api_create_web_user == create_account \o ReplyOk

-----------------------------------------------------------------------------
(* Leads, decisions, meetings, and where a record comes from.              *)

api_list_leads == Read \o Read
api_leads_pipeline == Read
api_get_lead == Read \o Maybe(Return) \o Read
api_create_lead == Want \o Keep \o ReplyOk
api_advance_lead == Maybe(Return) \o Read \o Maybe(Return) \o Want \o Keep \o ReplyOk
api_lead_touchpoint == Want \o Keep \o ReplyOk

\* An edge that is there already is not written again.
create_edge ==
    Maybe(Raise) \o Save \o Read \o Maybe(record_mutation \o Many(record_mutation))

record_manual_origin == create_edge

_resolve_entity == Try(Read)
list_edges == Maybe(Raise) \o Read \o Many(_resolve_entity \o _resolve_entity)
explain_record_origin == _resolve_entity \o list_edges

get_record_by_legacy_link == Read
_append_event == Maybe(Save)
create_record == Maybe(Raise) \o Save \o Read \o record_mutation \o _append_event \o Read
link_legacy_record == Read \o Save \o record_mutation

_ensure_decision_record ==
    Call(get_record_by_legacy_link \o Maybe(Maybe(create_edge) \o Return)
             \o create_record \o link_legacy_record \o Maybe(create_edge))

_get_decision_record_for_provenance ==
    Call(get_record_by_legacy_link \o Maybe(Return) \o Read \o Maybe(Return)
             \o _ensure_decision_record)

\* A decision whose record cannot be made, or linked to it, is deleted again;
\* what there is of the record stays.
api_create_decision ==
    LET created ==
            _persist_actor_id \o Want \o Read \o Commit \o _ensure_decision_record
                \o record_manual_origin \o ReplyOk
    IN  TryElse(created, Maybe(Try(Save)))

api_list_decisions == Read \o Read
api_decision_categories == Read
api_get_decision == Read
api_get_decision_provenance ==
    _persist_actor_id \o _get_decision_record_for_provenance \o Maybe(Return)
        \o explain_record_origin

api_list_meetings == Read \o Read
api_create_meeting == Keep \o ReplyOk
api_get_meeting == Read \o Maybe(Return) \o Read

api_link_meeting_decision ==
    _persist_actor_id \o Want \o Read \o Commit \o Maybe(_ensure_decision_record) \o ReplyOk

api_create_provenance_link == _persist_actor_id \o create_edge \o ReplyOk
api_list_provenance_links == list_edges
api_get_record_provenance == explain_record_origin

api_analytics_overview == Many(Try(Read))

-----------------------------------------------------------------------------
(* Obligations, feedback, and what needs attention.                        *)

ObligationService_create == Transaction(Want)
ObligationService_get == Read
ObligationService_update == Maybe(Transaction(Want))
mark_completed == Transaction(Want)
ObligationService_stats == Read

FeedbackService_create == Transaction(Want)
FeedbackService_update == Maybe(Transaction(Want))
FeedbackService_resolve == Transaction(Want)

api_list_obligations == Read \o Read
api_obligation_stats == ObligationService_stats
api_get_obligation == ObligationService_get
api_create_obligation == ObligationService_create \o ReplyOk
api_update_obligation ==
    ObligationService_get \o Maybe(Return) \o ObligationService_update \o ReplyOk

\* The packet tells of a completion that the obligation may not have had yet.
api_complete_obligation ==
    ObligationService_get \o Maybe(Return) \o create_packet \o ensure_link
        \o mark_completed \o Maybe(ObligationService_update) \o ObligationService_get
        \o transition \o ReplyOk

api_create_feedback == FeedbackService_create \o ReplyOk
api_report_problem == FeedbackService_create \o File \o FeedbackService_update \o ReplyOk
api_resolve_feedback == FeedbackService_resolve \o ReplyOk

\* The gap's status, the task's, even the proposal's: set as they stand.
api_pulse_feed == Many(Try(Read))
api_pulse_stats == Many(Try(Read))
api_pulse_defer == Maybe(Return) \o Keep \o ReplyOk
api_pulse_resolve == Maybe(Return) \o Keep \o ReplyOk

-----------------------------------------------------------------------------
(* What the bot knows.                                                     *)

api_remember == Maybe(Return) \o File \o ReplyOk
api_upload_files == Many(Maybe(File)) \o ReplyOk

api_export_knowledge == File \o Try(Read)

\* Gaps that could not be imported are counted as imported.
api_import_knowledge ==
    Maybe(Return) \o Many(File)
        \o Maybe(Try(Many(Read \o Maybe(Want)) \o Commit)) \o ReplyOk

_run_ingest_background == Maybe(Return) \o Try(Slow \o Try(File))

api_sync_documents == Maybe(Return) \o Slow \o Try(Save) \o ReplyOk

_fetch_gap_row == Read
api_list_gaps == Read \o Read
api_gaps_recent_activity == Read
api_gaps_stats == Many(Read)
api_get_gap == Read
api_delete_gap == _fetch_gap_row \o Keep \o record_mutation \o ReplyOk

api_activity_feed == Many(Try(Read))

-----------------------------------------------------------------------------
(* Preferences, costs, and folders that are watched.                       *)

api_get_preferences == get_preferences
api_export_preferences == export_preferences
api_set_preference == set_preference \o ReplyOk
set_preferences_bulk == Many(set_preference)
api_set_preferences_bulk == set_preferences_bulk \o ReplyOk
api_import_preferences == Maybe(Return) \o import_preferences \o ReplyOk

InferenceCostTracker_ensure_tables == Maybe(Try(Save))
set_budget == InferenceCostTracker_ensure_tables \o Try(Keep)
api_set_budget == set_budget \o ReplyOk
_check_budget_alerts == Try(Read \o Many(Write \o Maybe(Write)) \o Commit)
record_inference ==
    InferenceCostTracker_ensure_tables \o Try(Save) \o Maybe(_check_budget_alerts)

api_register_variant == register_prompt_variant \o ReplyOk
\* A variant that could not be registered is reported as created.
api_refine_prompts == _refine_prompts_from_feedback \o ReplyOk
api_active_prompt_suffix == get_active_prompt_suffix

FolderWatcherService_ensure_tables == Maybe(Try(Save))
list_folders == FolderWatcherService_ensure_tables \o Try(Read)
add_folder ==
    FolderWatcherService_ensure_tables \o Maybe(Raise) \o Keep \o Read
remove_folder == FolderWatcherService_ensure_tables \o Keep
api_list_watched_folders == list_folders
api_add_watched_folder == Maybe(Return) \o add_folder \o ReplyOk
api_remove_watched_folder == remove_folder \o ReplyOk

-----------------------------------------------------------------------------
WebRequests ==
    [api_list_web_users |-> api_list_web_users,
     api_create_web_user |-> api_create_web_user,
     api_list_leads |-> api_list_leads,
     api_leads_pipeline |-> api_leads_pipeline,
     api_get_lead |-> api_get_lead,
     api_create_lead |-> api_create_lead,
     api_advance_lead |-> api_advance_lead,
     api_lead_touchpoint |-> api_lead_touchpoint,
     api_create_decision |-> api_create_decision,
     api_list_decisions |-> api_list_decisions,
     api_decision_categories |-> api_decision_categories,
     api_get_decision |-> api_get_decision,
     api_get_decision_provenance |-> api_get_decision_provenance,
     api_list_meetings |-> api_list_meetings,
     api_create_meeting |-> api_create_meeting,
     api_get_meeting |-> api_get_meeting,
     api_link_meeting_decision |-> api_link_meeting_decision,
     api_create_provenance_link |-> api_create_provenance_link,
     api_list_provenance_links |-> api_list_provenance_links,
     api_get_record_provenance |-> api_get_record_provenance,
     api_analytics_overview |-> api_analytics_overview,
     api_list_obligations |-> api_list_obligations,
     api_obligation_stats |-> api_obligation_stats,
     api_get_obligation |-> api_get_obligation,
     api_create_obligation |-> api_create_obligation,
     api_update_obligation |-> api_update_obligation,
     api_complete_obligation |-> api_complete_obligation,
     api_create_feedback |-> api_create_feedback,
     api_report_problem |-> api_report_problem,
     api_resolve_feedback |-> api_resolve_feedback,
     api_pulse_feed |-> api_pulse_feed,
     api_pulse_stats |-> api_pulse_stats,
     api_pulse_defer |-> api_pulse_defer,
     api_pulse_resolve |-> api_pulse_resolve,
     api_remember |-> api_remember,
     api_upload_files |-> api_upload_files,
     api_export_knowledge |-> api_export_knowledge,
     api_import_knowledge |-> api_import_knowledge,
     api_sync_documents |-> api_sync_documents,
     api_list_gaps |-> api_list_gaps,
     api_gaps_recent_activity |-> api_gaps_recent_activity,
     api_gaps_stats |-> api_gaps_stats,
     api_get_gap |-> api_get_gap,
     api_delete_gap |-> api_delete_gap,
     api_activity_feed |-> api_activity_feed,
     api_get_preferences |-> api_get_preferences,
     api_export_preferences |-> api_export_preferences,
     api_set_preference |-> api_set_preference,
     api_set_preferences_bulk |-> api_set_preferences_bulk,
     api_import_preferences |-> api_import_preferences,
     api_set_budget |-> api_set_budget,
     api_register_variant |-> api_register_variant,
     api_refine_prompts |-> api_refine_prompts,
     api_active_prompt_suffix |-> api_active_prompt_suffix,
     api_list_watched_folders |-> api_list_watched_folders,
     api_add_watched_folder |-> api_add_watched_folder,
     api_remove_watched_folder |-> api_remove_watched_folder]

WebOthers ==
    [web_login |-> authenticate \o Maybe(revoke_session),
     web_bootstrap |-> bootstrap_admin,
     run_ingest_background |-> _run_ingest_background,
     record_inference |-> record_inference]

=============================================================================
