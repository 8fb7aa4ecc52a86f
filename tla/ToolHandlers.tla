---------------------------- MODULE ToolHandlers ----------------------------
(***************************************************************************)
(* The tools a model may call, core/tools_builtin.py and                   *)
(* core/tool_registry.py, the loop that calls them,                        *)
(* services/agentic_chat.py, and what a chat reads and keeps besides:      *)
(* services/interaction_memory.py, services/user_preferences.py,           *)
(* services/proactive_suggestions.py, services/workspace_context.py.       *)
(***************************************************************************)
EXTENDS HandlerScripts

\* A tool that fails says so in the result it returns. Its caller cannot tell
\* that from an exception, which it turns into such a result: both are Raise.
_create_action == Keep
_update_action == Maybe(Raise) \o Read \o Maybe(Raise) \o Keep
_create_decision == Keep
_create_lead == Want \o Keep
_advance_lead == Maybe(Raise) \o Read \o Maybe(Raise) \o Want \o Keep
_create_knowledge_gap == Keep
_save_knowledge == Maybe(Raise) \o File
_create_document == _save_knowledge

_list_actions == Read
_list_operational_records == Read
_list_leads == Read
_get_overdue_actions == Read
_get_pipeline_summary == Read \o Read
_get_recent_discoveries == Read
_get_knowledge_gaps == Read
_get_health_trend == Read
_get_learning_progress == Read \o Read \o Read
_search_knowledge == Slow
_search_web == Maybe(Raise) \o Slow \o Maybe(Raise)

MutatingTool ==
    Either(_create_action, Either(_update_action, Either(_create_decision,
        Either(_create_lead, Either(_advance_lead, Either(_create_knowledge_gap,
            Either(_save_knowledge, _create_document)))))))

ReadingTool ==
    Either(_search_knowledge, Either(_search_web, Either(_get_health_trend,
        Either(_get_learning_progress, Either(_get_pipeline_summary,
            Either(_get_recent_discoveries, Either(_get_knowledge_gaps,
                Either(_get_overdue_actions, Either(_list_leads,
                    Either(_list_actions, _list_operational_records))))))))))

_persist_execution == Try(Save)

\* Whatever became of the tool, its execution is recorded and committed. A tool
\* that writes goes no further than here unless somebody has confirmed it.
execute(tool) ==
    Call(Maybe(Return) \o Attempt(tool, _persist_execution \o ReplyOk, _persist_execution))

execute_tool_call(tool) == execute(tool)

\* As many tools that only read as the model asks for.
run_planning_loop == Many(execute_tool_call(ReadingTool) \o Try(Slow))

-----------------------------------------------------------------------------
(* What is kept of a conversation.                                         *)

\* The embeddings are computed on the event loop.
_semantic_concern_match ==
    Call(Maybe(Return) \o Try(Maybe(Return) \o File \o Maybe(Save)))

_match_or_create_concern ==
    LET keyword == Save \o Return
        similar == _semantic_concern_match \o Maybe(Return)
    IN  Call(Maybe(Return)
                 \o Try(Read \o Maybe(keyword) \o similar \o Read \o Maybe(Save)))

log_interaction == _match_or_create_concern \o Try(Save)

get_active_concerns == Try(Read)
find_related_concerns == Maybe(get_active_concerns)
build_concern_context == find_related_concerns

ConversationStore_ensure_tables == Maybe(Try(Save))

get_or_create_session ==
    Call(ConversationStore_ensure_tables
             \o Maybe(Try(Read \o Maybe(Save \o Return))) \o Try(Save))

add_turn == ConversationStore_ensure_tables \o Try(Write \o Write \o Commit)

get_session_turns == ConversationStore_ensure_tables \o Try(Read)

build_memory_context == ConversationStore_ensure_tables \o Maybe(Try(Read \o Read))

-----------------------------------------------------------------------------
(* What is learned of whom the bot talks to.                               *)

UserPreferenceService_ensure_tables == Maybe(Try(Save))

get_preferences == UserPreferenceService_ensure_tables \o Try(Read)

\* That the preference could not be kept is only logged.
set_preference ==
    UserPreferenceService_ensure_tables \o get_preferences
        \o Try(Want \o Keep)

_get_interaction_stats == Try(Read)
_get_learned_topics == Try(Read)
_save_preferences == Try(Keep)
_save_interaction_stats == Try(Keep)
_log_learning_event == Try(Save)

\* What it has learned is kept in two writes, each on its own and neither missed.
observe_interaction ==
    UserPreferenceService_ensure_tables \o get_preferences \o _get_interaction_stats
        \o Try(Save) \o Try(Save) \o Many(_log_learning_event)

build_preference_prompt == get_preferences

export_preferences == get_preferences \o _get_interaction_stats \o _get_learned_topics

import_preferences ==
    _save_preferences \o _save_interaction_stats \o _log_learning_event

-----------------------------------------------------------------------------
(* What a model is shown of the state of things.                           *)

_scan_overdue_actions == Try(Read)
_scan_stale_gaps == Try(Read)
_scan_trending_concerns == Try(Read)
_scan_cold_leads == Try(Read)
_scan_unactioned_decisions == Try(Read)
_scan_feedback_patterns == Try(Read)
_scan_idle_period == Try(Read)

\* What has been found is kept for a while.
get_suggestions ==
    Maybe(_scan_overdue_actions \o _scan_stale_gaps \o _scan_trending_concerns
              \o _scan_cold_leads \o _scan_unactioned_decisions \o _scan_feedback_patterns
              \o _scan_idle_period)

build_nudge_context == get_suggestions

_section_actions == Try(Read)
_section_pipeline == Try(Read)
_section_decisions == Try(Read)
_section_gaps == Try(Read)
_section_recent_discoveries == Try(Read)
_section_health_trend == Try(Read)
_section_concerns == Try(get_active_concerns)
_section_obligations == Try(Read)
_section_proactive_nudges == Try(get_suggestions)

get_context ==
    Maybe(_section_actions \o _section_pipeline \o _section_decisions \o _section_gaps
              \o _section_recent_discoveries \o _section_health_trend \o _section_concerns
              \o _section_obligations \o _section_proactive_nudges)

=============================================================================
