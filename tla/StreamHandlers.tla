--------------------------- MODULE StreamHandlers ---------------------------
(***************************************************************************)
(* A question asked in the web console, admin/routers/chat.py: its answer  *)
(* is streamed while it is found, and what it leaves to do goes on in the  *)
(* background, on a work packet (core/services/work_packet_service.py).    *)
(*                                                                         *)
(* The contexts that are gathered at once are gathered one after another   *)
(* here; each is read only.                                                *)
(***************************************************************************)
EXTENDS JobHandlers, ToolHandlers

record_mutation == Save

record_event == Maybe(Read) \o Save \o Maybe(record_mutation)

create_packet ==
    Call(Read \o Maybe(Return) \o Save \o Read \o record_mutation \o record_event)

ensure_link ==
    Call(Read \o Maybe(Return) \o Maybe(Write) \o Write \o Commit \o Read
             \o record_mutation \o record_event \o Read)

transition == Read \o Maybe(Raise) \o Save \o Read \o record_mutation \o record_event

\* Traces of requests have a connection of their own.
ensure_request_trace_schema == Maybe(File)
persist_request_trace == ensure_request_trace_schema \o Try(File)
update_request_trace_after_confirmation ==
    Maybe(ensure_request_trace_schema \o Try(File))

-----------------------------------------------------------------------------
(* Work that outlives the answer.                                          *)

\* The job is entered as started, whoever else has entered it, and the work
\* started whether or not either could be written down.
_schedule_durable_background ==
    Maybe(Try(create_packet \o Maybe(ensure_link))
              \o Try(Call(record_job_run) \o Try(Read)))

_runner(work) ==
    LET told == Maybe(Try(transition))
    IN  TryElse(work \o told \o Call(complete_job_run), told \o Try(Call(complete_job_run)))

background_work ==
    Either(_runner(cache_web_result),
        Either(_runner(research_gap_immediately), _runner(maybe_auto_close_gap)))

-----------------------------------------------------------------------------
(* The answer, stage by stage.                                             *)

gather_context ==
    Try(Maybe(build_concern_context \o get_context \o build_preference_prompt
                  \o build_memory_context \o Maybe(build_nudge_context \o get_suggestions)
                  \o Try(get_or_create_session \o add_turn)))

hyde_retrieve == Try(Slow) \o Many(Try(Slow))
gap_retrieve == Many(Try(Slow))

search_knowledge ==
    LET refined ==
            Try(Slow) \o Maybe(Try(Slow)) \o Maybe(Try(Slow \o Maybe(gap_retrieve)))
        indexed ==
            Try(Slow) \o Maybe(Try(Slow)) \o hyde_retrieve \o Maybe(Try(Slow)) \o refined
    IN  Try(Slow) \o Maybe(Either(indexed, Slow))

\* "How many" is answered from the records, when there are more than were found.
check_completeness == Try(Maybe(Read))

search_deeper ==
    Maybe(Try(Slow)) \o hyde_retrieve \o Try(Slow) \o Maybe(Try(Slow))
        \o Maybe(Try(Slow \o Maybe(gap_retrieve)))

search_the_web == Try(Maybe(Slow \o Maybe(Try(_schedule_durable_background))))

get_active_prompt_suffix == ensure_tables \o Try(Read)

\* What a tool that writes would do is shown instead, to be confirmed.
generate_answer ==
    LET asks == Maybe(log_interaction) \o persist_request_trace \o Return
        tool == run_planning_loop \o Maybe(asks)
    IN  Try(Slow \o Maybe(Try(get_active_prompt_suffix) \o Slow \o Maybe(tool)))

answer_without_tools == Try(Maybe(Slow))

answer_from_cache ==
    Maybe(Try(add_turn)) \o Maybe(Try(log_interaction)) \o persist_request_trace \o Return

\* An answer found wanting becomes a gap; a good one may close some.
_maybe_log_knowledge_gap ==
    LET noted == Either(Write, TryElse(Write, Write))
    IN  Call(Try(Slow \o Maybe(Return) \o Slow \o Read \o noted \o Commit))

judge_answer ==
    Try(_maybe_log_knowledge_gap \o Maybe(Try(_schedule_durable_background)))

remember_chat ==
    Maybe(Try(log_interaction)) \o Try(Maybe(observe_interaction))
        \o Maybe(Try(add_turn)) \o persist_request_trace

_stream_response ==
    Try(Slow) \o gather_context \o search_knowledge \o check_completeness
        \o Maybe(search_deeper) \o search_the_web \o Maybe(answer_from_cache)
        \o generate_answer \o Maybe(answer_without_tools)
        \o Maybe(judge_answer) \o remember_chat

-----------------------------------------------------------------------------
(* The other requests of the chat page.                                    *)

api_chat == Try(Slow) \o TryElse(AskQuestion, Return) \o ReplyOk

\* It passes the learning loop an argument it does not take, and never gets
\* past its tables.
api_chat_feedback == Keep \o Try(ensure_tables \o Raise) \o ReplyOk

api_tool_confirm ==
    Maybe(Raise) \o Maybe(Maybe(update_request_trace_after_confirmation) \o Return)
        \o execute_tool_call(Either(MutatingTool, ReadingTool))
        \o Maybe(update_request_trace_after_confirmation)

api_get_nudges == Try(Maybe(Return) \o get_suggestions)

mark_concern_resolved == Attempt(Keep, <<>>, Raise)

api_resolve_concern == mark_concern_resolved \o ReplyOk

api_list_concerns == get_active_concerns

api_tool_activity == Try(Read \o Read)

StreamRequests ==
    [api_chat_stream |-> _stream_response,
     api_chat |-> api_chat,
     api_chat_feedback |-> api_chat_feedback,
     api_tool_confirm |-> api_tool_confirm,
     api_get_nudges |-> api_get_nudges,
     api_resolve_concern |-> api_resolve_concern,
     api_list_concerns |-> api_list_concerns,
     api_tool_activity |-> api_tool_activity]

StreamOthers == [background_work |-> background_work]

=============================================================================
