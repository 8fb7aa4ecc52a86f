---------------------------- MODULE JobHandlers -----------------------------
(***************************************************************************)
(* What the jobs of cogs/AutonomousOps.py and of the personas do with the  *)
(* database: cogs/personas/*.py, services/autonomous_research.py,          *)
(* services/feedback_learning_loop.py, services/conversation_miner.py,     *)
(* services/corpus_interrogator.py, services/document_remediation.py.      *)
(* What they post and when they may start is in ScheduledJobs.             *)
(***************************************************************************)
EXTENDS ChatHandlers, MeetingHandlers

_generate_daily_summary == Slow

daily_digest ==
    StartRun \o post_to_bots_channel
        \o TryElse(Maybe(post_to_bots_channel \o Return) \o Post
                       \o Maybe(post_to_bots_channel \o Return) \o _generate_daily_summary
                       \o Post \o post_to_bots_channel \o EndRun,
                   post_to_bots_channel)

\* Updates are marked as used after the message that names them.
_run_async_meeting ==
    Call(Maybe(post_to_bots_channel \o Return) \o Maybe(Raise) \o Post
             \o Try(Read \o Maybe(Post)) \o Try(Read \o Maybe(Post) \o Try(Save))
             \o Many(Try(Post \o Post)) \o post_to_bots_channel)

thursday_async_meeting ==
    Maybe(Return) \o StartRun \o post_to_bots_channel
        \o TryElse(_run_async_meeting \o EndRun, post_to_bots_channel)

_run_weekly_reflection ==
    Call(Maybe(post_to_bots_channel \o Return) \o Many(Try(Read)) \o Post
             \o post_to_bots_channel)

end_of_week_reflection ==
    Maybe(Return) \o StartRun \o post_to_bots_channel
        \o TryElse(_run_weekly_reflection \o EndRun, post_to_bots_channel)

_generate_meeting_summary == Maybe(Raise) \o Slow

_async_meeting_eod_summary ==
    post_to_bots_channel
        \o TryElse(Many(Post) \o _generate_meeting_summary \o Maybe(Post)
                       \o post_to_bots_channel,
                   post_to_bots_channel)

_generate_strategic_analysis == Maybe(Raise) \o Slow

weekly_strategic_review ==
    Maybe(Return) \o StartRun \o post_to_bots_channel
        \o TryElse(Maybe(Return) \o Post \o _generate_strategic_analysis
                       \o post_to_bots_channel \o EndRun,
                   post_to_bots_channel)

daily_knowledge_refresh ==
    StartRun \o post_to_bots_channel
        \o TryElse(Slow \o Maybe(post_to_bots_channel \o Return) \o post_to_bots_channel
                       \o EndRun,
                   post_to_bots_channel)

_pm_build_dashboard_text == Many(Try(Read))

-----------------------------------------------------------------------------
(* Scout and rainmaker.                                                    *)

\* The cog has no such method: it is that of a class it does not inherit from.
_audit_autonomous_tool == Raise

_rainmaker_log_activity == Try(Write \o Write \o Commit)

\* It therefore never returns the lead it has committed.
_rainmaker_create_lead ==
    Try(Save \o Read \o Maybe(_rainmaker_log_activity) \o _audit_autonomous_tool)

_rainmaker_get_pipeline_stats == Try(Many(Read))
_rainmaker_get_leads_by_status == Try(Read)
_rainmaker_get_stale_leads == Try(Read)
_rainmaker_get_leads_with_action_today == Try(Read)
_rainmaker_get_overdue_actions == Try(Read)
_rainmaker_get_past_clients_due == Try(Read)
_rainmaker_get_recent_discoveries == Try(Read)

_rainmaker_assess_opportunities == Maybe(Try(File) \o Try(Slow))

\* It calls a method this cog does not have.
_generate_rainmaker_hunt_queries == Try(File) \o Try(Raise)

_generate_scout_plan == Try(File \o Maybe(Slow)) \o Maybe(Try(Slow))

_generate_scout_summary == Maybe(Raise) \o Slow

_enqueue_followup_queries_from_findings == Try(Slow \o File)

daily_scout_search ==
    StartRun \o Maybe(Return) \o post_to_bots_channel
        \o TryElse(_generate_scout_plan \o Many(post_to_bots_channel \o Try(Slow))
                       \o Maybe(post_to_bots_channel \o Return)
                       \o Try(File \o Maybe(_enqueue_followup_queries_from_findings))
                       \o Maybe(post_to_bots_channel \o Return)
                       \o _generate_scout_summary \o post_to_bots_channel
                       \o Maybe(post_to_bots_channel) \o Many(_rainmaker_create_lead)
                       \o EndRun,
                   post_to_bots_channel)

seen_opportunities == Many(Read \o Write) \o Commit

scout_background_crawl ==
    LET found ==
            seen_opportunities \o post_to_bots_channel \o Maybe(post_to_bots_channel)
                \o Maybe(EndRun \o Return)
        assessed ==
            _rainmaker_assess_opportunities \o Maybe(post_to_bots_channel)
                \o Maybe(Many(_rainmaker_create_lead) \o Raise)
                \o Many(Try(Save))
    IN  Maybe(Return) \o StartRun \o Maybe(Return)
            \o TryElse(Maybe(EndRun \o Return) \o Many(Try(Slow)) \o Maybe(EndRun \o Return)
                           \o found \o assessed \o EndRun,
                       Try(EndRun))

rainmaker_opportunity_hunt ==
    LET found ==
            seen_opportunities \o post_to_bots_channel \o post_to_bots_channel
                \o Maybe(post_to_bots_channel \o EndRun \o Return)
        assessed ==
            _rainmaker_assess_opportunities \o Maybe(post_to_bots_channel)
                \o Either(Many(_rainmaker_create_lead) \o Many(Save) \o Raise,
                          post_to_bots_channel)
    IN  Maybe(Return) \o StartRun \o Maybe(Return) \o post_to_bots_channel
            \o TryElse(_generate_rainmaker_hunt_queries \o Try(Raise) \o Many(Try(Slow))
                           \o Maybe(post_to_bots_channel \o EndRun \o Return)
                           \o found \o assessed \o EndRun,
                       post_to_bots_channel)

rainmaker_morning_pipeline ==
    Maybe(Return) \o StartRun \o Maybe(Return) \o post_to_bots_channel
        \o TryElse(_rainmaker_get_pipeline_stats \o _rainmaker_get_stale_leads
                       \o _rainmaker_get_leads_by_status \o _rainmaker_get_leads_by_status
                       \o _rainmaker_get_leads_with_action_today
                       \o _rainmaker_get_recent_discoveries \o post_to_bots_channel \o EndRun,
                   post_to_bots_channel)

rainmaker_follow_up_nudges ==
    Maybe(Return) \o StartRun \o Maybe(Return)
        \o Try(_rainmaker_get_overdue_actions
                   \o Maybe(post_to_bots_channel \o EndRun \o Return) \o post_to_bots_channel
                   \o Many(post_to_bots_channel \o Many(_rainmaker_log_activity)) \o EndRun)

rainmaker_weekly_cold_review ==
    Maybe(Return) \o StartRun \o Maybe(Return)
        \o Try(_rainmaker_get_leads_by_status
                   \o Maybe(post_to_bots_channel \o EndRun \o Return)
                   \o post_to_bots_channel \o post_to_bots_channel \o EndRun)

rainmaker_past_client_checkin ==
    Maybe(Return) \o StartRun \o Maybe(Return)
        \o Try(_rainmaker_get_past_clients_due
                   \o Maybe(post_to_bots_channel \o EndRun \o Return)
                   \o post_to_bots_channel \o post_to_bots_channel \o EndRun)

-----------------------------------------------------------------------------
(* The dreamer.                                                            *)

_dreamer_gather_business_context == Try(Many(Read)) \o Try(Maybe(Post))

_dreamer_generate_ideas == Try(Slow)

_dreamer_dispatch_scout == Many(Try(Slow))

_dreamer_dispatch_archivist == Try(Slow)

_dreamer_refine_ideas == Try(Slow)

_dreamer_escalate_to_manager ==
    post_to_bots_channel
        \o Try(Maybe(_rainmaker_create_lead)) \o Maybe(Try(Post))

dreamer_ideation_cycle ==
    LET investigate ==
            Many(post_to_bots_channel \o _dreamer_dispatch_scout \o _dreamer_dispatch_archivist)
    IN  Maybe(Return) \o StartRun \o post_to_bots_channel
            \o TryElse(post_to_bots_channel \o _dreamer_gather_business_context
                           \o Maybe(post_to_bots_channel) \o _dreamer_generate_ideas
                           \o Maybe(post_to_bots_channel \o EndRun \o Return)
                           \o post_to_bots_channel \o investigate \o _dreamer_refine_ideas
                           \o Either(_dreamer_escalate_to_manager, post_to_bots_channel)
                           \o EndRun,
                       post_to_bots_channel)

-----------------------------------------------------------------------------
(* The services that learn from feedback, conversations and documents.     *)

ensure_tables == Maybe(Try(Save))
_update_chunk_quality == Try(Write \o Read \o Maybe(Write) \o Commit)
register_prompt_variant == ensure_tables \o Try(Keep)
retire_underperforming_variants == ensure_tables \o Try(Read \o Many(Write) \o Commit)
get_low_quality_chunks == ensure_tables \o Try(Read)
_scan_for_feedback_gaps == Try(Read \o Many(Read \o Maybe(Try(Save))))
_aggregate_signals == Try(Read \o Read \o Try(Read))
_refine_prompts_from_feedback ==
    _aggregate_signals \o Many(Try(Read) \o register_prompt_variant)
_apply_quality_decay == Try(Save)

run_learning_cycle ==
    ensure_tables \o retire_underperforming_variants \o _refine_prompts_from_feedback
        \o get_low_quality_chunks \o _scan_for_feedback_gaps \o _aggregate_signals
        \o _apply_quality_decay

find_archive_candidates == Try(Read)
archive_chunks == Many(Try(File))
find_reenrich_candidates == Try(File)
queue_reenrichment == Many(Try(File))
detect_low_performance_sources == Try(Read)
\* Its insert names columns that the table does not have.
create_remediation_gaps == Try(Many(Read \o Maybe(Raise)) \o Commit)

run_remediation ==
    find_archive_candidates \o Maybe(archive_chunks)
        \o find_reenrich_candidates \o Maybe(queue_reenrichment)
        \o detect_low_performance_sources \o Maybe(create_remediation_gaps)

_get_eligible_sessions == TryElse(Read, Maybe(Try(Save \o Read)))
_mark_session_mined == TryElse(Save, Maybe(Try(Save \o Save)))
_recently_rejected == Try(Read)
_get_session_turns == Try(Read)
_extract_operational_proposals == Try(Slow)

\* Mutant: a session is marked inside the transaction that proposes.
mine_and_mark_at_once ==
    LET propose == Many(Transaction(_mark_session_mined \o Read \o Write))
    IN  Try(_get_eligible_sessions \o Many(Try(_get_session_turns \o propose)))

mine_recent_conversations ==
    LET propose == Many(_recently_rejected \o Maybe(Transaction(Read \o Write)))
        mined ==
            _get_session_turns
                \o Maybe(_extract_operational_proposals \o Maybe(propose \o _mark_session_mined))
    IN  Try(_get_eligible_sessions
                \o Maybe(Transaction(Read \o Maybe(Write)) \o Many(Try(mined))))

research_gap_immediately == Try(Slow \o Maybe(File \o Slow))
maybe_auto_close_gap == Try(Read \o Maybe(Read) \o Maybe(Save))
cache_web_result == Try(File \o Slow)

_get_question_frequency == Try(Read)
run_strategic_interrogation == Try(Slow)
run_drilldown == Many(Try(Slow))
_action_create_gap == Call(Read \o Maybe(Return) \o insert_gap \o Commit)
_action_flag_verification == Try(Save)
_action_web_research == Slow \o Maybe(File)
execute_actions ==
    Many(Try(Either(_action_web_research, Either(_action_create_gap, _action_flag_verification))))
save_interrogation_results == Try(Many(Write) \o Commit)
resolve_interrogation == Try(Save)

run_full_interrogation ==
    _get_question_frequency \o run_strategic_interrogation \o run_drilldown \o execute_actions
        \o save_interrogation_results \o Many(resolve_interrogation)

-----------------------------------------------------------------------------
(* The steward.                                                            *)

_steward_collect_daily_metrics == Try(Many(Read))
_steward_collect_weekly_metrics == Try(Many(Read))
_steward_assess_learning_loop == Try(Many(Read))
_steward_analyze_feature_usage == Try(Many(Read))
_steward_find_recurring_blind_spots == Try(Read)
_steward_find_stale_gaps == Try(Read)
_steward_find_unverified_improvements == Try(Read)
_steward_save_health_snapshot == Try(Save)
_steward_log_learning_event == Try(Save)
_steward_flag_blind_spot == Try(Read \o Save)

steward_daily_health_check ==
    StartRun \o Maybe(Return)
        \o Try(_steward_collect_daily_metrics \o Call(StartRun) \o Try(Slow)
                    \o Try(run_remediation) \o Try(run_learning_cycle)
                    \o mine_recent_conversations \o Maybe(post_to_bots_channel)
                    \o _steward_save_health_snapshot \o EndRun)

steward_weekly_self_assessment ==
    Maybe(Return) \o StartRun \o Maybe(Return)
        \o TryElse(post_to_bots_channel \o _steward_collect_weekly_metrics
                       \o _steward_find_recurring_blind_spots \o _steward_assess_learning_loop
                       \o _steward_analyze_feature_usage \o post_to_bots_channel \o EndRun,
                   post_to_bots_channel)

steward_learning_loop_audit ==
    Maybe(Return) \o StartRun \o Maybe(Return)
        \o Try(_steward_find_stale_gaps \o _steward_find_unverified_improvements
                    \o Maybe(post_to_bots_channel \o EndRun \o Return)
                    \o Many(_steward_log_learning_event) \o post_to_bots_channel \o EndRun)

-----------------------------------------------------------------------------
(* The curator.                                                            *)

_curator_save_synthesis == Call(Maybe(Return) \o Try(File))
_curator_craft_question == Call(Maybe(Return) \o Try(Slow))
_curator_enrich_with_web == Maybe(Slow)
auto_approve_memo == File \o Slow

\* A model words each question while the gaps before it wait for the commit.
_curator_create_targeted_gaps ==
    Call(Maybe(Return) \o Many(_curator_craft_question \o Maybe(insert_gap)) \o Commit)

\* Marked as asked before it is posted.
_curator_post_daily_question ==
    Call(Try(Read \o Maybe(Return) \o Save \o Maybe(Return) \o Post))

_curator_web_research_thin_topics ==
    Many(_curator_craft_question \o Slow \o _curator_save_synthesis
             \o Try(Maybe(auto_approve_memo)))

curator_daily_scan ==
    StartRun
        \o TryElse(Maybe(post_to_bots_channel \o EndRun \o Return) \o Slow
                       \o Maybe(_curator_create_targeted_gaps)
                       \o Maybe(_curator_web_research_thin_topics)
                       \o _curator_post_daily_question \o post_to_bots_channel \o EndRun,
                   EndRun)

curator_weekly_deep_analysis ==
    StartRun
        \o TryElse(Slow \o Many(Slow \o _curator_enrich_with_web \o _curator_save_synthesis)
                       \o Maybe(_curator_create_targeted_gaps)
                       \o Maybe(_curator_web_research_thin_topics)
                       \o post_to_bots_channel \o Maybe(Try(Save)) \o EndRun,
                   EndRun)

curator_corpus_interrogation ==
    StartRun
        \o TryElse(Maybe(EndRun \o Return) \o Try(Slow) \o run_full_interrogation
                       \o post_to_bots_channel \o EndRun,
                   EndRun)

-----------------------------------------------------------------------------
(* The owner may start some of them from a command.                        *)

admin_run_job ==
    LET jobs ==
            Either(daily_scout_search,
                Either(dreamer_ideation_cycle,
                    Either(weekly_strategic_review,
                        Either(rainmaker_opportunity_hunt,
                            Either(_run_async_meeting, weekly_persona_meeting_digest)))))
    IN  Ack \o post_to_bots_channel \o TryElse(Call(jobs) \o TellOk, Tell)

JobCommands == [admin_run_job |-> admin_run_job]

JobOthers ==
    [daily_digest |-> daily_digest,
     thursday_async_meeting |-> thursday_async_meeting,
     end_of_week_reflection |-> end_of_week_reflection,
     async_meeting_eod_summary |-> _async_meeting_eod_summary,
     weekly_strategic_review |-> weekly_strategic_review,
     daily_knowledge_refresh |-> daily_knowledge_refresh,
     daily_scout_search |-> daily_scout_search,
     scout_background_crawl |-> scout_background_crawl,
     rainmaker_opportunity_hunt |-> rainmaker_opportunity_hunt,
     rainmaker_morning_pipeline |-> rainmaker_morning_pipeline,
     rainmaker_follow_up_nudges |-> rainmaker_follow_up_nudges,
     rainmaker_weekly_cold_review |-> rainmaker_weekly_cold_review,
     rainmaker_past_client_checkin |-> rainmaker_past_client_checkin,
     dreamer_ideation_cycle |-> dreamer_ideation_cycle,
     steward_daily_health_check |-> steward_daily_health_check,
     steward_weekly_self_assessment |-> steward_weekly_self_assessment,
     steward_learning_loop_audit |-> steward_learning_loop_audit,
     curator_daily_scan |-> curator_daily_scan,
     curator_weekly_deep_analysis |-> curator_weekly_deep_analysis,
     curator_corpus_interrogation |-> curator_corpus_interrogation]

=============================================================================
