---------------------------- MODULE GapHandlers -----------------------------
(***************************************************************************)
(* Interviews and knowledge gaps in Discord: cogs/KnowledgeGapTracker.py.  *)
(* The jobs of that cog record their run as in ScheduledJobs.              *)
(***************************************************************************)
EXTENDS HandlerScripts

insert_gap == TryElse(Write, Write \o Try(Write))

_call_ollama_chat == Slow
_trigger_ingest == Try(Slow)

SkipNoteModal_on_submit == Ack

SkipDispositionView_apply ==
    Maybe(Refuse) \o Ack
        \o TryElse(Want \o Maybe(Want) \o Maybe(Want) \o Commit \o TellOk, Tell)

\* The model is asked for tasks while what the answer changed is not committed.
_detect_and_create_action_items ==
    Call(Try(Read \o Maybe(Return) \o _call_ollama_chat \o Maybe(Return) \o Read
                 \o Many(Write \o Write)))

_track_answer_received == Try(Write \o Maybe(Write) \o Commit)

\* What is done about the gap. When the memo is sufficient the next statement
\* reads names that only the other branch assigns.
answered_gap ==
    Either(Want \o Try(Want \o Maybe(Want)) \o Raise, Want \o Many(insert_gap))

interview_memo ==
    Progress \o _call_ollama_chat \o Maybe(Progress \o Return) \o Progress \o File \o Progress

InterviewModal_on_submit ==
    LET rows == Try(Read) \o answered_gap \o Many(insert_gap) \o Want \o Want
                    \o _detect_and_create_action_items \o Commit
    IN  Ack \o Maybe(RefuseLate) \o Post
            \o TryElse(interview_memo \o Progress \o rows \o Maybe(_track_answer_received)
                           \o Progress \o _trigger_ingest \o Progress \o TellOk,
                       Progress \o Tell)

_build_probing_prompt == Try(_call_ollama_chat)

_present_next_question ==
    Read \o Maybe(Tell \o Save \o Return)
        \o Write \o Write \o Commit \o _build_probing_prompt \o Tell \o Tell

next_question == Ack \o TryElse(_present_next_question, Tell)

skip_question == Ack

\* "Paused", it says, and then writes that it is.
pause_session == Ack \o Save

end_session == Read \o Want \o Want \o Commit \o AckOk

on_timeout == Try(Save)

answer_button == Ack

discard_button ==
    Ack \o TryElse(Keep \o TellOk \o Either(_present_next_question, Tell), Tell)

-----------------------------------------------------------------------------
_run_gap_hygiene_sweep == Read \o Maybe(Many(Want) \o Many(Want) \o Commit)

gaps_cleanup ==
    Maybe(Refuse) \o Ack \o Maybe(RefuseLate)
        \o TryElse(_run_gap_hygiene_sweep \o TellOk, Tell)

_build_archivist_report == Many(Read)

archivist_report == Ack \o TryElse(_build_archivist_report \o Tell, Tell)

_post_reminder == Maybe(TryElse(Post \o Return, <<>>)) \o Maybe(Post)

\* A bounty posted and not recorded is posted again the next day.
bounty_board_post ==
    LET offer == Attempt(Read, Attempt(Post, Try(Save), <<>>), <<>>)
    IN  StartRun
            \o TryElse(Read \o Many(offer) \o EndRun, EndRun)

_track_question_asked == Try(Save)

_pick_partner_member == Many(Try(Post))

\* The prompt is posted first and the gap assigned to the partner afterwards.
_run_thursday_prompt_once ==
    Maybe(Return) \o Maybe(StartRun) \o Read \o Maybe(Return)
        \o _pick_partner_member \o _build_probing_prompt \o Try(Read)
        \o Maybe(Either(Post, Call(_post_reminder)) \o Save \o Maybe(_track_question_asked))

gap_reminder ==
    StartRun
        \o TryElse(Read \o Read \o Maybe(EndRun \o Return)
                       \o Call(_post_reminder) \o EndRun,
                   EndRun)

thursday_partner_prompt ==
    TryElse(Call(_run_thursday_prompt_once) \o Maybe(Return) \o EndRun,
            EndRun)

\* What it calls may raise, and then nobody tells the owner.
thursday_prompt_admin == Ack \o Call(_run_thursday_prompt_once) \o Maybe(RefuseLate) \o Tell

log_knowledge_gap ==
    Maybe(Return)
        \o Try(Read \o Either(Write, TryElse(Write, Write \o Try(Write))) \o Commit)

_generate_preemptive_questions == Try(_call_ollama_chat)

\* Mutant: the seeded gaps wait for a commit until the interview is planned.
_seed_uncommitted == Try(Many(Write))

_seed_preemptive_gaps == Call(Maybe(Return) \o Try(Many(Write) \o Commit))

interview ==
    Maybe(Refuse) \o Ack
        \o TryElse(Maybe(RefuseLate) \o Read
                       \o Maybe(_generate_preemptive_questions \o _seed_preemptive_gaps \o Read)
                       \o Maybe(RefuseLate) \o Keep \o TellOk,
                   Tell)

knowledge_gaps == Ack \o TryElse(Read \o Maybe(RefuseLate) \o Tell, Tell)

gap_curate ==
    Maybe(Refuse) \o Ack \o TryElse(Want \o Maybe(Want) \o Commit \o TellOk, Tell)

gaps_bulk ==
    Maybe(Refuse) \o Ack \o Maybe(RefuseLate)
        \o TryElse(Read \o Maybe(RefuseLate) \o Maybe(RefuseLate)
                       \o Many(Want \o Maybe(Want) \o Maybe(Want)) \o Commit \o TellOk,
                   Tell)

-----------------------------------------------------------------------------
GapCommands ==
    [gaps_cleanup |-> gaps_cleanup,
     archivist_report |-> archivist_report,
     thursday_prompt_admin |-> thursday_prompt_admin,
     interview |-> interview,
     knowledge_gaps |-> knowledge_gaps,
     gap_curate |-> gap_curate,
     gaps_bulk |-> gaps_bulk]

GapViews ==
    [SkipDispositionView |-> SkipDispositionView_apply,
     next_question |-> next_question,
     skip_question |-> skip_question,
     pause_session |-> pause_session,
     end_session |-> end_session,
     answer_button |-> answer_button,
     discard_button |-> discard_button]

GapControls ==
    [SkipNoteModal |-> SkipNoteModal_on_submit,
     InterviewModal |-> InterviewModal_on_submit]

GapOthers ==
    [interview_timeout |-> on_timeout,
     bounty_board_post |-> bounty_board_post,
     gap_reminder |-> gap_reminder,
     thursday_partner_prompt |-> thursday_partner_prompt,
     log_knowledge_gap |-> log_knowledge_gap]

=============================================================================
