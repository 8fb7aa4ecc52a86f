---------------------------- MODULE ChatHandlers ----------------------------
(***************************************************************************)
(* Questions, feedback and what the bot is told to remember in Discord:    *)
(* cogs/LLM.py, cogs/FeedbackView.py, cogs/DocumentAuthor.py.              *)
(***************************************************************************)
EXTENDS GapHandlers

_steward_log_question ==
    Call(Try(Save \o Read \o Maybe(Try(Read \o Save)) \o Read))

_steward_update_question_feedback == Try(Save)

AskQuestion == Slow

\* A failure becomes the text of the answer.
_ask_with_context == Maybe(Try(Slow)) \o Maybe(Try(Slow)) \o Try(Slow)

retrieve(status) ==
    Try(status) \o Maybe(Try(Slow)) \o Slow \o Try(Slow) \o Maybe(Try(Slow))
        \o Maybe(Try(Slow))

augment(status) == Try(Read) \o Maybe(Try(status) \o Try(Slow \o status))

assess == Try(Slow \o Maybe(Slow \o log_knowledge_gap))

\* Retrieval and its refinements, the answer, and what the answer says about
\* gaps. A timeout is an answer too.
safe_llm_call(status) ==
    Call(TryElse(retrieve(status) \o augment(status) \o Try(status) \o _ask_with_context
                     \o Maybe(assess),
                 Maybe(Raise)))

\* Tried again from the start when only the sending has failed.
handle_query ==
    LET sent == Post \o Many(Post) \o Maybe(Post)
        attempt == safe_llm_call(Post) \o Maybe(Raise) \o Try(Post) \o sent \o Return
    IN  Try(Post) \o Many(TryElse(attempt, Maybe(Try(Post) \o Try(Post) \o Return)))

LLM_on_message ==
    Maybe(Return) \o Maybe(Maybe(Try(Post)) \o Return) \o Many(Post)
        \o Maybe(Try(Post) \o Maybe(handle_query))

ask ==
    Maybe(Refuse) \o Ack \o Maybe(Try(_steward_log_question))
        \o TryElse(safe_llm_call(<<>>), RefuseLate) \o Maybe(RefuseLate)
        \o Tell \o Maybe(Tell) \o Many(Tell) \o Maybe(Tell)

\* Mutant: the answer is sought before Discord hears of the command.
deep_consult_undeferred == TryElse(safe_llm_call(<<>>), Refuse) \o Ack \o Many(Tell)

deep_consult ==
    Maybe(Refuse) \o Ack \o TryElse(safe_llm_call(<<>>), RefuseLate) \o Maybe(RefuseLate)
        \o Tell \o Maybe(Tell) \o Many(Tell)

health_check == Ack \o Try(Slow) \o Try(Slow) \o Maybe(Try(Read \o Read)) \o Try(Slow) \o Tell

Test_Answer == safe_llm_call(<<>>) \o Post
on_reaction_test_answer == Maybe(Post \o Maybe(Test_Answer))

handle_reply == safe_llm_call(<<>>) \o Maybe(RefuseLate) \o Tell \o Many(Tell)

AskReplyModal_on_submit == Ack \o handle_reply

reply_button == Maybe(Refuse) \o Ack

tour == Ack \o Tell

-----------------------------------------------------------------------------
(* DocumentAuthor: a file, a row, the index, and an answer.                *)

DocumentAuthor_ingest == Slow

_classify_input == Try(Slow)

\* A decision, a task or a meeting gets a row, knowledge does not.
_write_row == Maybe(Keep)

\* "Action Created", it says in the end, whether or not the row was written.
_remember_logic ==
    LET row == TryElse(_write_row \o Progress, Progress)
        index == TryElse(DocumentAuthor_ingest \o Progress, Progress)
        connections == Try(Maybe(Progress \o Try(Slow) \o Maybe(safe_llm_call(<<>>))))
    IN  Post \o _classify_input \o Progress \o Progress \o File \o Progress
            \o row \o Progress \o index \o connections \o TellOk

remember_slash == Maybe(Refuse) \o Ack \o _remember_logic

remember_context == Ack \o Maybe(RefuseLate) \o _remember_logic

\* Without the cog that remembers, it follows up on a response never made.
remember_button == Either(Ack \o safe_llm_call(<<>>) \o _remember_logic, Tell)

save_btn ==
    Maybe(Refuse) \o Ack
        \o Maybe(TryElse(_remember_logic \o Try(Tell) \o Return, <<>>)) \o Tell

\* The old row goes first, and what replaces it is shown whether or not it was
\* written.
ReclassifySelect_callback ==
    Maybe(Refuse) \o Maybe(Refuse) \o Ack \o Maybe(Try(Save)) \o _classify_input
        \o Try(_write_row) \o TellOk

AddDetailsModal_on_submit == Ack \o Maybe(Try(Read \o Keep)) \o TellOk

confirm == Maybe(Refuse) \o Ack
add_details == Maybe(Refuse) \o Ack

_process_ingest ==
    Maybe(RefuseLate) \o Post
        \o TryElse(Progress \o Maybe(Try(Progress \o Slow)) \o File \o Progress \o Progress
                       \o Progress \o Progress
                       \o TryElse(DocumentAuthor_ingest \o Progress, Progress)
                       \o Progress \o TellOk \o Try(Post),
                   Progress)

TeachPrefillModal_on_submit == Ack \o _process_ingest
TeachPrefillView_open_modal == Maybe(Refuse) \o Ack \o Try(Tell)

_prefill_teach == Try(Slow)

ingest_knowledge == Either(Ack \o _prefill_teach \o Tell, Ack)

write_prompt_note == Ack \o File \o Try(DocumentAuthor_ingest) \o TellOk

manual_reindex == Ack \o TryElse(DocumentAuthor_ingest \o TellOk, Tell \o Raise)

\* The memo that is to improve the answers is noted on their feedback without
\* a commit.
auto_create_improvement_memo ==
    Call(Try(Maybe(Try(Read \o Maybe(Return))) \o File
                 \o Maybe(DocumentAuthor_ingest) \o Maybe(Write)))

approve_memo ==
    Ack \o Maybe(RefuseLate)
        \o TryElse(File \o Maybe(RefuseLate) \o DocumentAuthor_ingest \o TellOk, Tell)

pending_memos == Ack \o Many(Try(File)) \o Maybe(RefuseLate) \o Tell

-----------------------------------------------------------------------------
(* Feedback. Everything is done before Discord hears of the click, and     *)
(* "logged", it says, when none of it was.                                 *)

_check_auto_improvement_memo == Try(Read \o Maybe(auto_create_improvement_memo))

ResponseFeedbackView_record_feedback(more) ==
    Try(Keep \o Maybe(_steward_update_question_feedback) \o more)

helpful_button ==
    Maybe(Refuse) \o ResponseFeedbackView_record_feedback(<<>>) \o Ack \o TellOk

not_helpful_button ==
    Maybe(Refuse) \o ResponseFeedbackView_record_feedback(_check_auto_improvement_memo)
        \o Ack \o TellOk

PersistentFeedbackView_record_feedback == Try(Maybe(Keep))

persistent_helpful_button ==
    TryElse(PersistentFeedbackView_record_feedback \o Ack \o TellOk, AckOk)

persistent_not_helpful_button ==
    TryElse(PersistentFeedbackView_record_feedback \o Ack \o TellOk, AckOk)

ImprovementModal_on_submit == Maybe(auto_create_improvement_memo) \o Ack

-----------------------------------------------------------------------------
ChatCommands ==
    [ask |-> ask,
     deep_consult |-> deep_consult,
     health |-> health_check,
     tour |-> tour,
     remember_slash |-> remember_slash,
     remember_context |-> remember_context,
     ingest_knowledge |-> ingest_knowledge,
     write_prompt_note |-> write_prompt_note,
     manual_reindex |-> manual_reindex,
     approve_memo |-> approve_memo,
     pending_memos |-> pending_memos]

ChatControls ==
    [AskReplyModal |-> AskReplyModal_on_submit,
     reply_button |-> reply_button,
     remember_button |-> remember_button,
     save_btn |-> save_btn,
     ReclassifySelect |-> ReclassifySelect_callback,
     AddDetailsModal |-> AddDetailsModal_on_submit,
     confirm |-> confirm,
     add_details |-> add_details,
     TeachPrefillModal |-> TeachPrefillModal_on_submit,
     TeachPrefillView |-> TeachPrefillView_open_modal,
     helpful_button |-> helpful_button,
     not_helpful_button |-> not_helpful_button,
     persistent_helpful_button |-> persistent_helpful_button,
     persistent_not_helpful_button |-> persistent_not_helpful_button,
     ImprovementModal |-> ImprovementModal_on_submit]

ChatOthers ==
    [llm_on_message |-> LLM_on_message,
     test_answer |-> on_reaction_test_answer]

=============================================================================
