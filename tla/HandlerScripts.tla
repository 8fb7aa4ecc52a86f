--------------------------- MODULE HandlerScripts ---------------------------
(***************************************************************************)
(* How the handlers of commands, buttons, web requests and jobs are put    *)
(* together. A script is the sequence of what a handler does that others   *)
(* can see: it reads and writes through the one connection of database.py, *)
(* commits, waits for a model or for Discord, and answers. The operators   *)
(* below are Python's own forms: a branch, a loop, try and except, a       *)
(* transaction block, a call. What a step does is in SharedConnection.     *)
(*                                                                         *)
(* A step that raises goes on "catch" steps further, out of the handler    *)
(* when that is 0, and rolls the connection back first if it must "undo".  *)
(***************************************************************************)
EXTENDS Integers, Sequences

Step(do) == <<[do |-> do, to |-> 0, catch |-> 0, undo |-> FALSE]>>

Read == Step("read")
Write == Step("write")
Want == Step("want")        \* a write its user is told has been done
Commit == Step("commit")
Slow == Step("slow")        \* a model, the index, the web, a large file
File == Step("file")        \* a file or two, without leaving the event loop
Post == Step("post")        \* a message to a channel, or another Discord call
Raise == Step("raise")
Return == Step("return")

\* The first response to an interaction, and what follows it; "Ok" says that
\* what was asked for has been done. A web request, a tool or a caller is only
\* answered once, by what is returned.
Ack == Step("ack")
AckOk == Step("ack ok")
Tell == Step("tell")
TellOk == Step("tell ok")
ReplyOk == Step("reply ok")

Save == Write \o Commit
Keep == Want \o Commit
Refuse == Ack \o Return
RefuseLate == Tell \o Return

-----------------------------------------------------------------------------
Fork(n) == <<[Step("fork")[1] EXCEPT !.to = n]>>
Jump(n) == <<[Step("jump")[1] EXCEPT !.to = n]>>

Maybe(s) == Fork(Len(s) + 1) \o s

Either(s, t) == Fork(Len(s) + 2) \o s \o Jump(Len(t) + 1) \o t

Many(s) == Fork(Len(s) + 2) \o s \o Jump(-Len(s) - 1)

\* interaction.response.is_done()
IfAnswered(s, t) ==
    <<[Step("answered?")[1] EXCEPT !.to = Len(s) + 2]>>
        \o s \o Jump(Len(t) + 1) \o t

\* What nothing inside catches goes to the step "after" the end of s.
Caught(s, after) ==
    [i \in 1..Len(s) |->
        IF s[i].catch = 0 THEN [s[i] EXCEPT !.catch = Len(s) + after - i] ELSE s[i]]

Try(s) == Caught(s, 1)

TryElse(s, h) == Caught(s, 2) \o Jump(Len(h) + 1) \o h

\* A function that swallows its exceptions and returns whether it succeeded.
Attempt(s, ok, bad) ==
    Caught(s, Len(ok) + 2) \o ok \o Jump(Len(bad) + 1) \o bad

\* async with db.transaction(), or a service's _transaction(). One inside another
\* has no beginning of its own.
Transaction(s) ==
    LET inner == [i \in 1..Len(s) |-> IF s[i].do = "begin" THEN Jump(1)[1] ELSE s[i]]
        block == Step("begin") \o inner \o Commit
    IN  [i \in 1..Len(block) |->
            IF block[i].catch = 0 THEN [block[i] EXCEPT !.undo = TRUE] ELSE block[i]]

\* A function's return is not its caller's.
Call(s) ==
    [i \in 1..Len(s) |->
        IF s[i].do = "return" THEN Jump(Len(s) + 1 - i)[1] ELSE s[i]]

-----------------------------------------------------------------------------
(* What all of them share: database.py, the error handlers of              *)
(* leisureLLM.py and of the views, the progress card of ux_helpers.py.     *)

record_job_run ==
    TryElse(Read \o Maybe(Return) \o Save, Read \o Maybe(Return) \o Save)

complete_job_run ==
    Try(Read) \o Maybe(Read \o Maybe(Return)) \o TryElse(Write, Write) \o Commit

\* A job that has run for the day returns; any other goes on, even when that
\* could not be recorded.
StartRun == Try(Call(record_job_run) \o Maybe(Return))
EndRun == Try(Call(complete_job_run))

\* The log of a failed command is committed on the connection the command used.
_steward_log_command_usage == Try(Save)

View_on_error == Try(IfAnswered(Tell, Ack))

on_app_command_error == _steward_log_command_usage \o View_on_error
on_app_command_completion == _steward_log_command_usage

\* A slash command, and a button or select of a view that has an on_error.
Command(s) == TryElse(s, on_app_command_error)
InView(s) == TryElse(s, View_on_error)

AllIn(Wrap(_), scripts) == [h \in DOMAIN scripts |-> Wrap(scripts[h])]

\* A progress card keeps its own failures to itself.
Progress == Try(Post)

=============================================================================
