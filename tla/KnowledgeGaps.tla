--------------------------- MODULE KnowledgeGaps ---------------------------
(***************************************************************************)
(* Questions the assistant could not answer, and the interviews in which   *)
(* people answer them: in Discord (cogs/KnowledgeGapTracker.py) and in the *)
(* console's inbox (admin/routers/inbox.py). Both take gaps from one table *)
(* and give them back to it, while others log, curate, tidy and close gaps.*)
(*                                                                         *)
(* An interview in Discord is a view with buttons, which times out, and a  *)
(* card for each question asked, which outlives it. An interview in the    *)
(* console is a row that names the gap being asked, which outlives the     *)
(* process. A gap is chosen by one statement and taken by a later one.     *)
(*                                                                         *)
(* All work on one database connection: whoever commits makes everybody's  *)
(* writes durable, and what nobody commits is lost with the process.       *)
(***************************************************************************)
EXTENDS Naturals

CONSTANTS
    Gaps,           \* bound: names for rows of knowledge_gaps
    DepthOf,        \* how many follow-ups deep the question of each name is
    LowSignal,      \* questions that the hygiene sweep finds wanting
    Dispositions,   \* bound: what people decide about a gap
    Sessions,       \* bound: Discord interviews
    Threads,        \* bound: interviews in the inbox
    Requests,       \* requests of the console under way at once
    NoGap,
    NoThread,
    MaxDepth        \* cq_followup_max_recursion_depth

ASSUME GapsAssumption ==
    /\ MaxDepth \in Nat
    /\ DepthOf \in [Gaps -> Nat]
    /\ Dispositions \subseteq {"keep", "defer", "discard"}
    /\ NoGap \notin Gaps
    /\ NoThread \notin Threads

VARIABLES
    gap,        \* the rows, as every statement sees them
    disk,       \* the rows as last committed
    on,         \* Discord interviews whose view is alive
    cur,        \* the question each view shows
    taking,     \* views that have chosen the question and are about to take it
    cards,      \* questions of each interview whose answer card is alive
    held,       \* inbox_threads.gap_id
    req,        \* where each request of the console is
    listed,     \* gaps the hygiene sweep is about to defer
    refused,    \* history: gaps people discarded and have not readmitted
    lost        \* history: gaps in progress that no interview took, or whose
                \* interview went away

vars == <<gap, disk, on, cur, taking, cards, held, req, listed, refused, lost>>

Statuses == {"none", "open", "in_progress", "resolved"}
Curations == {"pending", "keep", "defer", "discard"}

\* last_asked matters only for a gap in progress, by whether it is more than
\* 24 hours ago.
Row == [status : Statuses, curation : Curations, aged : BOOLEAN]

Req == [thread : Threads \cup {NoThread}, next : Gaps \cup {NoGap}]

Idle == [thread |-> NoThread, next |-> NoGap]

Absent == [status |-> "none", curation |-> "pending", aged |-> FALSE]

New(curation) == [status |-> "open", curation |-> curation, aged |-> FALSE]

TypeOK ==
    /\ gap \in [Gaps -> Row]
    /\ disk \in [Gaps -> Row]
    /\ on \subseteq Sessions
    /\ cur \in [Sessions -> Gaps \cup {NoGap}]
    /\ taking \subseteq Sessions
    /\ cards \in [Sessions -> SUBSET Gaps]
    /\ held \in [Threads -> Gaps \cup {NoGap}]
    /\ req \in [Requests -> Req]
    /\ listed \subseteq Gaps
    /\ refused \subseteq Gaps
    /\ lost \subseteq Gaps

Init ==
    /\ gap = [g \in Gaps |-> Absent]
    /\ disk = gap
    /\ on = {}
    /\ cur = [s \in Sessions |-> NoGap]
    /\ taking = {}
    /\ cards = [s \in Sessions |-> {}]
    /\ held = [t \in Threads |-> NoGap]
    /\ req = [h \in Requests |-> Idle]
    /\ listed = {}
    /\ refused = {}
    /\ lost = {}

-----------------------------------------------------------------------------
(* Rows.                                                                   *)

Exists(g) == gap[g].status # "none"

InProgress(g) == gap[g].status = "in_progress"

\* An UPDATE of one row changes nothing when the row is gone.
WithStatus(g, status) ==
    IF Exists(g) THEN [gap EXCEPT ![g].status = status, ![g].aged = FALSE]
                 ELSE gap

Reopened(row) == [row EXCEPT !.status = "open", !.aged = FALSE]

\* Rows an interview in Discord asks.
Eligible == {g \in Gaps : gap[g].status = "open" /\ gap[g].curation = "keep"}

Deferred == {g \in Gaps : gap[g].status = "open" /\ gap[g].curation = "defer"}

\* A commit, whoever makes it, is a commit of everything.
Commit == disk' = gap'

\* A gap given back is lost no more.
Settle(more) == lost' = {g \in lost \cup more : gap'[g].status = "in_progress"}

Elsewhere == UNCHANGED <<held, req>>
Discordless == UNCHANGED <<on, cur, taking, cards>>

-----------------------------------------------------------------------------
(* Interviews in Discord.                                                  *)

\* A view closes or is replaced; what it is about to take it will take.
NothingShown(s) == [cur EXCEPT ![s] = IF s \in taking THEN @ ELSE NoGap]

\* /interview opens a view where there is something to ask.
Interview(s) ==
    /\ s \notin on \cup taking
    /\ Eligible # {}
    /\ on' = on \cup {s}
    /\ cur' = NothingShown(s)
    /\ UNCHANGED <<gap, taking, cards, listed, refused>>
    /\ Elsewhere
    /\ Commit /\ Settle({})

\* Where there is nothing to ask it seeds questions on a topic, with the
\* table's default curation, and counts again what may be asked.
Seed(g) ==
    /\ Eligible = {}
    /\ ~Exists(g)
    /\ DepthOf[g] = 0
    /\ gap' = [gap EXCEPT ![g] = New("pending")]
    /\ UNCHANGED <<listed, refused>>
    /\ Discordless /\ Elsewhere
    /\ Commit /\ Settle({})

\* Next Question chooses a gap other than the one shown ...
Choose(s) ==
    /\ s \in on \ taking
    /\ \E g \in Eligible \ {cur[s]} : cur' = [cur EXCEPT ![s] = g]
    /\ taking' = taking \cup {s}
    /\ UNCHANGED <<gap, disk, on, cards, listed, refused, lost>>
    /\ Elsewhere

\* ... and takes it, whatever has become of it.
Mark(s) ==
    LET g == cur[s] IN
    /\ s \in taking
    /\ gap' = WithStatus(g, "in_progress")
    /\ taking' = taking \ {s}
    /\ cards' = [cards EXCEPT ![s] = @ \cup {g}]
    /\ UNCHANGED <<on, cur, listed, refused>>
    /\ Elsewhere
    /\ Commit /\ Settle(IF s \in on THEN {} ELSE {g})

\* A memo that leaves nothing open resolves the gap; then the handler reads a
\* name that only the other branch has assigned, and ends without a commit,
\* an interview_questions row or a count.
AnswerWell(s, g) ==
    /\ g \in cards[s]
    /\ gap' = WithStatus(g, "resolved")
    /\ cards' = [cards EXCEPT ![s] = @ \ {g}]
    /\ UNCHANGED <<disk, on, cur, taking, listed, refused>>
    /\ Elsewhere
    /\ Settle({})

\* Mutant: the depth of the gap answered is compared, not that of its children.
DeepEnough(g) == DepthOf[g] <= MaxDepth

MayFollowUp(g) == DepthOf[g] + 1 <= MaxDepth

FollowUps(g) ==
    {f \in Gaps : ~Exists(f) /\ DepthOf[f] = DepthOf[g] + 1 /\ MayFollowUp(g)}

\* Any other memo reopens the gap and asks for what is missing in new ones,
\* to a depth. The interview goes on in a view of its own.
AnswerShort(s, g) ==
    /\ g \in cards[s]
    /\ \E more \in SUBSET FollowUps(g), curation \in {"keep", "defer"} :
         gap' = [f \in Gaps |-> IF f \in more THEN New(curation)
                                ELSE WithStatus(g, "open")[f]]
    /\ cards' = [cards EXCEPT ![s] = @ \ {g}]
    /\ on' = on \cup {s}
    /\ cur' = NothingShown(s)
    /\ UNCHANGED <<taking, listed, refused>>
    /\ Elsewhere
    /\ Commit /\ Settle({})

\* The card's other button closes the gap for good and has the view ask on,
\* even a view that has ended.
DiscardButton(s, g) ==
    /\ g \in cards[s]
    /\ s \notin taking
    /\ gap' = IF Exists(g)
                THEN [WithStatus(g, "resolved") EXCEPT ![g].curation = "discard"]
                ELSE gap
    /\ refused' = IF Exists(g) THEN refused \cup {g} ELSE refused
    /\ cards' = [cards EXCEPT ![s] = @ \ {g}]
    /\ \/ /\ \E next \in Eligible \ {g, cur[s]} : cur' = [cur EXCEPT ![s] = next]
          /\ taking' = taking \cup {s}
       \/ /\ Eligible \ {g, cur[s]} = {}
          /\ UNCHANGED <<cur, taking>>
    /\ UNCHANGED <<on, listed>>
    /\ Elsewhere
    /\ Commit /\ Settle({})

\* A card is good for ten minutes.
Expire(s, g) ==
    /\ g \in cards[s]
    /\ cards' = [cards EXCEPT ![s] = @ \ {g}]
    /\ UNCHANGED <<gap, disk, on, cur, taking, listed, refused, lost>>
    /\ Elsewhere

\* Mutant: a view gives back only the gap it shows.
Shown(s) == {cur[s]} \cap Gaps

Returned(s) == {g \in Gaps : InProgress(g)}

GivenBack(s) ==
    [g \in Gaps |-> IF g \in Returned(s) /\ InProgress(g) THEN Reopened(gap[g])
                                                          ELSE gap[g]]

Close(s) ==
    /\ s \in on
    /\ on' = on \ {s}
    /\ cur' = NothingShown(s)
    /\ UNCHANGED <<taking, cards, listed, refused>>
    /\ Elsewhere

\* Pause, end and the view's timeout give back every gap in progress.
GiveBack(s) ==
    /\ Close(s)
    /\ gap' = GivenBack(s)
    /\ Commit /\ Settle({})

\* The timeout only logs that its UPDATE or its commit has failed; the view is
\* gone all the same.
TimeoutFails(s) ==
    /\ Close(s)
    /\ gap' \in {gap, GivenBack(s)}
    /\ UNCHANGED disk
    /\ Settle(Gaps)

ViewEnds(s) == GiveBack(s) \/ TimeoutFails(s)

-----------------------------------------------------------------------------
(* Interviews in the inbox.                                                *)

\* Mutant: a skipped question is not given back.
SkippedQuietly(g) == gap

\* Mutant: a status that the table does not know.
SkippedAsSuch(g) == WithStatus(g, "skipped")

Skipped(g) == WithStatus(g, "open")

\* Mutant: stale gaps are left where they are.
NoneStale(rows) == rows

\* A gap in progress that was last asked a day ago is given back.
Recovered(rows) ==
    [g \in Gaps |-> IF rows[g].status = "in_progress" /\ rows[g].aged
                      THEN Reopened(rows[g]) ELSE rows[g]]

\* The gap just asked is asked again only when it is the only one.
Usable(rows, was) == IF rows \subseteq {was} THEN rows ELSE rows \ {was}

\* Gaps to keep are preferred to those deferred.
Offered == IF Eligible # {} THEN Eligible ELSE Deferred

\* The request for another question writes what became of the last, commits,
\* and calls _pick_next_gap: stale gaps are given back, and one is chosen. When
\* a statement fails that is logged, and there is no next question.
PickNextGap(h, t, rows, works) ==
    /\ req[h] = Idle
    /\ \/ gap' = Recovered(rows)
       \/ ~works /\ gap' = rows
    /\ \E next \in IF works /\ Offered' # {} THEN Usable(Offered', held[t])
                                            ELSE {NoGap} :
         req' = [req EXCEPT ![h] = [thread |-> t, next |-> next]]
    /\ UNCHANGED <<held, listed, refused>>
    /\ Discordless
    /\ Commit /\ Settle({})

\* A new interview, or one that had run out of questions.
WebStart(h, t, works) == held[t] = NoGap /\ PickNextGap(h, t, gap, works)

WebAnswer(h, t, works) ==
    /\ held[t] # NoGap
    /\ PickNextGap(h, t, WithStatus(held[t], "resolved"), works)

WebSkip(h, t, works) ==
    held[t] # NoGap /\ PickNextGap(h, t, Skipped(held[t]), works)

\* The interview goes on with the gap chosen, or is over. A second request for
\* the same interview may replace the gap without giving it back.
Take(h) ==
    LET t == req[h].thread
        g == req[h].next IN
    /\ t # NoThread
    /\ held' = [held EXCEPT ![t] = g]
    /\ gap' = IF g = NoGap THEN gap ELSE WithStatus(g, "in_progress")
    /\ req' = [req EXCEPT ![h] = Idle]
    /\ UNCHANGED <<listed, refused>>
    /\ Discordless
    /\ Commit
    /\ Settle(IF \E o \in Requests \ {h} : req[o].thread = t
                THEN {g} \cap Gaps ELSE {})

-----------------------------------------------------------------------------
(* Everybody else.                                                         *)

Others ==
    /\ Discordless /\ Elsewhere
    /\ Commit /\ Settle({})

\* A question met for the first time. One that is open already is counted and
\* its last_asked set; any other is left as it is by the unique index.
Log(g) ==
    /\ ~Exists(g)
    /\ DepthOf[g] = 0
    /\ \E curation \in {"keep", "defer"} :
         gap' = [gap EXCEPT ![g] = New(curation)]
    /\ UNCHANGED <<listed, refused>>
    /\ Others

\* A confident answer closes the gap.
AutoClose(g) ==
    /\ gap[g].status = "open"
    /\ gap' = WithStatus(g, "resolved")
    /\ UNCHANGED <<listed, refused>>
    /\ Others

Decide(g, disp) == refused' = IF disp = "discard" THEN refused \cup {g}
                              ELSE refused \ {g}

\* A skip in Discord, /gap curate and /gap bulk.
Curate(g, disp) ==
    /\ Exists(g)
    /\ gap' = [WithStatus(g, IF disp = "discard" THEN "resolved" ELSE "open")
                EXCEPT ![g].curation = disp]
    /\ Decide(g, disp)
    /\ UNCHANGED listed
    /\ Others

\* The console changes the curation alone ...
Recurate(g, disp) ==
    /\ Exists(g)
    /\ gap' = [gap EXCEPT ![g].curation = disp]
    /\ Decide(g, disp)
    /\ UNCHANGED listed
    /\ Others

\* ... resolves ...
Resolve(g) ==
    /\ Exists(g)
    /\ gap' = WithStatus(g, "resolved")
    /\ UNCHANGED <<listed, refused>>
    /\ Others

\* ... gives a gap any other status the table knows, and asks nobody ...
Restate(g, status) ==
    /\ Exists(g)
    /\ gap' = IF gap[g].status = status THEN gap ELSE WithStatus(g, status)
    /\ UNCHANGED <<listed, refused>>
    /\ Discordless /\ Elsewhere
    /\ Commit /\ Settle(IF InProgress(g) THEN {} ELSE {g})

\* ... and deletes.
Delete(g) ==
    /\ Exists(g)
    /\ gap' = [gap EXCEPT ![g] = Absent]
    /\ refused' = refused \ {g}
    /\ UNCHANGED listed
    /\ Others

\* The hygiene sweep reads the gaps that may be asked and finds some of them
\* to be duplicates or of low signal, by their text; the rows are independent,
\* and one at a time is listed here ...
Scan ==
    /\ listed = {}
    /\ \E g \in Eligible \cap LowSignal : listed' = {g}
    /\ UNCHANGED <<gap, disk, refused, lost>>
    /\ Discordless /\ Elsewhere

\* Mutant: what was read is deferred as read.
AsRead(g) == Exists(g)

StillKept(g) == g \in Eligible

\* ... and defers those that still are.
Hygiene ==
    /\ listed # {}
    /\ gap' = [g \in Gaps |-> IF g \in listed /\ StillKept(g)
                                THEN [gap[g] EXCEPT !.curation = "defer"]
                                ELSE gap[g]]
    /\ listed' = {}
    /\ UNCHANGED refused
    /\ Others

\* A day goes by since the gap was last asked. Only for gaps in progress does
\* anybody look.
Age(g) ==
    /\ InProgress(g)
    /\ ~gap[g].aged
    /\ gap' = [gap EXCEPT ![g].aged = TRUE]
    /\ disk' = [disk EXCEPT ![g].aged = Exists(g)]
    /\ UNCHANGED <<listed, refused, lost>>
    /\ Discordless /\ Elsewhere

\* Views, cards, requests and uncommitted writes end with the process.
Crash ==
    /\ gap' = disk
    /\ on' = {}
    /\ cur' = [s \in Sessions |-> NoGap]
    /\ taking' = {}
    /\ cards' = [s \in Sessions |-> {}]
    /\ req' = [h \in Requests |-> Idle]
    /\ listed' = {}
    /\ Settle(Gaps)
    /\ UNCHANGED <<disk, held, refused>>

Discord ==
    \E s \in Sessions :
        \/ Interview(s) \/ Choose(s) \/ Mark(s) \/ ViewEnds(s)
        \/ \E g \in Gaps : \/ AnswerWell(s, g) \/ AnswerShort(s, g)
                           \/ DiscardButton(s, g) \/ Expire(s, g)

Pick(works) ==
    \E h \in Requests, t \in Threads :
        WebStart(h, t, works) \/ WebAnswer(h, t, works) \/ WebSkip(h, t, works)

PickSome == Pick(TRUE)

Inbox == PickSome \/ Pick(FALSE) \/ \E h \in Requests : Take(h)

People ==
    \E g \in Gaps :
        \/ Resolve(g) \/ Delete(g)
        \/ \E status \in {"open", "in_progress"} : Restate(g, status)
        \/ \E disp \in Dispositions :
             Curate(g, disp) \/ Recurate(g, disp)

Machinery == Scan \/ Hygiene \/ \E g \in Gaps : Seed(g) \/ Log(g) \/ AutoClose(g)

Next ==
    \/ Discord
    \/ Inbox
    \/ People
    \/ Machinery
    \/ \E g \in Gaps : Age(g)
    \/ Crash

Spec == Init /\ [][Next]_vars

\* Views time out, and days go by.
FairSpec ==
    /\ Spec
    /\ \A s \in Sessions : WF_vars(ViewEnds(s))
    /\ \A g \in Gaps : WF_vars(Age(g))

-----------------------------------------------------------------------------
\* A gap in progress is with somebody: an inbox interview that asks it, or a
\* Discord interview whose end will give it back. Only the end of the process,
\* a timeout that fails, a card used after its interview's end, two requests of
\* one inbox interview, or a person who gives it that status in the console
\* leave it with nobody (KnowledgeGapTracker.py:1241-1398, 1444-1532,
\* inbox.py:1172-1239, knowledge.py:871-920).
NobodysGap ==
    \A g \in Gaps :
        InProgress(g) => \/ on # {}
                         \/ \E t \in Threads : held[t] = g
                         \/ g \in lost

\* Follow-ups of follow-ups end (KnowledgeGapTracker.py:1050-1105).
DepthBounded == \A g \in Gaps : Exists(g) => DepthOf[g] <= MaxDepth

\* What a person discarded no sweep, interview or repeated question brings
\* back among the gaps that may be asked (KnowledgeGapTracker.py:1835-1890).
DiscardedStaysOut == refused \cap (Eligible \cup Deferred) = {}

\* As long as a view is alive, a moment comes at which it has given back every
\* gap that anybody was asked, unless its timeout fails
\* (KnowledgeGapTracker.py:1518-1532).
SessionsGiveBack ==
    on # {} ~> \A g \in Gaps : InProgress(g) => g \in lost

\* Whatever ended, a gap in progress is given back as long as people go on with
\* interviews in the inbox and their requests work (inbox.py:1242-1290).
GapsComeBack ==
    ([]<><<PickSome>>_vars) =>
        \A g \in {f \in Gaps : DepthOf[f] <= MaxDepth} :
            InProgress(g) ~> ~InProgress(g)

\* Seeds are there "so the existing InterviewView can run normally"
\* (KnowledgeGapTracker.py:3384).
SeedsCanBeAsked ==
    \A g \in Gaps :
        gap[g].status = "open" /\ gap[g].curation = "pending" => g \in Eligible
=============================================================================
