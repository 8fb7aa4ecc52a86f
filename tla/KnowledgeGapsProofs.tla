------------------------- MODULE KnowledgeGapsProofs -------------------------
(***************************************************************************)
(* For any gaps, interviews and requests, in Discord and in the inbox,     *)
(* however they interleave and whenever the process ends: a gap in         *)
(* progress is with somebody, follow-ups stay within their depth, and what *)
(* a person discarded is not asked again.                                  *)
(***************************************************************************)
EXTENDS KnowledgeGaps, TLAPS

Rows == [Gaps -> Row]

-----------------------------------------------------------------------------
(* The operators on rows.                                                  *)

LEMMA NewRows ==
    /\ Absent \in Row
    /\ \A curation \in Curations : New(curation) \in Row
  BY DEF Absent, New, Row, Statuses, Curations

LEMMA ReopenedRow ==
    ASSUME NEW row \in Row
    PROVE  /\ Reopened(row) \in Row
           /\ Reopened(row).status = "open"
           /\ Reopened(row).curation = row.curation
  BY DEF Reopened, Row, Statuses

\* A write of one gap's status touches neither its curation nor other gaps,
\* and makes no gap.
LEMMA StatusWritten ==
    ASSUME gap \in Rows, NEW g \in Gaps, NEW status \in Statuses \ {"none"}
    PROVE  /\ WithStatus(g, status) \in Rows
           /\ \A f \in Gaps :
                /\ WithStatus(g, status)[f].curation = gap[f].curation
                /\ (WithStatus(g, status)[f].status # "none") <=> Exists(f)
                /\ f # g => WithStatus(g, status)[f] = gap[f]
           /\ Exists(g) => WithStatus(g, status)[g].status = status
  BY DEF WithStatus, Exists, Rows, Row

\* A write of one gap's curation.
LEMMA CurationWritten ==
    ASSUME NEW rows \in Rows, NEW g \in Gaps, NEW disp \in Curations
    PROVE  /\ [rows EXCEPT ![g].curation = disp] \in Rows
           /\ [rows EXCEPT ![g].curation = disp][g].curation = disp
           /\ [rows EXCEPT ![g].curation = disp][g].status = rows[g].status
           /\ \A f \in Gaps \ {g} : [rows EXCEPT ![g].curation = disp][f] = rows[f]
  BY DEF Rows, Row

\* Giving back what is stale only turns gaps in progress into open ones.
LEMMA StaleGivenBack ==
    ASSUME NEW rows \in Rows
    PROVE  /\ Recovered(rows) \in Rows
           /\ \A f \in Gaps :
                /\ Recovered(rows)[f].curation = rows[f].curation
                /\ Recovered(rows)[f].status = rows[f].status
                   \/ /\ rows[f].status = "in_progress"
                      /\ Recovered(rows)[f].status = "open"
<1>1. \A f \in Gaps :
        Recovered(rows)[f] = IF rows[f].status = "in_progress" /\ rows[f].aged
                             THEN Reopened(rows[f]) ELSE rows[f]
  BY DEF Recovered
<1>2. \A f \in Gaps : rows[f] \in Row
  BY DEF Rows
<1>3. \A f \in Gaps : Recovered(rows)[f] \in Row
  BY <1>1, <1>2, ReopenedRow
<1>4. Recovered(rows) \in Rows
  BY <1>3 DEF Recovered, Rows
<1> QED
  BY <1>1, <1>2, <1>4, ReopenedRow

\* What the end of a view gives back was in progress and is open.
LEMMA AllGivenBack ==
    ASSUME gap \in Rows, NEW s \in Sessions
    PROVE  /\ GivenBack(s) \in Rows
           /\ \A f \in Gaps :
                /\ GivenBack(s)[f].curation = gap[f].curation
                /\ (GivenBack(s)[f].status # "none") <=> Exists(f)
                /\ GivenBack(s)[f].status # "in_progress"
<1>1. \A f \in Gaps : gap[f] \in Row /\ Reopened(gap[f]) \in Row
  BY ReopenedRow DEF Rows
<1>2. \A f \in Gaps : GivenBack(s)[f] = IF InProgress(f) THEN Reopened(gap[f])
                                                       ELSE gap[f]
  BY DEF GivenBack, Returned
<1>3. GivenBack(s) \in Rows
  BY <1>1, <1>2 DEF GivenBack, Rows
<1> QED
  BY <1>1, <1>2, <1>3, ReopenedRow DEF InProgress, Exists, Rows

\* Which rows the end of a view may leave.
LEMMA RowsAtTheEnd ==
    ASSUME gap \in Rows, NEW s \in Sessions, ViewEnds(s)
    PROVE  gap' = gap \/ gap' = GivenBack(s)
  BY DEF ViewEnds, GiveBack, TimeoutFails

\* A gap that is given back is lost no more, any other stays lost.
LEMMA SettledLost ==
    ASSUME lost \subseteq Gaps, NEW more \in SUBSET Gaps, Settle(more)
    PROVE  /\ lost' \subseteq Gaps
           /\ \A g \in lost \cup more : InProgress(g)' => g \in lost'
  BY DEF Settle, InProgress

-----------------------------------------------------------------------------
(* Types.                                                                  *)

\* What a view is about to take is a gap.
Chosen == \A s \in taking : cur[s] \in Gaps

Typed == TypeOK /\ Chosen

\* What is left to show of a step that commits and settles.
LEMMA CommittedTypes ==
    ASSUME Typed, gap' \in Rows, Commit, NEW more \in SUBSET Gaps, Settle(more),
           on' \subseteq Sessions, cur' \in [Sessions -> Gaps \cup {NoGap}],
           taking' \subseteq Sessions, Chosen', cards' \in [Sessions -> SUBSET Gaps],
           held' \in [Threads -> Gaps \cup {NoGap}],
           req' \in [Requests -> Req], listed' \subseteq Gaps,
           refused' \subseteq Gaps
    PROVE  Typed'
  BY SettledLost DEF Typed, TypeOK, Commit, Rows

LEMMA ShownTypes ==
    ASSUME Typed, NEW s \in Sessions
    PROVE  /\ NothingShown(s) \in [Sessions -> Gaps \cup {NoGap}]
           /\ \A r \in taking : NothingShown(s)[r] \in Gaps
  BY DEF Typed, TypeOK, Chosen, NothingShown

LEMMA DiscordTypes ==
    ASSUME Typed, NEW s \in Sessions,
           Interview(s) \/ Choose(s) \/ Mark(s) \/ ViewEnds(s)
    PROVE  Typed'
<1> USE DEF Elsewhere
<1>0. gap \in Rows /\ "in_progress" \in Statuses \ {"none"}
  BY DEF Typed, TypeOK, Rows, Statuses
<1>1. CASE Interview(s)
  <2>1. /\ gap' \in Rows /\ Commit /\ Settle({}) /\ on' \subseteq Sessions
        /\ cur' \in [Sessions -> Gaps \cup {NoGap}] /\ Chosen'
    BY <1>0, <1>1, ShownTypes DEF Interview, Typed, TypeOK, Chosen
  <2> QED
    BY <1>1, <2>1, CommittedTypes DEF Interview, Typed, TypeOK
<1>2. CASE Choose(s)
  BY <1>2 DEF Choose, Typed, TypeOK, Chosen, Eligible
<1>3. CASE Mark(s)
  <2> DEFINE g == cur[s]
             more == IF s \in on THEN {} ELSE {g}
  <2>1. g \in Gaps
    BY <1>3 DEF Mark, Typed, Chosen
  <2>2. gap' \in Rows
    BY <1>0, <1>3, <2>1, StatusWritten DEF Mark
  <2>3. more \in SUBSET Gaps /\ Settle(more) /\ Commit
    BY <1>3, <2>1 DEF Mark
  <2>4. /\ cards' \in [Sessions -> SUBSET Gaps]
        /\ taking' \subseteq Sessions /\ Chosen'
    BY <1>3, <2>1 DEF Mark, Typed, TypeOK, Chosen
  <2> HIDE DEF more
  <2> QED
    BY <1>3, <2>2, <2>3, <2>4, CommittedTypes DEF Mark, Typed, TypeOK
<1>4. CASE ViewEnds(s)
  <2>1. gap' \in Rows
    BY <1>0, <1>4, RowsAtTheEnd, AllGivenBack
  <2>2. /\ on' \subseteq Sessions
        /\ cur' \in [Sessions -> Gaps \cup {NoGap}] /\ Chosen'
        /\ UNCHANGED <<taking, cards, listed, refused, held, req>>
    BY <1>4, ShownTypes
       DEF ViewEnds, GiveBack, TimeoutFails, Close, Typed, TypeOK, Chosen
  <2>3. CASE GiveBack(s)
    BY <2>1, <2>2, <2>3, CommittedTypes DEF GiveBack, Typed, TypeOK
  <2>4. CASE TimeoutFails(s)
    <3>1. lost' \subseteq Gaps /\ disk' = disk
      BY <2>4, SettledLost DEF TimeoutFails, Typed, TypeOK
    <3> QED
      BY <2>1, <2>2, <3>1 DEF Typed, TypeOK, Rows
  <2> QED
    BY <1>4, <2>3, <2>4 DEF ViewEnds
<1> QED
  BY <1>1, <1>2, <1>3, <1>4

\* Follow-ups are made where there was no gap, and the gap answered is reopened.
LEMMA AnsweredShort ==
    ASSUME gap \in Rows, NEW s \in Sessions, NEW g \in Gaps, AnswerShort(s, g)
    PROVE  /\ gap' \in Rows
           /\ \A f \in Gaps :
                \/ /\ ~Exists(f) /\ DepthOf[f] <= MaxDepth
                   /\ gap'[f].status = "open"
                \/ gap'[f] = WithStatus(g, "open")[f]
<1>1. PICK more \in SUBSET FollowUps(g), curation \in {"keep", "defer"} :
         gap' = [f \in Gaps |-> IF f \in more THEN New(curation)
                                ELSE WithStatus(g, "open")[f]]
  BY DEF AnswerShort
<1>2. "open" \in Statuses \ {"none"} /\ curation \in Curations
  BY DEF Statuses, Curations
<1>3. WithStatus(g, "open") \in Rows /\ New(curation) \in Row
  BY <1>2, StatusWritten, NewRows
<1>4. gap' \in Rows
  BY <1>1, <1>3 DEF Rows
<1>5. \A f \in more : ~Exists(f) /\ DepthOf[f] <= MaxDepth
  BY DEF FollowUps, MayFollowUp
<1> QED
  BY <1>1, <1>4, <1>5 DEF New

LEMMA CardTypes ==
    ASSUME Typed, NEW s \in Sessions, NEW g \in Gaps,
           \/ AnswerWell(s, g) \/ AnswerShort(s, g)
           \/ DiscardButton(s, g) \/ Expire(s, g)
    PROVE  Typed'
<1> USE DEF Elsewhere
<1>0. gap \in Rows /\ "resolved" \in Statuses \ {"none"}
  BY DEF Typed, TypeOK, Rows, Statuses
<1>1. CASE AnswerWell(s, g)
  <2>1. gap' \in Rows
    BY <1>0, <1>1, StatusWritten DEF AnswerWell
  <2>2. lost' \subseteq Gaps /\ cards' \in [Sessions -> SUBSET Gaps]
    BY <1>1, SettledLost DEF AnswerWell, Typed, TypeOK
  <2> QED
    BY <1>1, <2>1, <2>2 DEF AnswerWell, Typed, TypeOK, Chosen, Rows
<1>2. CASE AnswerShort(s, g)
  <2>1. gap' \in Rows
    BY <1>0, <1>2, AnsweredShort
  <2>2. /\ Commit /\ Settle({}) /\ on' \subseteq Sessions
        /\ cur' \in [Sessions -> Gaps \cup {NoGap}] /\ Chosen'
        /\ cards' \in [Sessions -> SUBSET Gaps]
    BY <1>2, ShownTypes DEF AnswerShort, Typed, TypeOK, Chosen
  <2> QED
    BY <1>2, <2>1, <2>2, CommittedTypes DEF AnswerShort, Typed, TypeOK
<1>3. CASE DiscardButton(s, g)
  <2>1. gap' \in Rows
    BY <1>0, <1>3, StatusWritten, CurationWritten DEF DiscardButton, Curations
  <2>2. /\ cards' \in [Sessions -> SUBSET Gaps] /\ refused' \subseteq Gaps
        /\ Commit /\ Settle({})
    BY <1>3 DEF DiscardButton, Typed, TypeOK
  <2>3. /\ cur' \in [Sessions -> Gaps \cup {NoGap}] /\ Chosen'
        /\ taking' \subseteq Sessions
    BY <1>3 DEF DiscardButton, Typed, TypeOK, Chosen, Eligible
  <2> QED
    BY <1>3, <2>1, <2>2, <2>3, CommittedTypes DEF DiscardButton, Typed, TypeOK
<1>4. CASE Expire(s, g)
  BY <1>4 DEF Expire, Typed, TypeOK, Chosen
<1> QED
  BY <1>1, <1>2, <1>3, <1>4

\* What a request of the inbox does: it looks for a gap, well or in vain, or
\* takes one.
LEMMA InboxSteps ==
    ASSUME Typed, Inbox
    PROVE  \E h \in Requests, t \in Threads :
             \/ \E works \in BOOLEAN : \/ WebStart(h, t, works)
                                     \/ WebAnswer(h, t, works)
                                     \/ WebSkip(h, t, works)
             \/ Take(h)
<1>1. ASSUME NEW h \in Requests, Take(h) PROVE req[h].thread \in Threads
  BY <1>1 DEF Take, Typed, TypeOK, Req
<1>2. CASE \E h \in Requests : Take(h)
  BY <1>1, <1>2
<1>3. ASSUME NEW works \in BOOLEAN, Pick(works)
      PROVE  \E h \in Requests, t \in Threads :
               \/ WebStart(h, t, works) \/ WebAnswer(h, t, works)
               \/ WebSkip(h, t, works)
  BY <1>3 DEF Pick
<1>4. Pick(TRUE) \/ Pick(FALSE) \/ \E h \in Requests : Take(h)
  BY DEF Inbox, PickSome
<1> QED
  BY <1>2, <1>3, <1>4

LEMMA InboxTypes ==
    ASSUME Typed, NEW h \in Requests, NEW t \in Threads,
           \/ \E works \in BOOLEAN : \/ WebStart(h, t, works)
                                     \/ WebAnswer(h, t, works)
                                     \/ WebSkip(h, t, works)
           \/ Take(h)
    PROVE  Typed'
<1> USE DEF Discordless
<1>0. /\ gap \in Rows /\ held[t] \in Gaps \cup {NoGap}
      /\ {"resolved", "open", "in_progress"} \subseteq Statuses \ {"none"}
  BY DEF Typed, TypeOK, Rows, Statuses
<1>1. ASSUME NEW rows \in Rows, NEW works \in BOOLEAN, PickNextGap(h, t, rows, works) PROVE Typed'
  <2>1. gap' \in Rows
    BY <1>1, StaleGivenBack DEF PickNextGap
  <2>2. PICK next \in Gaps \cup {NoGap} :
          req' = [req EXCEPT ![h] = [thread |-> t, next |-> next]]
    BY <1>1 DEF PickNextGap, Offered, Usable, Eligible, Deferred
  <2>3. req' \in [Requests -> Req]
    BY <2>2 DEF Typed, TypeOK, Req
  <2> QED
    BY <1>1, <2>1, <2>3, CommittedTypes DEF PickNextGap, Typed, TypeOK, Chosen
<1>2. ASSUME NEW works \in BOOLEAN, WebStart(h, t, works) PROVE Typed'
  BY <1>0, <1>1, <1>2 DEF WebStart
<1>3. ASSUME NEW works \in BOOLEAN, WebAnswer(h, t, works) \/ WebSkip(h, t, works) PROVE Typed'
  <2>1. /\ WithStatus(held[t], "resolved") \in Rows
        /\ Skipped(held[t]) \in Rows
    BY <1>0, <1>3, StatusWritten DEF WebAnswer, WebSkip, Skipped
  <2> QED
    BY <1>1, <1>3, <2>1 DEF WebAnswer, WebSkip
<1>4. CASE Take(h)
  <2> DEFINE u == req[h].thread
             g == req[h].next
             more == IF \E o \in Requests \ {h} : req[o].thread = u
                     THEN {g} \cap Gaps ELSE {}
  <2>1. u \in Threads /\ g \in Gaps \cup {NoGap}
    BY <1>4 DEF Take, Typed, TypeOK, Req
  <2>2. gap' \in Rows
    BY <1>0, <1>4, <2>1, StatusWritten DEF Take
  <2>3. more \in SUBSET Gaps /\ Settle(more) /\ Commit
    BY <1>4 DEF Take
  <2>4. /\ held' \in [Threads -> Gaps \cup {NoGap}]
        /\ req' \in [Requests -> Req]
    BY <1>4, <2>1 DEF Take, Typed, TypeOK, Req, Idle
  <2> HIDE DEF more
  <2> QED
    BY <1>4, <2>2, <2>3, <2>4, CommittedTypes DEF Take, Typed, TypeOK, Chosen
<1> QED
  BY <1>2, <1>3, <1>4

\* Everybody else who writes rows touches nothing of an interview.
LEMMA OthersTypes ==
    ASSUME Typed, gap' \in Rows, Others, listed' \subseteq Gaps, refused' \subseteq Gaps
    PROVE  Typed'
  BY CommittedTypes DEF Others, Discordless, Elsewhere, Typed, TypeOK, Chosen

LEMMA PeopleTypes ==
    ASSUME Typed, NEW g \in Gaps, NEW disp \in {"keep", "defer", "discard"},
           Resolve(g) \/ Delete(g) \/ Curate(g, disp) \/ Recurate(g, disp)
    PROVE  Typed'
<1>0. /\ gap \in Rows /\ disp \in Curations
      /\ {"resolved", "open"} \subseteq Statuses \ {"none"}
  BY DEF Typed, TypeOK, Rows, Statuses, Curations
<1>1. gap' \in Rows
  <2>1. CASE Resolve(g)
    BY <1>0, <2>1, StatusWritten DEF Resolve
  <2>2. CASE Delete(g)
    BY <1>0, <2>2, NewRows DEF Delete, Rows
  <2>3. CASE Curate(g, disp)
    BY <1>0, <2>3, StatusWritten, CurationWritten DEF Curate
  <2>4. CASE Recurate(g, disp)
    BY <1>0, <2>4, CurationWritten DEF Recurate
  <2> QED
    BY <2>1, <2>2, <2>3, <2>4
<1>2. listed' \subseteq Gaps /\ refused' \subseteq Gaps /\ Others
  BY DEF Resolve, Delete, Curate, Recurate, Decide, Typed, TypeOK
<1> QED
  BY <1>1, <1>2, OthersTypes

\* A gap restated keeps its curation, and no other changes.
LEMMA RestatedRows ==
    ASSUME gap \in Rows, NEW g \in Gaps, NEW status \in {"open", "in_progress"},
           Restate(g, status)
    PROVE  /\ gap' \in Rows
           /\ \A f \in Gaps :
                /\ gap'[f].curation = gap[f].curation
                /\ (gap'[f].status # "none") <=> Exists(f)
                /\ f # g => gap'[f] = gap[f]
<1>1. status \in Statuses \ {"none"}
  BY DEF Statuses
<1> QED
  BY <1>1, StatusWritten DEF Restate, Exists

LEMMA RestateTypes ==
    ASSUME Typed, NEW g \in Gaps, NEW status \in {"open", "in_progress"},
           Restate(g, status)
    PROVE  Typed'
<1> DEFINE more == IF InProgress(g) THEN {} ELSE {g}
<1>1. gap' \in Rows
  BY RestatedRows DEF Typed, TypeOK, Rows
<1>2. more \in SUBSET Gaps /\ Settle(more)
  BY DEF Restate
<1>3. /\ UNCHANGED <<on, cur, taking, cards, held, req, listed, refused>>
      /\ Commit
  BY DEF Restate, Discordless, Elsewhere
<1> HIDE DEF more
<1> QED
  BY <1>1, <1>2, <1>3, CommittedTypes DEF Typed, TypeOK, Chosen

LEMMA MachineryTypes ==
    ASSUME Typed,
           \/ Scan \/ Hygiene
           \/ \E g \in Gaps : Seed(g) \/ Log(g) \/ AutoClose(g) \/ Age(g)
    PROVE  Typed'
<1> USE DEF Discordless, Elsewhere
<1>0. /\ gap \in Rows /\ "resolved" \in Statuses \ {"none"}
      /\ {"pending", "keep", "defer"} \subseteq Curations
  BY DEF Typed, TypeOK, Rows, Statuses, Curations
<1>1. CASE Scan
  BY <1>1 DEF Scan, Typed, TypeOK, Chosen, Eligible
<1>2. CASE Hygiene
  <2>1. \A f \in Gaps : [gap[f] EXCEPT !.curation = "defer"] \in Row
    BY <1>0 DEF Rows, Row
  <2>2. gap' \in Rows
    BY <1>0, <1>2, <2>1 DEF Hygiene, Rows
  <2> QED
    BY <1>2, <2>2, OthersTypes DEF Hygiene, Typed, TypeOK
<1>3. ASSUME NEW g \in Gaps, Seed(g) \/ Log(g) PROVE Typed'
  <2>1. gap' \in Rows
    BY <1>0, <1>3, NewRows DEF Seed, Log, Rows
  <2> QED
    BY <1>3, <2>1, CommittedTypes, OthersTypes DEF Seed, Log, Typed, TypeOK, Chosen
<1>4. ASSUME NEW g \in Gaps, AutoClose(g) PROVE Typed'
  BY <1>0, <1>4, StatusWritten, OthersTypes DEF AutoClose, Typed, TypeOK
<1>5. ASSUME NEW g \in Gaps, Age(g) PROVE Typed'
  <2>1. gap' \in Rows /\ disk' \in Rows
    <3>1. Exists(g) = TRUE
      BY <1>5 DEF Age, InProgress, Exists
    <3>2. /\ gap' = [gap EXCEPT ![g].aged = TRUE]
          /\ disk' = [disk EXCEPT ![g].aged = TRUE]
      BY <1>5, <3>1 DEF Age
    <3> QED
      BY <3>2 DEF Typed, TypeOK, Rows, Row
  <2> QED
    BY <1>5, <2>1 DEF Age, Typed, TypeOK, Chosen, Rows
<1> QED
  BY <1>1, <1>2, <1>3, <1>4, <1>5

LEMMA TypesStep == Typed /\ [Next]_vars => Typed'
<1> SUFFICES ASSUME Typed, [Next]_vars PROVE Typed'
  OBVIOUS
<1>1. CASE Discord
  BY <1>1, DiscordTypes, CardTypes DEF Discord
<1>2. CASE Inbox
  BY <1>2, InboxSteps, InboxTypes
<1>3. CASE People
  BY <1>3, PeopleTypes, RestateTypes, GapsAssumption DEF People
<1>4. CASE Crash
  BY <1>4, SettledLost DEF Crash, Typed, TypeOK, Chosen, Rows, Req, Idle
<1>5. CASE UNCHANGED vars
  BY <1>5 DEF vars, Typed, TypeOK, Chosen
<1> QED
  BY <1>1, <1>2, <1>3, <1>4, <1>5, MachineryTypes DEF Next, Machinery

LEMMA TypesInit == Init => Typed
  BY NewRows DEF Init, Typed, TypeOK, Chosen, Req, Idle

LEMMA AlwaysTyped == Spec => []Typed
  BY TypesInit, TypesStep, PTL DEF Spec

\* The shape of the rows, the interviews and the requests.
THEOREM GapTypes == Spec => []TypeOK
<1>1. Typed => TypeOK
  BY DEF Typed
<1> QED
  BY <1>1, AlwaysTyped, PTL

-----------------------------------------------------------------------------
(* What is stored: rows as every statement sees them, and as committed.    *)

\* No gap lies deeper than follow-ups go, and what people discarded is there
\* and discarded.
StoredSound(rows, out) ==
    \A g \in Gaps :
        /\ rows[g].status # "none" => DepthOf[g] <= MaxDepth
        /\ g \in out => rows[g].status # "none" /\ rows[g].curation = "discard"

Stored == StoredSound(gap, refused) /\ StoredSound(disk, refused)

\* A commit makes the rows that everybody sees durable.
LEMMA CommitStores ==
    ASSUME StoredSound(gap', refused'), Commit
    PROVE  Stored'
  BY DEF Commit, Stored

\* How a step may change a row that is as it should be: not its existence and
\* its curation, or it is made where there was none, or it is taken out.
Harmless(f) ==
    \/ /\ gap'[f].status # "none" <=> Exists(f)
       /\ gap'[f].curation = gap[f].curation \/ f \notin refused
       /\ f \in refused' => f \in refused
    \/ /\ gap'[f].status # "none" => DepthOf[f] <= MaxDepth
       /\ ~Exists(f) /\ f \notin refused'
    \/ gap'[f].status = "none" /\ f \notin refused'
    \/ Exists(f) /\ gap'[f].status # "none" /\ gap'[f].curation = "discard"
    \/ Exists(f) /\ f \notin refused'

LEMMA HarmlessStores ==
    ASSUME Stored, \A f \in Gaps : Harmless(f), Commit
    PROVE  Stored'
<1>1. StoredSound(gap', refused')
  BY DEF Stored, StoredSound, Harmless, Exists
<1> QED
  BY <1>1, CommitStores

\* A person's decision about a gap.
LEMMA DecisionHarmless ==
    ASSUME NEW rows \in Rows, NEW g \in Gaps, NEW disp \in Curations, Exists(g),
           rows[g].status # "none", \A f \in Gaps \ {g} : rows[f] = gap[f],
           gap' = [rows EXCEPT ![g].curation = disp],
           g \in refused' => disp = "discard",
           \A f \in Gaps \ {g} : f \in refused' => f \in refused
    PROVE  \A f \in Gaps : Harmless(f)
<1>1. /\ gap'[g].status # "none" /\ gap'[g].curation = disp
      /\ \A f \in Gaps \ {g} : gap'[f] = gap[f]
  BY CurationWritten
<1>2. Harmless(g)
  BY <1>1 DEF Harmless
<1>3. \A f \in Gaps \ {g} : Harmless(f)
  BY <1>1 DEF Harmless, Exists
<1> QED
  BY <1>2, <1>3

LEMMA DiscordStores ==
    ASSUME Typed, Stored, NEW s \in Sessions,
           Interview(s) \/ Choose(s) \/ Mark(s) \/ ViewEnds(s)
    PROVE  Stored'
<1>0. gap \in Rows /\ "in_progress" \in Statuses \ {"none"}
  BY DEF Typed, TypeOK, Rows, Statuses
<1>1. CASE Interview(s)
  BY <1>1, HarmlessStores DEF Interview, Harmless, Exists
<1>2. CASE Choose(s)
  BY <1>2 DEF Choose, Stored, StoredSound
<1>3. CASE Mark(s)
  <2>1. cur[s] \in Gaps
    BY <1>3 DEF Mark, Typed, Chosen
  <2>2. \A f \in Gaps : Harmless(f)
    BY <1>0, <1>3, <2>1, StatusWritten DEF Mark, Harmless
  <2> QED
    BY <1>3, <2>2, HarmlessStores DEF Mark
<1>4. CASE ViewEnds(s)
  <2>1. \A f \in Gaps : Harmless(f)
    BY <1>0, <1>4, RowsAtTheEnd, AllGivenBack
       DEF ViewEnds, GiveBack, TimeoutFails, Close, Harmless, Exists
  <2>2. CASE GiveBack(s)
    BY <2>1, <2>2, HarmlessStores DEF GiveBack
  <2>3. CASE TimeoutFails(s)
    BY <2>1, <2>3 DEF TimeoutFails, Close, Stored, StoredSound, Harmless, Exists
  <2> QED
    BY <1>4, <2>2, <2>3 DEF ViewEnds
<1> QED
  BY <1>1, <1>2, <1>3, <1>4

LEMMA CardStores ==
    ASSUME Typed, Stored, NEW s \in Sessions, NEW g \in Gaps,
           \/ AnswerWell(s, g) \/ AnswerShort(s, g)
           \/ DiscardButton(s, g) \/ Expire(s, g)
    PROVE  Stored'
<1>0. /\ gap \in Rows /\ {"open", "resolved"} \subseteq Statuses \ {"none"}
      /\ "discard" \in Curations
  BY DEF Typed, TypeOK, Rows, Statuses, Curations
<1>1. CASE AnswerWell(s, g)
  BY <1>0, <1>1, StatusWritten DEF AnswerWell, Stored, StoredSound, Exists
<1>2. CASE AnswerShort(s, g)
  <2>1. \A f \in Gaps : ~Exists(f) => f \notin refused
    BY DEF Stored, StoredSound, Exists
  <2>2. \A f \in Gaps : Harmless(f)
    <3> SUFFICES ASSUME NEW f \in Gaps PROVE Harmless(f)
      OBVIOUS
    <3>1. /\ WithStatus(g, "open")[f].curation = gap[f].curation
          /\ (WithStatus(g, "open")[f].status # "none") <=> Exists(f)
      BY <1>0, StatusWritten
    <3>2. refused' = refused
      BY <1>2 DEF AnswerShort
    <3>3. CASE gap'[f] = WithStatus(g, "open")[f]
      BY <3>1, <3>2, <3>3 DEF Harmless
    <3>4. CASE ~Exists(f) /\ DepthOf[f] <= MaxDepth
      BY <2>1, <3>2, <3>4 DEF Harmless
    <3> QED
      BY <1>0, <1>2, <3>3, <3>4, AnsweredShort
  <2> QED
    BY <1>2, <2>2, HarmlessStores DEF AnswerShort
<1>3. CASE DiscardButton(s, g)
  <2>1. \A f \in Gaps : Harmless(f)
    <3>1. CASE Exists(g)
      BY <1>0, <1>3, <3>1, StatusWritten, DecisionHarmless DEF DiscardButton
    <3>2. CASE ~Exists(g)
      BY <1>3, <3>2 DEF DiscardButton, Harmless, Exists
    <3> QED
      BY <3>1, <3>2
  <2> QED
    BY <1>3, <2>1, HarmlessStores DEF DiscardButton
<1>4. CASE Expire(s, g)
  BY <1>4 DEF Expire, Stored
<1> QED
  BY <1>1, <1>2, <1>3, <1>4

LEMMA InboxStores ==
    ASSUME Typed, Stored, NEW h \in Requests, NEW t \in Threads,
           \/ \E works \in BOOLEAN : \/ WebStart(h, t, works)
                                     \/ WebAnswer(h, t, works)
                                     \/ WebSkip(h, t, works)
           \/ Take(h)
    PROVE  Stored'
<1>0. /\ gap \in Rows /\ held[t] \in Gaps \cup {NoGap}
      /\ {"resolved", "open", "in_progress"} \subseteq Statuses \ {"none"}
  BY DEF Typed, TypeOK, Rows, Statuses
<1>1. ASSUME NEW rows \in Rows, NEW works \in BOOLEAN, PickNextGap(h, t, rows, works),
             \A f \in Gaps : /\ rows[f].status # "none" <=> Exists(f)
                             /\ rows[f].curation = gap[f].curation
      PROVE  Stored'
  <2>1. \A f \in Gaps : Harmless(f)
    BY <1>1, StaleGivenBack DEF PickNextGap, Harmless
  <2> QED
    BY <1>1, <2>1, HarmlessStores DEF PickNextGap
<1>2. ASSUME NEW works \in BOOLEAN, WebStart(h, t, works) PROVE Stored'
  BY <1>0, <1>1, <1>2 DEF WebStart, Exists
<1>3. ASSUME NEW works \in BOOLEAN, WebAnswer(h, t, works) \/ WebSkip(h, t, works) PROVE Stored'
  BY <1>0, <1>1, <1>3, StatusWritten DEF WebAnswer, WebSkip, Skipped
<1>4. CASE Take(h)
  <2>1. req[h].next \in Gaps \cup {NoGap}
    BY DEF Typed, TypeOK, Req
  <2>2. \A f \in Gaps : Harmless(f)
    BY <1>0, <1>4, <2>1, StatusWritten DEF Take, Harmless, Exists
  <2> QED
    BY <1>4, <2>2, HarmlessStores DEF Take
<1> QED
  BY <1>2, <1>3, <1>4

LEMMA PeopleStore ==
    ASSUME Typed, Stored, NEW g \in Gaps, NEW disp \in {"keep", "defer", "discard"},
           Resolve(g) \/ Delete(g) \/ Curate(g, disp) \/ Recurate(g, disp)
    PROVE  Stored'
<1>0. /\ gap \in Rows /\ disp \in Curations
      /\ {"resolved", "open"} \subseteq Statuses \ {"none"}
  BY DEF Typed, TypeOK, Rows, Statuses, Curations
<1>1. CASE Resolve(g)
  BY <1>0, <1>1, StatusWritten, HarmlessStores DEF Resolve, Others, Harmless
<1>2. CASE Delete(g)
  <2>1. \A f \in Gaps : Harmless(f)
    BY <1>0, <1>2 DEF Delete, Harmless, Absent, Rows, Exists
  <2> QED
    BY <1>2, <2>1, HarmlessStores DEF Delete, Others
<1>3. CASE Curate(g, disp)
  <2> DEFINE status == IF disp = "discard" THEN "resolved" ELSE "open"
  <2>1. /\ Exists(g) /\ gap' = [WithStatus(g, status) EXCEPT ![g].curation = disp]
        /\ g \in refused' => disp = "discard"
        /\ \A f \in Gaps \ {g} : f \in refused' => f \in refused
    BY <1>3 DEF Curate, Decide
  <2>2. status \in Statuses \ {"none"}
    BY <1>0
  <2> HIDE DEF status
  <2>3. /\ WithStatus(g, status) \in Rows /\ WithStatus(g, status)[g].status # "none"
        /\ \A f \in Gaps \ {g} : WithStatus(g, status)[f] = gap[f]
    BY <1>0, <2>1, <2>2, StatusWritten
  <2>4. \A f \in Gaps : Harmless(f)
    BY <1>0, <2>1, <2>3, DecisionHarmless
  <2> QED
    BY <1>3, <2>4, HarmlessStores DEF Curate, Others
<1>4. CASE Recurate(g, disp)
  <2>1. /\ Exists(g) /\ gap' = [gap EXCEPT ![g].curation = disp]
        /\ g \in refused' => disp = "discard"
        /\ \A f \in Gaps \ {g} : f \in refused' => f \in refused
    BY <1>4 DEF Recurate, Decide
  <2>2. \A f \in Gaps : Harmless(f)
    BY <1>0, <2>1, DecisionHarmless DEF Exists
  <2> QED
    BY <1>4, <2>2, HarmlessStores DEF Recurate, Others
<1> QED
  BY <1>1, <1>2, <1>3, <1>4

LEMMA RestateStores ==
    ASSUME Typed, Stored, NEW g \in Gaps, NEW status \in {"open", "in_progress"},
           Restate(g, status)
    PROVE  Stored'
<1>1. gap \in Rows
  BY DEF Typed, TypeOK, Rows
<1>2. refused' = refused /\ Commit
  BY DEF Restate
<1>3. \A f \in Gaps :
        /\ gap'[f].curation = gap[f].curation
        /\ (gap'[f].status # "none") <=> Exists(f)
  BY <1>1, RestatedRows
<1>4. \A f \in Gaps : Harmless(f)
  BY <1>2, <1>3 DEF Harmless
<1> QED
  BY <1>2, <1>4, HarmlessStores

LEMMA MachineryStores ==
    ASSUME Typed, Stored,
           \/ Scan \/ Hygiene
           \/ \E g \in Gaps : Seed(g) \/ Log(g) \/ AutoClose(g) \/ Age(g)
    PROVE  Stored'
<1>0. gap \in Rows /\ "resolved" \in Statuses \ {"none"}
  BY DEF Typed, TypeOK, Rows, Statuses
<1>1. CASE Scan
  BY <1>1 DEF Scan, Stored
\* Only a gap that is kept is deferred, and no discarded gap is.
<1>2. CASE Hygiene
  <2>1. \A f \in Gaps : StillKept(f) => f \notin refused
    BY DEF StillKept, Eligible, Stored, StoredSound
  <2>2. \A f \in Gaps : [gap[f] EXCEPT !.curation = "defer"].status = gap[f].status
    BY <1>0 DEF Rows, Row
  <2>3. \A f \in Gaps : Harmless(f)
    BY <1>2, <2>1, <2>2 DEF Hygiene, Harmless, Exists
  <2> QED
    BY <1>2, <2>3, HarmlessStores DEF Hygiene, Others
<1>3. ASSUME NEW g \in Gaps, Seed(g) \/ Log(g) PROVE Stored'
  <2>1. /\ ~Exists(g) /\ DepthOf[g] = 0 /\ refused' = refused /\ Commit
        /\ \A f \in Gaps \ {g} : gap'[f] = gap[f]
    BY <1>0, <1>3 DEF Seed, Log, Others, Rows
  <2>2. DepthOf[g] <= MaxDepth /\ g \notin refused'
    BY <2>1, GapsAssumption DEF Stored, StoredSound, Exists
  <2>3. Harmless(g)
    BY <2>1, <2>2 DEF Harmless
  <2>4. \A f \in Gaps \ {g} : Harmless(f)
    BY <2>1 DEF Harmless, Exists
  <2> QED
    BY <2>1, <2>3, <2>4, HarmlessStores
<1>4. ASSUME NEW g \in Gaps, AutoClose(g) PROVE Stored'
  <2>1. \A f \in Gaps : Harmless(f)
    BY <1>0, <1>4, StatusWritten DEF AutoClose, Harmless
  <2> QED
    BY <1>4, <2>1, HarmlessStores DEF AutoClose, Others
<1>5. ASSUME NEW g \in Gaps, Age(g) PROVE Stored'
  <2>1. \A f \in Gaps : /\ gap'[f].status = gap[f].status
                        /\ gap'[f].curation = gap[f].curation
                        /\ disk'[f].status = disk[f].status
                        /\ disk'[f].curation = disk[f].curation
    BY <1>5 DEF Age, Typed, TypeOK, Row
  <2> QED
    BY <1>5, <2>1 DEF Age, Stored, StoredSound
<1> QED
  BY <1>1, <1>2, <1>3, <1>4, <1>5

LEMMA StoredStep == Typed /\ Stored /\ [Next]_vars => Stored'
<1> SUFFICES ASSUME Typed, Stored, [Next]_vars PROVE Stored'
  OBVIOUS
<1>1. CASE Discord
  BY <1>1, DiscordStores, CardStores DEF Discord
<1>2. CASE Inbox
  BY <1>2, InboxSteps, InboxStores
<1>3. CASE People
  BY <1>3, PeopleStore, RestateStores, GapsAssumption DEF People
<1>4. CASE Crash
  BY <1>4 DEF Crash, Stored
<1>5. CASE UNCHANGED vars
  BY <1>5 DEF vars, Stored
<1> QED
  BY <1>1, <1>2, <1>3, <1>4, <1>5, MachineryStores DEF Next, Machinery

LEMMA AlwaysStored == Spec => []Stored
<1>1. Init => Stored
  BY DEF Init, Stored, StoredSound, Absent
<1> QED
  BY <1>1, AlwaysTyped, StoredStep, PTL DEF Spec

\* For any number of gaps, interviews and requests: follow-ups of follow-ups
\* end at the configured depth, on either side of a restart
\* (KnowledgeGapTracker.py:1050-1105).
THEOREM FollowUpsEnd == Spec => []DepthBounded
<1>1. Stored => DepthBounded
  BY DEF Stored, StoredSound, DepthBounded, Exists
<1> QED
  BY <1>1, AlwaysStored, PTL

\* No sweep, interview, repeated question or restart brings back among the gaps
\* that may be asked what a person discarded (KnowledgeGapTracker.py:1835-1890).
THEOREM DiscardedForGood == Spec => []DiscardedStaysOut
<1>1. Stored => DiscardedStaysOut
  BY DEF Stored, StoredSound, DiscardedStaysOut, Eligible, Deferred
<1> QED
  BY <1>1, AlwaysStored, PTL
-----------------------------------------------------------------------------
(* Who has a gap in progress.                                              *)

\* A Discord interview gives it back, or an inbox interview asks it and no
\* request is about to replace it, or it is lost.
Watched(g) ==
    \/ on # {}
    \/ \E t \in Threads : held[t] = g /\ \A h \in Requests : req[h].thread # t
    \/ g \in lost

AllWatched == \A g \in Gaps : InProgress(g) => Watched(g)

\* Every gap that anybody was asked has been given back, but for those lost.
AllBack == \A g \in Gaps : InProgress(g) => g \in lost

LEMMA ViewsEndings ==
    ASSUME Typed, NEW s \in Sessions, ViewEnds(s)
    PROVE  AllBack'
<1>1. CASE GiveBack(s)
  BY <1>1, AllGivenBack DEF GiveBack, Typed, TypeOK, Rows, InProgress, AllBack
<1>2. CASE TimeoutFails(s)
  BY <1>2, SettledLost DEF TimeoutFails, Typed, TypeOK, AllBack
<1> QED
  BY <1>1, <1>2 DEF ViewEnds

LEMMA LostWithTheProcess ==
    ASSUME Typed, Crash
    PROVE  AllBack'
  BY SettledLost DEF Crash, Typed, TypeOK, AllBack

\* A step that ends no interview has only to account for what it takes.
LEMMA WatchedOn ==
    ASSUME AllWatched, UNCHANGED <<held, req>>, on \subseteq on',
           \A g \in Gaps : InProgress(g)' =>
                            InProgress(g) \/ on # {} \/ g \in lost',
           \A g \in lost : InProgress(g)' => g \in lost'
    PROVE  AllWatched'
  BY DEF AllWatched, Watched

LEMMA DiscordWatches ==
    ASSUME Typed, AllWatched, NEW s \in Sessions,
           Interview(s) \/ Choose(s) \/ Mark(s) \/ ViewEnds(s)
    PROVE  AllWatched'
<1> USE DEF Elsewhere
<1>0. gap \in Rows /\ "in_progress" \in Statuses \ {"none"} /\ lost \subseteq Gaps
  BY DEF Typed, TypeOK, Rows, Statuses
<1>1. CASE Interview(s)
  <2>1. \A g \in lost : InProgress(g)' => g \in lost'
    BY <1>0, <1>1, SettledLost DEF Interview
  <2> QED
    BY <1>1, <2>1, WatchedOn DEF Interview, InProgress
<1>2. CASE Choose(s)
  BY <1>2, WatchedOn DEF Choose, InProgress
<1>3. CASE Mark(s)
  <2> DEFINE g == cur[s]
             more == IF s \in on THEN {} ELSE {g}
  <2>1. g \in Gaps
    BY <1>3 DEF Mark, Typed, Chosen
  <2>2. more \in SUBSET Gaps /\ Settle(more)
    BY <1>3, <2>1 DEF Mark
  <2>3. \A f \in lost \cup more : InProgress(f)' => f \in lost'
    BY <1>0, <2>2, SettledLost
  <2>4. \A f \in Gaps \ {g} : gap'[f] = gap[f]
    BY <1>0, <1>3, <2>1, StatusWritten DEF Mark
  <2>5. InProgress(cur[s])' => on # {} \/ cur[s] \in lost'
    <3>1. CASE s \in on
      BY <3>1
    <3>2. CASE s \notin on
      BY <1>0, <2>1, <3>2, SettledLost, <1>3 DEF Mark
    <3> QED
      BY <3>1, <3>2
  <2> QED
    BY <1>3, <2>3, <2>4, <2>5, WatchedOn DEF Mark, InProgress
\* The end of an interview in Discord gives back every gap in progress.
<1>4. CASE ViewEnds(s)
  <2>1. AllBack'
    BY <1>4, ViewsEndings
  <2> QED
    BY <2>1 DEF AllBack, AllWatched, Watched
<1> QED
  BY <1>1, <1>2, <1>3, <1>4

LEMMA CardWatches ==
    ASSUME Typed, AllWatched, NEW s \in Sessions, NEW g \in Gaps,
           \/ AnswerWell(s, g) \/ AnswerShort(s, g)
           \/ DiscardButton(s, g) \/ Expire(s, g)
    PROVE  AllWatched'
<1> USE DEF Elsewhere
<1>0. /\ gap \in Rows /\ {"open", "resolved"} \subseteq Statuses \ {"none"}
      /\ "discard" \in Curations /\ lost \subseteq Gaps
  BY DEF Typed, TypeOK, Rows, Statuses, Curations
<1>1. CASE Expire(s, g)
  BY <1>1, WatchedOn DEF Expire, InProgress
<1>2. CASE ~Expire(s, g)
  <2>1. Settle({}) /\ on \subseteq on' /\ UNCHANGED <<held, req>>
    BY <1>2 DEF AnswerWell, AnswerShort, DiscardButton
  <2>2. \A f \in lost : InProgress(f)' => f \in lost'
    BY <1>0, <2>1, SettledLost
  <2>3. \A f \in Gaps : InProgress(f)' => InProgress(f)
    <3>1. \A status \in {"open", "resolved"}, f \in Gaps :
            WithStatus(g, status)[f].status = "in_progress" => InProgress(f)
      BY <1>0, StatusWritten DEF InProgress, Exists
    <3>2. CASE AnswerWell(s, g)
      BY <3>1, <3>2 DEF AnswerWell, InProgress
    <3>3. CASE AnswerShort(s, g)
      BY <1>0, <3>1, <3>3, AnsweredShort DEF InProgress
    <3>4. CASE DiscardButton(s, g)
      <4>1. WithStatus(g, "resolved") \in Rows
        BY <1>0, StatusWritten
      <4>2. CASE ~Exists(g)
        BY <3>4, <4>2 DEF DiscardButton, InProgress
      <4>3. CASE Exists(g)
        <5> DEFINE rows == WithStatus(g, "resolved")
        <5>1. gap' = [rows EXCEPT ![g].curation = "discard"]
          BY <3>4, <4>3 DEF DiscardButton
        <5>2. \A f \in Gaps : rows[f].status = "in_progress" => InProgress(f)
          BY <3>1
        <5> HIDE DEF rows
        <5> QED
          BY <1>0, <4>1, <5>1, <5>2, CurationWritten DEF InProgress, rows
      <4> QED
        BY <4>2, <4>3
    <3> QED
      BY <1>2, <3>2, <3>3, <3>4
  <2> QED
    BY <2>1, <2>2, <2>3, WatchedOn
<1> QED
  BY <1>1, <1>2

\* A request that looks for the next gap has settled the one its interview asked,
\* and one that takes the next gap leaves none behind.
LEMMA InboxWatches ==
    ASSUME Typed, AllWatched, NEW h \in Requests, NEW t \in Threads,
           \/ \E works \in BOOLEAN : \/ WebStart(h, t, works)
                                     \/ WebAnswer(h, t, works)
                                     \/ WebSkip(h, t, works)
           \/ Take(h)
    PROVE  AllWatched'
<1> USE DEF Discordless
<1>0. /\ gap \in Rows /\ held[t] \in Gaps \cup {NoGap} /\ lost \subseteq Gaps
      /\ {"resolved", "open", "in_progress"} \subseteq Statuses \ {"none"}
  BY DEF Typed, TypeOK, Rows, Statuses
<1>1. ASSUME NEW rows \in Rows, NEW works \in BOOLEAN, PickNextGap(h, t, rows, works),
             \A f \in Gaps : rows[f].status = "in_progress" => InProgress(f) /\ held[t] # f
      PROVE  AllWatched'
  <2>1. \A f \in Gaps : InProgress(f)' => InProgress(f) /\ held[t] # f
    BY <1>1, StaleGivenBack DEF PickNextGap, InProgress
  <2>2. \A f \in lost : InProgress(f)' => f \in lost'
    BY <1>0, <1>1, SettledLost DEF PickNextGap
  <2>3. PICK next : req' = [req EXCEPT ![h] = [thread |-> t, next |-> next]]
    BY <1>1 DEF PickNextGap
  <2>4. \A o \in Requests : req'[o].thread = req[o].thread \/ req'[o].thread = t
    BY <2>3 DEF Typed, TypeOK
  <2> QED
    BY <1>1, <2>1, <2>2, <2>4 DEF PickNextGap, AllWatched, Watched
<1>2. ASSUME NEW works \in BOOLEAN, WebStart(h, t, works) PROVE AllWatched'
  BY <1>0, <1>1, <1>2, GapsAssumption DEF WebStart, InProgress
<1>3. ASSUME NEW works \in BOOLEAN, WebAnswer(h, t, works) \/ WebSkip(h, t, works) PROVE AllWatched'
  <2>1. held[t] \in Gaps
    BY <1>0, <1>3 DEF WebAnswer, WebSkip
  <2>2. ASSUME NEW status \in {"resolved", "open"}
        PROVE  /\ WithStatus(held[t], status) \in Rows
               /\ \A f \in Gaps : WithStatus(held[t], status)[f].status = "in_progress"
                                    => InProgress(f) /\ held[t] # f
    BY <1>0, <2>1, StatusWritten DEF InProgress, Exists
  <2> QED
    BY <1>1, <1>3, <2>2 DEF WebAnswer, WebSkip, Skipped
<1>4. CASE Take(h)
  <2> DEFINE u == req[h].thread
             g == req[h].next
             more == IF \E o \in Requests \ {h} : req[o].thread = u
                     THEN {g} \cap Gaps ELSE {}
  <2>1. u \in Threads /\ u # NoThread /\ g \in Gaps \cup {NoGap}
    BY <1>4 DEF Take, Typed, TypeOK, Req
  <2>2. more \in SUBSET Gaps /\ Settle(more)
    BY <1>4 DEF Take
  <2>3. \A f \in lost \cup more : InProgress(f)' => f \in lost'
    BY <1>0, <2>2, SettledLost
  <2>4. \A f \in Gaps : InProgress(f)' => InProgress(f) \/ f = g
    BY <1>0, <1>4, <2>1, StatusWritten DEF Take, InProgress
  <2>5. /\ held'[u] = g /\ \A v \in Threads \ {u} : held'[v] = held[v]
        /\ req'[h].thread = NoThread
        /\ \A o \in Requests \ {h} : req'[o] = req[o]
    BY <1>4, <2>1 DEF Take, Typed, TypeOK, Idle
  <2>6. ASSUME NEW f \in Gaps, InProgress(f)', f = g PROVE Watched(f)'
    <3>1. CASE more = {}
      <4>1. \A o \in Requests : req'[o].thread # u
        BY <2>1, <2>5, <2>6, <3>1
      <4> QED
        BY <2>1, <2>5, <2>6, <4>1 DEF Watched
    <3>2. CASE f \in more
      BY <2>3, <2>6, <3>2 DEF Watched
    <3> QED
      BY <2>6, <3>1, <3>2
  <2>7. ASSUME NEW f \in Gaps, InProgress(f)', f # g PROVE Watched(f)'
    <3>1. Watched(f)
      BY <2>4, <2>7 DEF AllWatched
    <3>2. ASSUME NEW v \in Threads, held[v] = f, \A o \in Requests : req[o].thread # v
          PROVE  Watched(f)'
      BY <2>1, <2>5, <3>2, GapsAssumption DEF Watched
    <3> QED
      BY <1>4, <2>3, <2>7, <3>1, <3>2 DEF Watched, Take
  <2> QED
    BY <2>6, <2>7 DEF AllWatched
<1> QED
  BY <1>2, <1>3, <1>4
LEMMA OthersWatch ==
    ASSUME Typed, AllWatched, Others, \A f \in Gaps : InProgress(f)' => InProgress(f)
    PROVE  AllWatched'
<1>1. \A f \in lost : InProgress(f)' => f \in lost'
  BY SettledLost DEF Others, Typed, TypeOK
<1> QED
  BY <1>1, WatchedOn DEF Others, Discordless, Elsewhere

LEMMA PeopleWatch ==
    ASSUME Typed, AllWatched, NEW g \in Gaps, NEW disp \in {"keep", "defer", "discard"},
           Resolve(g) \/ Delete(g) \/ Curate(g, disp) \/ Recurate(g, disp)
    PROVE  AllWatched'
<1>0. /\ gap \in Rows /\ disp \in Curations
      /\ {"resolved", "open"} \subseteq Statuses \ {"none"}
  BY DEF Typed, TypeOK, Rows, Statuses, Curations
<1>1. \A status \in {"open", "resolved"}, f \in Gaps :
        WithStatus(g, status)[f].status = "in_progress" => InProgress(f)
  BY <1>0, StatusWritten DEF InProgress, Exists
<1>2. \A f \in Gaps : InProgress(f)' => InProgress(f)
  <2>1. CASE Resolve(g)
    BY <1>1, <2>1 DEF Resolve, InProgress
  <2>2. CASE Delete(g)
    BY <1>0, <2>2 DEF Delete, InProgress, Absent, Rows
  <2>3. ASSUME NEW rows \in Rows, gap' = [rows EXCEPT ![g].curation = disp],
               \A f \in Gaps : rows[f].status = "in_progress" => InProgress(f)
        PROVE  \A f \in Gaps : InProgress(f)' => InProgress(f)
    BY <1>0, <2>3, CurationWritten DEF InProgress
  <2>4. CASE Curate(g, disp)
    <3> DEFINE status == IF disp = "discard" THEN "resolved" ELSE "open"
    <3>1. status \in {"open", "resolved"}
      OBVIOUS
    <3>2. gap' = [WithStatus(g, status) EXCEPT ![g].curation = disp]
      BY <2>4 DEF Curate
    <3> HIDE DEF status
    <3>3. WithStatus(g, status) \in Rows
      BY <1>0, <3>1, StatusWritten
    <3> QED
      BY <1>1, <2>3, <3>1, <3>2, <3>3
  <2>5. CASE Recurate(g, disp)
    BY <1>0, <2>3, <2>5 DEF Recurate, InProgress
  <2> QED
    BY <2>1, <2>2, <2>4, <2>5
<1>3. Others
  BY DEF Resolve, Delete, Curate, Recurate
<1> QED
  BY <1>2, <1>3, OthersWatch

\* A person's word that a gap is in progress is accounted for.
LEMMA RestateWatches ==
    ASSUME Typed, AllWatched, NEW g \in Gaps, NEW status \in {"open", "in_progress"},
           Restate(g, status)
    PROVE  AllWatched'
<1> DEFINE more == IF InProgress(g) THEN {} ELSE {g}
<1>1. gap \in Rows /\ lost \subseteq Gaps
  BY DEF Typed, TypeOK, Rows
<1>2. more \in SUBSET Gaps /\ Settle(more)
  BY DEF Restate
<1>3. \A f \in lost \cup more : InProgress(f)' => f \in lost'
  BY <1>1, <1>2, SettledLost
<1>4. \A f \in Gaps : InProgress(f)' => InProgress(f) \/ f \in more
  <2>1. \A f \in Gaps \ {g} : gap'[f] = gap[f]
    BY <1>1, RestatedRows
  <2> QED
    BY <2>1 DEF InProgress
<1>5. UNCHANGED <<held, req>> /\ on \subseteq on'
  BY DEF Restate, Discordless, Elsewhere
<1> HIDE DEF more
<1>6. \A f \in Gaps : InProgress(f)' => InProgress(f) \/ f \in lost'
  BY <1>3, <1>4
<1> QED
  BY <1>3, <1>5, <1>6, WatchedOn

LEMMA MachineryWatches ==
    ASSUME Typed, AllWatched,
           \/ Scan \/ Hygiene
           \/ \E g \in Gaps : Seed(g) \/ Log(g) \/ AutoClose(g) \/ Age(g)
    PROVE  AllWatched'
<1>0. gap \in Rows /\ "resolved" \in Statuses \ {"none"}
  BY DEF Typed, TypeOK, Rows, Statuses
<1>1. CASE Scan
  BY <1>1, WatchedOn DEF Scan, Discordless, Elsewhere, InProgress
<1>2. CASE Hygiene
  <2>1. \A f \in Gaps : [gap[f] EXCEPT !.curation = "defer"].status = gap[f].status
    BY <1>0 DEF Rows, Row
  <2>2. \A f \in Gaps : InProgress(f)' => InProgress(f)
    BY <1>2, <2>1 DEF Hygiene, InProgress
  <2> QED
    BY <1>2, <2>2, OthersWatch DEF Hygiene
<1>3. ASSUME NEW g \in Gaps, Seed(g) \/ Log(g) PROVE AllWatched'
  <2>1. Others
    BY <1>3 DEF Seed, Log, Others
  <2>2. \A f \in Gaps : InProgress(f)' => InProgress(f)
    BY <1>0, <1>3 DEF Seed, Log, InProgress, New, Rows
  <2> QED
    BY <2>1, <2>2, OthersWatch
<1>4. ASSUME NEW g \in Gaps, AutoClose(g) PROVE AllWatched'
  <2>1. \A f \in Gaps : InProgress(f)' => InProgress(f)
    BY <1>0, <1>4, StatusWritten DEF AutoClose, InProgress, Exists
  <2> QED
    BY <1>4, <2>1, OthersWatch DEF AutoClose
<1>5. ASSUME NEW g \in Gaps, Age(g) PROVE AllWatched'
  <2>1. \A f \in Gaps : gap'[f].status = gap[f].status
    BY <1>0, <1>5 DEF Age, Rows, Row
  <2> QED
    BY <1>5, <2>1, WatchedOn DEF Age, Discordless, Elsewhere, InProgress
<1> QED
  BY <1>1, <1>2, <1>3, <1>4, <1>5

LEMMA WatchedStep == Typed /\ AllWatched /\ [Next]_vars => AllWatched'
<1> SUFFICES ASSUME Typed, AllWatched, [Next]_vars PROVE AllWatched'
  OBVIOUS
<1>1. CASE Discord
  BY <1>1, DiscordWatches, CardWatches DEF Discord
<1>2. CASE Inbox
  BY <1>2, InboxSteps, InboxWatches
<1>3. CASE People
  BY <1>3, PeopleWatch, RestateWatches, GapsAssumption DEF People
<1>4. CASE Crash
  <2>1. \A g \in Gaps : InProgress(g)' => g \in lost'
    BY <1>4, SettledLost DEF Crash, Typed, TypeOK
  <2> QED
    BY <2>1 DEF AllWatched, Watched
<1>5. CASE UNCHANGED vars
  BY <1>5, WatchedOn DEF vars, InProgress
<1> QED
  BY <1>1, <1>2, <1>3, <1>4, <1>5, MachineryWatches DEF Next, Machinery

\* For any number of gaps, interviews and requests: a gap in progress is asked
\* by an interview of the inbox or will be given back by one of Discord, but for
\* those that the end of the process, a timeout that fails, a card used too late,
\* two requests of one interview or a person's own word have lost
\* (KnowledgeGapTracker.py:1241-1532, inbox.py:1172-1239, knowledge.py:871-920).
THEOREM SomebodyHasIt == Spec => []NobodysGap
<1>1. Init => AllWatched
  BY DEF Init, AllWatched, InProgress, Absent
<1>2. AllWatched => NobodysGap
  BY DEF AllWatched, Watched, NobodysGap
<1> QED
  BY <1>1, <1>2, AlwaysTyped, WatchedStep, PTL DEF Spec
-----------------------------------------------------------------------------
(* What the end of the views brings about.                                 *)

SomeViewEnds == \E s \in Sessions : ViewEnds(s)

\* Views time out: time and again one ends, or there is none. A view can end
\* whenever there is one, so this is what weak fairness of SomeViewEnds says.
ViewsEnd == []<>(on = {}) \/ []<><<SomeViewEnds>>_vars

\* A view ends by its button or its timeout, or with the process.
LEMMA ViewsLast ==
    ASSUME [Next]_vars, ~SomeViewEnds, ~Crash
    PROVE  on \subseteq on'
<1> USE DEF Discordless
<1>1. CASE Discord
  BY <1>1 DEF Discord, SomeViewEnds, Interview, Choose, Mark, AnswerWell,
              AnswerShort, DiscardButton, Expire
<1>2. CASE Inbox
  BY <1>2 DEF Inbox, PickSome, Pick, WebStart, WebAnswer, WebSkip, PickNextGap, Take
<1>3. CASE People
  BY <1>3 DEF People, Resolve, Delete, Curate, Recurate, Restate, Others
<1>4. CASE Machinery
  BY <1>4 DEF Machinery, Scan, Hygiene, Seed, Log, AutoClose, Others
<1>5. CASE (\E g \in Gaps : Age(g)) \/ UNCHANGED vars
  BY <1>5 DEF Age, vars
<1> QED
  BY <1>1, <1>2, <1>3, <1>4, <1>5 DEF Next

\* For any number of gaps and interviews, if views time out: as long as one is
\* alive, a moment comes at which every gap that anybody was asked has been given
\* back, but for those whose interview went away with the process, in a timeout that
\* failed or before its last question was taken (KnowledgeGapTracker.py:1518-1532).
THEOREM ViewsGiveBack == Spec /\ ViewsEnd => SessionsGiveBack
<1>1. Typed /\ on # {} /\ [Next]_vars => (on # {})' \/ AllBack'
  BY ViewsEndings, LostWithTheProcess, ViewsLast DEF SomeViewEnds
<1>2. Typed /\ <<SomeViewEnds>>_vars => AllBack'
  BY ViewsEndings DEF SomeViewEnds
<1>3. on # {} <=> ~(on = {})
  OBVIOUS
<1>4. SessionsGiveBack <=> (on # {} ~> AllBack)
  BY DEF SessionsGiveBack, AllBack
<1> QED
  BY <1>1, <1>2, <1>3, <1>4, AlwaysTyped, PTL DEF Spec, ViewsEnd

=============================================================================
