-------------------------- MODULE InboxThreadsProofs --------------------------
(***************************************************************************)
(* For any threads, clients, workers and limits: no thread ever gets an    *)
(* answer that is not accounted for. A worker that the recovery job starts *)
(* next to a living one was started because the living one had been silent *)
(* as long as its thread: whoever touches the thread has been heard of at  *)
(* least as recently. And the work packet of a thread tells what was last  *)
(* done with it.                                                           *)
(***************************************************************************)
EXTENDS InboxThreads, FiniteSetTheorems, TLAPS

Working(t) == {w \in Workers : run[w].thread = t}

Starting(t) == {a \in Agents : op[a].thread = t /\ op[a].start # "none"}

Due(t) == IF t \in listed THEN 1 ELSE 0

Load(t) == Cardinality(Working(t)) + Cardinality(Starting(t)) + Due(t)

\* Every answer under way is owed, and so is that of a waiting thread.
Credit ==
    \A t \in Threads :
       /\ Load(t) <= owed[t]
       /\ status[t] = "processing" => owed[t] > 0

\* A worker has been silent at least as long as its thread.
RunsSound ==
    \A w \in Workers :
       run[w] # Free =>
         /\ run[w].thread \in Threads
         /\ run[w].job # "none"
         /\ age[run[w].thread] <= run[w].silent

\* A handler that will start an answer has only just touched the thread.
OpsSound ==
    \A a \in Agents :
       op[a] # Resting =>
         /\ op[a].thread \in Threads
         /\ op[a].to # "none" \/ op[a].start # "none"
         /\ op[a].start # "none" => a \notin Workers /\ age[op[a].thread] = 0

InboxInv == TypeOK /\ RunsSound /\ OpsSound /\ Credit

LEMMA Ranges ==
    /\ StaleAfter \in Nat /\ StaleAfter > 0 /\ 0 \in 0..StaleAfter
    /\ Free \in Run /\ Resting \in Op
    /\ Free.thread = NoThread /\ Free.job = "none" /\ Free.silent = 0
    /\ Resting.thread = NoThread /\ Resting.to = "none" /\ Resting.start = "none"
  BY InboxAssumption DEF Free, Run, Resting, Op, Packets

LEMMA FinitePools ==
    \A t : /\ IsFiniteSet(Working(t)) /\ Cardinality(Working(t)) \in Nat
           /\ IsFiniteSet(Starting(t)) /\ Cardinality(Starting(t)) \in Nat
<1>1. IsFiniteSet(Clients \cup Workers) /\ IsFiniteSet(Agents)
  <2>1. IsFiniteSet(Clients \cup Workers)
    BY InboxAssumption, FS_Union
  <2>2. Agents = (Clients \cup Workers) \cup {Runner}
    BY DEF Agents
  <2> QED
    BY <2>1, <2>2, FS_AddElement
<1>2. \A t : Working(t) \in SUBSET Workers /\ Starting(t) \in SUBSET Agents
  BY DEF Working, Starting
<1> QED
  BY <1>1, <1>2, InboxAssumption, FS_Subset, FS_CardinalityType

\* A worker is done.
LEMMA WorkerFreed ==
    ASSUME TypeOK, NEW w \in Workers, NEW t \in Threads, run[w].thread = t,
           run' = [run EXCEPT ![w] = Free], NEW s \in Threads
    PROVE  Cardinality(Working(s)') =
             IF s = t THEN Cardinality(Working(s)) - 1 ELSE Cardinality(Working(s))
<1>1. run'[w].thread = NoThread /\ \A x \in Workers : x # w => run'[x] = run[x]
  BY Ranges DEF TypeOK
<1>2. CASE s = t
  <2>1. Working(s)' = Working(s) \ {w} /\ w \in Working(s)
    BY <1>1, <1>2, InboxAssumption DEF Working
  <2> QED
    BY <1>2, <2>1, FinitePools, FS_RemoveElement
<1>3. CASE s # t
  BY <1>1, <1>3, InboxAssumption DEF Working
<1> QED
  BY <1>2, <1>3

\* A worker starts.
LEMMA WorkerTaken ==
    ASSUME TypeOK, NEW w \in Workers, NEW t \in Threads, run[w] = Free, NEW r,
           r.thread = t, run' = [run EXCEPT ![w] = r], NEW s \in Threads
    PROVE  Cardinality(Working(s)') =
             IF s = t THEN Cardinality(Working(s)) + 1 ELSE Cardinality(Working(s))
<1>1. run'[w].thread = t /\ \A x \in Workers : x # w => run'[x] = run[x]
  BY DEF TypeOK
<1>2. CASE s = t
  <2>1. Working(s)' = Working(s) \cup {w} /\ w \notin Working(s)
    BY <1>1, <1>2, Ranges, InboxAssumption DEF Working
  <2> QED
    BY <1>2, <2>1, FinitePools, FS_AddElement
<1>3. CASE s # t
  BY <1>1, <1>3, Ranges, InboxAssumption DEF Working
<1> QED
  BY <1>2, <1>3

\* A handler goes on, and may have taken on to start an answer or have done so.
LEMMA HandlerMoved ==
    ASSUME TypeOK, NEW a \in Agents, NEW o, op' = [op EXCEPT ![a] = o],
           NEW s \in Threads
    PROVE  /\ op[a].start = "none" /\ o.start = "none" =>
                Starting(s)' = Starting(s)
           /\ op[a].start = "none" /\ o.start # "none" =>
                Cardinality(Starting(s)') =
                  IF s = o.thread THEN Cardinality(Starting(s)) + 1
                                  ELSE Cardinality(Starting(s))
           /\ op[a].start # "none" /\ o.start = "none" =>
                Cardinality(Starting(s)') =
                  IF s = op[a].thread THEN Cardinality(Starting(s)) - 1
                                      ELSE Cardinality(Starting(s))
           /\ op[a].thread = o.thread /\ op[a].start = o.start =>
                Starting(s)' = Starting(s)
<1>1. op'[a] = o /\ \A b \in Agents : b # a => op'[b] = op[b]
  BY DEF TypeOK
<1>2. ASSUME op[a].start = "none", o.start = "none" PROVE Starting(s)' = Starting(s)
  BY <1>1, <1>2 DEF Starting
<1>3. ASSUME op[a].start = "none", o.start # "none"
      PROVE  Cardinality(Starting(s)') =
               IF s = o.thread THEN Cardinality(Starting(s)) + 1
                               ELSE Cardinality(Starting(s))
  <2>1. CASE s = o.thread
    <3>1. Starting(s)' = Starting(s) \cup {a} /\ a \notin Starting(s)
      BY <1>1, <1>3, <2>1 DEF Starting
    <3> QED
      BY <2>1, <3>1, FinitePools, FS_AddElement
  <2>2. CASE s # o.thread
    BY <1>1, <1>3, <2>2 DEF Starting
  <2> QED
    BY <2>1, <2>2
<1>4. ASSUME op[a].start # "none", o.start = "none"
      PROVE  Cardinality(Starting(s)') =
               IF s = op[a].thread THEN Cardinality(Starting(s)) - 1
                                   ELSE Cardinality(Starting(s))
  <2>1. CASE s = op[a].thread
    <3>1. Starting(s)' = Starting(s) \ {a} /\ a \in Starting(s)
      BY <1>1, <1>4, <2>1 DEF Starting
    <3> QED
      BY <2>1, <3>1, FinitePools, FS_RemoveElement
  <2>2. CASE s # op[a].thread
    BY <1>1, <1>4, <2>2 DEF Starting
  <2> QED
    BY <2>1, <2>2
<1>5. ASSUME op[a].thread = o.thread, op[a].start = o.start
      PROVE  Starting(s)' = Starting(s)
  BY <1>1, <1>5 DEF Starting
<1> QED
  BY <1>2, <1>3, <1>4, <1>5

\* What a handler does first: it touches the thread and knows what is left.
LEMMA ThreadWritten ==
    ASSUME InboxInv, NEW a \in Agents \ Workers, NEW t \in Threads,
           NEW new \in Statuses, NEW to \in Packets \ {"none"},
           NEW start \in {"none", "stream", "retrieval"},
           WriteThread(a, t, new, to, start), UNCHANGED run
    PROVE  /\ status' \in [Threads -> Statuses] /\ age' \in [Threads -> 0..StaleAfter]
           /\ op' \in [Agents -> Op] /\ torn' \subseteq Threads
           /\ RunsSound' /\ OpsSound'
           /\ status'[t] = new /\ \A s \in Threads : s # t => status'[s] = status[s]
           /\ \A s \in Threads :
                /\ Working(s)' = Working(s)
                /\ Cardinality(Starting(s)') =
                     IF s = t /\ start # "none" THEN Cardinality(Starting(s)) + 1
                                                ELSE Cardinality(Starting(s))
<1> DEFINE o == [thread |-> t, to |-> to, start |-> start]
<1>1. o \in Op /\ o.thread = t /\ o.to = to /\ o.start = start
  BY DEF Op
<1>2. op' = [op EXCEPT ![a] = o] /\ op[a].start = "none"
  BY Ranges DEF WriteThread
<1> HIDE DEF o
<1>3. op'[a] = o /\ \A b \in Agents : b # a => op'[b] = op[b]
  BY <1>2 DEF InboxInv, TypeOK
<1>4. age'[t] = 0 /\ \A s \in Threads : s # t => age'[s] = age[s]
  BY DEF WriteThread, InboxInv, TypeOK
<1>5. /\ status' \in [Threads -> Statuses] /\ age' \in [Threads -> 0..StaleAfter]
      /\ op' \in [Agents -> Op] /\ torn' \subseteq Threads
      /\ status'[t] = new /\ \A s \in Threads : s # t => status'[s] = status[s]
  BY <1>1, <1>2, Ranges DEF WriteThread, InboxInv, TypeOK
<1>6. RunsSound'
  BY <1>4 DEF InboxInv, TypeOK, RunsSound, Run
<1>7. OpsSound'
  BY <1>1, <1>3, <1>4 DEF InboxInv, OpsSound
<1>8. \A s \in Threads :
        /\ Working(s)' = Working(s)
        /\ Cardinality(Starting(s)') =
             IF s = t /\ start # "none" THEN Cardinality(Starting(s)) + 1
                                        ELSE Cardinality(Starting(s))
  BY <1>1, <1>2, HandlerMoved DEF Working, InboxInv
<1> QED
  BY <1>5, <1>6, <1>7, <1>8

\* What is under way for a thread is a number.
LEMMA LoadType ==
    ASSUME NEW t PROVE Load(t) \in Nat /\ Due(t) \in {0, 1}
  BY FinitePools DEF Load, Due

\* A question is asked, or asked and answered at once.
LEMMA AskedKeeps ==
    ASSUME InboxInv, NEW c \in Clients, NEW t \in Threads, NEW new \in Statuses,
           NEW to \in Packets \ {"none"},
           NEW start \in {"none", "stream", "retrieval"}, NEW k \in {0, 1},
           new = "processing" => k = 0, start # "none" => k = 0,
           WriteThread(c, t, new, to, start), Ask(t, k), Act(t),
           UNCHANGED <<packet, run, listed, faults>>
    PROVE  InboxInv'
<1>1. c \in Agents \ Workers
  BY InboxAssumption DEF Agents
<1>2. /\ status' \in [Threads -> Statuses] /\ age' \in [Threads -> 0..StaleAfter]
      /\ op' \in [Agents -> Op] /\ torn' \subseteq Threads
      /\ RunsSound' /\ OpsSound'
      /\ status'[t] = new /\ \A s \in Threads : s # t => status'[s] = status[s]
      /\ \A s \in Threads :
           /\ Working(s)' = Working(s)
           /\ Cardinality(Starting(s)') =
                IF s = t /\ start # "none" THEN Cardinality(Starting(s)) + 1
                                           ELSE Cardinality(Starting(s))
  BY <1>1, ThreadWritten
<1>3. /\ owed' \in [Threads -> Int]
      /\ owed'[t] = owed[t] + 1 - k
      /\ \A s \in Threads : s # t => owed'[s] = owed[s]
  BY DEF InboxInv, TypeOK, Ask
<1>4. acts' \in [Threads -> 0..MaxActs] /\ hurried' \subseteq Threads
  BY InboxAssumption DEF InboxInv, TypeOK, Act
<1>5. TypeOK'
  BY <1>2, <1>3, <1>4 DEF InboxInv, TypeOK
<1>6. ASSUME NEW s \in Threads
      PROVE  /\ Load(s)' <= owed'[s]
             /\ status'[s] = "processing" => owed'[s] > 0
  <2>1. Due(s)' = Due(s)
    BY DEF Due
  <2>2. /\ Cardinality(Working(s)) \in Nat /\ Cardinality(Starting(s)) \in Nat
        /\ Due(s) \in Nat
    BY FinitePools, LoadType
  <2>3. /\ owed[s] \in Int
        /\ Load(s) <= owed[s]
        /\ status[s] = "processing" => owed[s] > 0
    BY DEF InboxInv, TypeOK, Credit
  <2>4. CASE s = t
    BY <1>2, <1>3, <2>1, <2>2, <2>3, <2>4 DEF Load
  <2>5. CASE s # t
    BY <1>2, <1>3, <2>1, <2>2, <2>3, <2>5 DEF Load
  <2> QED
    BY <2>4, <2>5
<1> QED
  BY <1>2, <1>5, <1>6 DEF InboxInv, Credit

\* A step that leaves what is owed and whoever works on it alone, and makes no
\* thread wait.
LEMMA CreditKept ==
    ASSUME InboxInv, UNCHANGED <<owed, listed>>,
           \A s \in Threads :
             /\ Cardinality(Working(s)') <= Cardinality(Working(s))
             /\ Cardinality(Working(s)') \in Nat
             /\ Cardinality(Starting(s)') <= Cardinality(Starting(s))
             /\ Cardinality(Starting(s)') \in Nat
             /\ status'[s] = "processing" => status[s] = "processing"
    PROVE  Credit'
<1> SUFFICES ASSUME NEW s \in Threads
             PROVE  /\ Load(s)' <= owed'[s]
                    /\ status'[s] = "processing" => owed'[s] > 0
  BY DEF Credit
<1>1. Due(s)' = Due(s) /\ Due(s) \in Nat
  BY LoadType DEF Due
<1>2. Cardinality(Working(s)) \in Nat /\ Cardinality(Starting(s)) \in Nat
  BY FinitePools
<1>3. /\ owed[s] \in Int
      /\ Load(s) <= owed[s]
      /\ status[s] = "processing" => owed[s] > 0
  BY DEF InboxInv, TypeOK, Credit
<1> QED
  BY <1>1, <1>2, <1>3 DEF Load

LEMMA PatchKeeps ==
    ASSUME InboxInv, NEW c \in Clients, NEW t \in Threads, PatchThread(c, t)
    PROVE  InboxInv'
<1>1. c \in Agents \ Workers
  BY InboxAssumption DEF Agents
<1>2. acts' \in [Threads -> 0..MaxActs] /\ hurried' \subseteq Threads
  BY InboxAssumption DEF InboxInv, TypeOK, Act, PatchThread
<1>3. UNCHANGED <<owed, packet, run, listed, faults>>
  BY DEF PatchThread
<1>4. ASSUME NEW new \in DOMAIN Closing, WriteThread(c, t, new, Closing[new], "none")
      PROVE  InboxInv'
  <2>1. /\ new \in Statuses /\ new # "processing"
        /\ Closing[new] \in Packets \ {"none"}
    BY DEF Closing, Statuses, Packets
  <2>2. /\ status' \in [Threads -> Statuses] /\ age' \in [Threads -> 0..StaleAfter]
        /\ op' \in [Agents -> Op] /\ torn' \subseteq Threads
        /\ RunsSound' /\ OpsSound'
        /\ status'[t] = new /\ \A s \in Threads : s # t => status'[s] = status[s]
        /\ \A s \in Threads : /\ Working(s)' = Working(s)
                              /\ Cardinality(Starting(s)') = Cardinality(Starting(s))
    BY <1>1, <1>3, <1>4, <2>1, ThreadWritten
  <2>3. Credit'
    BY <1>3, <2>1, <2>2, CreditKept, FinitePools
  <2> QED
    BY <1>2, <1>3, <2>2, <2>3 DEF InboxInv, TypeOK
<1>5. ASSUME status' = [status EXCEPT ![t] = "ready"], age' = [age EXCEPT ![t] = 0],
             UNCHANGED <<op, torn>>
      PROVE  InboxInv'
  <2>1. status' \in [Threads -> Statuses] /\ age' \in [Threads -> 0..StaleAfter]
    BY <1>5, Ranges DEF InboxInv, TypeOK, Statuses
  <2>2. age'[t] = 0 /\ \A s \in Threads : s # t => age'[s] = age[s]
    BY <1>5 DEF InboxInv, TypeOK
  <2>3. RunsSound'
    BY <1>3, <2>2 DEF InboxInv, TypeOK, RunsSound, Run
  <2>4. OpsSound'
    BY <1>5, <2>2 DEF InboxInv, OpsSound
  <2>5. Credit'
    <3>1. \A s \in Threads : Working(s)' = Working(s) /\ Starting(s)' = Starting(s)
      BY <1>3, <1>5 DEF Working, Starting
    <3>2. \A s \in Threads : status'[s] = "processing" => status[s] = "processing"
      BY <1>5 DEF InboxInv, TypeOK
    <3> QED
      BY <1>3, <3>1, <3>2, CreditKept, FinitePools
  <2> QED
    BY <1>2, <1>3, <1>5, <2>1, <2>3, <2>4, <2>5 DEF InboxInv, TypeOK
<1> QED
  BY <1>4, <1>5 DEF PatchThread

LEMMA StarKeeps ==
    ASSUME InboxInv, NEW t \in Threads, Star(t)
    PROVE  InboxInv'
<1>1. acts' \in [Threads -> 0..MaxActs] /\ hurried' \subseteq Threads
  BY InboxAssumption DEF InboxInv, TypeOK, Act, Star
<1>2. age' \in [Threads -> 0..StaleAfter] /\ age'[t] = 0 /\ \A s \in Threads : s # t => age'[s] = age[s]
  BY Ranges DEF Star, InboxInv, TypeOK
<1>3. UNCHANGED <<status, owed, packet, run, op, listed, faults, torn>>
  BY DEF Star
<1>4. RunsSound'
  BY <1>2, <1>3 DEF InboxInv, TypeOK, RunsSound, Run
<1>5. OpsSound'
  BY <1>2, <1>3 DEF InboxInv, OpsSound
<1>6. Credit'
  <2>1. \A s \in Threads : Working(s)' = Working(s) /\ Starting(s)' = Starting(s)
    BY <1>3 DEF Working, Starting
  <2> QED
    BY <1>3, <2>1, CreditKept, FinitePools
<1> QED
  BY <1>1, <1>2, <1>3, <1>4, <1>5, <1>6 DEF InboxInv, TypeOK

LEMMA FeedbackKeeps ==
    ASSUME InboxInv, NEW c \in Clients, NEW t \in Threads, Feedback(c, t)
    PROVE  InboxInv'
<1> DEFINE o == [thread |-> t, to |-> "awaiting_human", start |-> "none"]
<1>1. /\ o \in Op /\ o.thread = t /\ o.to = "awaiting_human" /\ o.start = "none"
  BY DEF Op, Packets
<1>2. op' = [op EXCEPT ![c] = o] /\ op[c].start = "none" /\ c \in Agents
  BY Ranges DEF Feedback, Agents
<1> HIDE DEF o
<1>3. op'[c] = o /\ (\A b \in Agents : b # c => op'[b] = op[b]) /\ op' \in [Agents -> Op]
  BY <1>1, <1>2 DEF InboxInv, TypeOK
<1>4. UNCHANGED <<status, age, owed, packet, run, listed, faults, torn>>
  BY DEF Feedback
<1>5. acts' \in [Threads -> 0..MaxActs] /\ hurried' \subseteq Threads
  BY InboxAssumption DEF InboxInv, TypeOK, Act, Feedback
<1>6. TypeOK' /\ RunsSound'
  BY <1>3, <1>4, <1>5 DEF InboxInv, TypeOK, RunsSound
<1>7. OpsSound'
  BY <1>1, <1>3, <1>4 DEF InboxInv, OpsSound
<1>8. Credit'
  <2>1. \A s \in Threads : Working(s)' = Working(s) /\ Starting(s)' = Starting(s)
    BY <1>1, <1>2, <1>4, HandlerMoved DEF Working, InboxInv
  <2> QED
    BY <1>4, <2>1, CreditKept, FinitePools
<1> QED
  BY <1>6, <1>7, <1>8 DEF InboxInv

\* The packet is moved, or is not: the handler goes on either way.
LEMMA PacketKeeps ==
    ASSUME InboxInv, NEW a \in Agents, op[a].thread # NoThread, op[a].to # "none",
           op' = [op EXCEPT ![a] = IF @.start = "none" THEN Resting
                                   ELSE [@ EXCEPT !.to = "none"]],
           packet' \in [Threads -> Packets], torn' \subseteq Threads,
           UNCHANGED <<status, age, owed, run, listed, faults, acts,
                       hurried>>
    PROVE  InboxInv'
<1> DEFINE o == IF op[a].start = "none" THEN Resting
                ELSE [op[a] EXCEPT !.to = "none"]
<1>1. op[a] \in Op
  BY DEF InboxInv, TypeOK
<1>2. /\ o \in Op /\ o.start = op[a].start
      /\ o # Resting => o.thread = op[a].thread /\ o.start # "none"
      /\ o.start # "none" => o.thread = op[a].thread
  BY <1>1, Ranges DEF Op, Packets
<1>3. op' = [op EXCEPT ![a] = o]
  OBVIOUS
<1> HIDE DEF o
<1>4. op'[a] = o /\ (\A b \in Agents : b # a => op'[b] = op[b]) /\ op' \in [Agents -> Op]
  BY <1>2, <1>3 DEF InboxInv, TypeOK
<1>5. op[a] # Resting
  BY Ranges
<1>6. TypeOK' /\ RunsSound'
  BY <1>4 DEF InboxInv, TypeOK, RunsSound
<1>7. OpsSound'
  BY <1>2, <1>4, <1>5 DEF InboxInv, OpsSound
<1>8. Credit'
  <2>1. \A s \in Threads : Starting(s)' = Starting(s)
    <3>1. CASE o.start = "none"
      BY <1>2, <1>3, <3>1, HandlerMoved DEF InboxInv
    <3>2. CASE o.start # "none"
      BY <1>2, <1>3, <3>2, HandlerMoved DEF InboxInv
    <3> QED
      BY <3>1, <3>2
  <2>2. \A s \in Threads : Working(s)' = Working(s)
    BY DEF Working
  <2> QED
    BY <2>1, <2>2, CreditKept, FinitePools
<1> QED
  BY <1>6, <1>7, <1>8 DEF InboxInv

LEMMA MovePacketKeeps ==
    ASSUME InboxInv, NEW a \in Agents, MovePacket(a)
    PROVE  InboxInv'
<1>1. op[a].to \in Packets
  BY DEF InboxInv, TypeOK, Op
<1>2. packet' \in [Threads -> Packets]
  BY <1>1 DEF InboxInv, TypeOK, MovePacket
<1> QED
  BY <1>2, PacketKeeps DEF MovePacket, InboxInv, TypeOK

LEMMA SkipPacketKeeps ==
    ASSUME InboxInv, NEW a \in Agents, SkipPacket(a)
    PROVE  InboxInv'
<1>1. torn' \subseteq Threads
  BY DEF InboxInv, TypeOK, SkipPacket, Op
<1> QED
  BY <1>1, PacketKeeps DEF SkipPacket, InboxInv, TypeOK

LEMMA StartKeeps ==
    ASSUME InboxInv, NEW a \in Agents, NEW w \in Workers, Start(a, w)
    PROVE  InboxInv'
<1> DEFINE t == op[a].thread
           r == [job |-> op[a].start, thread |-> t, silent |-> 0]
<1>1. /\ t \in Threads /\ op[a].start # "none" /\ op[a].start \in {"stream", "retrieval"}
      /\ age[t] = 0 /\ a # w
  BY Ranges DEF InboxInv, TypeOK, OpsSound, Start, Op
<1>2. /\ r \in Run /\ r.thread = t /\ r.job = op[a].start /\ r.silent = 0
  BY <1>1, Ranges DEF Run, Stages
<1>3. run' = [run EXCEPT ![w] = r] /\ op' = [op EXCEPT ![a] = Resting] /\ run[w] = Free
  BY DEF Start
<1> HIDE DEF r
<1>4. /\ run' \in [Workers -> Run] /\ run'[w] = r
      /\ \A x \in Workers : x # w => run'[x] = run[x]
  BY <1>2, <1>3 DEF InboxInv, TypeOK
<1>5. /\ op' \in [Agents -> Op] /\ op'[a] = Resting
      /\ \A b \in Agents : b # a => op'[b] = op[b]
  BY <1>3, Ranges DEF InboxInv, TypeOK
<1>6. UNCHANGED <<status, age, owed, packet, listed, faults, torn, acts,
                  hurried>>
  BY DEF Start
<1>7. TypeOK'
  BY <1>4, <1>5, <1>6 DEF InboxInv, TypeOK
<1>8. RunsSound'
  <2>1. r.job # "none"
    BY <1>1, <1>2
  <2> QED
    BY <1>1, <1>2, <1>4, <1>6, <2>1 DEF InboxInv, RunsSound
<1>9. OpsSound'
  BY <1>5, <1>6 DEF InboxInv, OpsSound
<1>10. Credit'
  <2> SUFFICES ASSUME NEW s \in Threads
               PROVE  /\ Load(s)' <= owed'[s]
                      /\ status'[s] = "processing" => owed'[s] > 0
    BY DEF Credit
  <2>1. Cardinality(Working(s)') =
          IF s = t THEN Cardinality(Working(s)) + 1 ELSE Cardinality(Working(s))
    BY <1>1, <1>2, <1>3, WorkerTaken DEF InboxInv
  <2>2. Cardinality(Starting(s)') =
          IF s = t THEN Cardinality(Starting(s)) - 1 ELSE Cardinality(Starting(s))
    <3> DEFINE q == Resting
    <3>1. q.start = "none" /\ op' = [op EXCEPT ![a] = q]
      BY <1>3, Ranges
    <3> HIDE DEF q
    <3> QED
      BY <1>1, <3>1, HandlerMoved DEF InboxInv
  <2>3. Due(s)' = Due(s) /\ Due(s) \in Nat
    BY <1>6, LoadType DEF Due
  <2>4. Cardinality(Working(s)) \in Nat /\ Cardinality(Starting(s)) \in Nat
    BY FinitePools
  <2>5. /\ owed[s] \in Int
        /\ Load(s) <= owed[s]
        /\ status[s] = "processing" => owed[s] > 0
    BY DEF InboxInv, TypeOK, Credit
  <2>6. Load(s)' = Load(s)
    BY <2>1, <2>2, <2>3, <2>4 DEF Load
  <2> QED
    BY <1>6, <2>5, <2>6
<1> QED
  BY <1>7, <1>8, <1>9, <1>10 DEF InboxInv

LEMMA ProgressKeeps ==
    ASSUME InboxInv, NEW w \in Workers, Progress(w)
    PROVE  InboxInv'
<1> DEFINE t == run[w].thread
<1>1. run[w] \in Run /\ t \in Threads
  BY DEF InboxInv, TypeOK, Progress, Run
<1>2. PICK next \in NextStage(run[w].job), n \in {0, run[w].silent} :
        /\ run' = [run EXCEPT ![w] = [run[w] EXCEPT !.job = next, !.silent = n]]
        /\ \/ n = 0 /\ age' = Beat(t)
           \/ n = run[w].silent /\ age' = age
  <2>1. PICK next \in NextStage(run[w].job) :
          \/ /\ run' = [run EXCEPT ![w].job = next, ![w].silent = 0]
             /\ age' = Beat(t)
          \/ /\ run' = [run EXCEPT ![w].job = next]
             /\ UNCHANGED age
    BY DEF Progress
  <2>2. CASE run' = [run EXCEPT ![w].job = next] /\ age' = age
    <3>1. [run[w] EXCEPT !.job = next, !.silent = run[w].silent]
            = [run[w] EXCEPT !.job = next]
      BY <1>1 DEF Run
    <3> QED
      BY <2>2, <3>1
  <2> QED
    BY <2>1, <2>2
<1> DEFINE r == [run[w] EXCEPT !.job = next, !.silent = n]
<1>3. next \in Stages /\ next # "none"
  BY DEF NextStage, Stages
<1>4. r \in Run /\ r.thread = t /\ r.job = next /\ r.silent = n
  BY <1>1, <1>3, Ranges DEF Run
<1>5. run' = [run EXCEPT ![w] = r]
  BY <1>2
<1> HIDE DEF r
<1>6. /\ run' \in [Workers -> Run] /\ run'[w] = r
      /\ \A x \in Workers : x # w => run'[x] = run[x]
  BY <1>4, <1>5 DEF InboxInv, TypeOK
<1>7. /\ age' \in [Threads -> 0..StaleAfter]
      /\ age'[t] <= n
      /\ \A s \in Threads : age'[s] <= age[s]
  <2>1. age[t] <= run[w].silent
    BY <1>1, Ranges, InboxAssumption DEF InboxInv, RunsSound
  <2>2. CASE n = 0 /\ age' = Beat(t)
    BY <1>1, <2>2, Ranges DEF InboxInv, TypeOK, Beat
  <2>3. CASE n = run[w].silent /\ age' = age
    BY <1>1, <2>1, <2>3 DEF InboxInv, TypeOK
  <2> QED
    BY <1>2, <2>2, <2>3
<1>8. UNCHANGED <<status, owed, packet, op, listed, faults, torn, acts, hurried>>
  BY DEF Progress
<1>9. TypeOK'
  BY <1>6, <1>7, <1>8 DEF InboxInv, TypeOK
<1>10. RunsSound'
  <2>1. ASSUME NEW x \in Workers \ {w}, run'[x] # Free
        PROVE  /\ run'[x].thread \in Threads /\ run'[x].job # "none"
               /\ age'[run'[x].thread] <= run'[x].silent
    <3>1. run'[x] = run[x] /\ run[x] \in Run
      BY <1>6 DEF InboxInv, TypeOK
    <3>2. /\ run[x].thread \in Threads /\ run[x].job # "none"
          /\ age[run[x].thread] <= run[x].silent /\ run[x].silent \in Nat
      BY <2>1, <3>1 DEF InboxInv, RunsSound, Run
    <3>3. age[run[x].thread] \in Nat /\ age'[run[x].thread] \in Nat
      BY <1>7, <3>2 DEF InboxInv, TypeOK
    <3> QED
      BY <1>7, <3>1, <3>2, <3>3
  <2> QED
    BY <1>1, <1>3, <1>4, <1>6, <1>7, <2>1 DEF RunsSound
<1>11. OpsSound'
  <2>1. \A s \in Threads : age[s] = 0 => age'[s] = 0
    BY <1>7 DEF InboxInv, TypeOK
  <2> QED
    BY <1>8, <2>1 DEF InboxInv, OpsSound
<1>12. Credit'
  <2>1. \A s \in Threads : Working(s)' = Working(s)
    BY <1>4, <1>6 DEF Working
  <2>2. \A s \in Threads : Starting(s)' = Starting(s)
    BY <1>8 DEF Starting
  <2> QED
    BY <1>8, <2>1, <2>2, CreditKept, FinitePools
<1> QED
  BY <1>9, <1>10, <1>11, <1>12 DEF InboxInv

\* A thread that somebody works on is owed at least that answer, so that what
\* is stored counts.
LEMMA StoreCounts ==
    ASSUME InboxInv, NEW w \in Workers, NEW t \in Threads, run[w].thread = t,
           NEW k \in Nat, NEW more \in Nat, Store(t, k, more)
    PROVE  /\ owed' = [owed EXCEPT ![t] = owed[t] + more - k]
           /\ owed[t] > 0
<1>1. Cardinality(Working(t)) # 0
  <2>1. w \in Working(t)
    BY DEF Working
  <2> QED
    BY <2>1, FinitePools, FS_EmptySet
<1>2. Load(t) > 0
  BY <1>1, FinitePools, LoadType DEF Load
<1>3. owed[t] \in Int /\ owed[t] > 0
  BY <1>2, LoadType DEF InboxInv, TypeOK, Credit
<1> QED
  BY <1>3 DEF Store

\* What it is owed is one answer less, whether its one answer is stored or the
\* answer and another, that then is owed too.
LEMMA OneLess ==
    ASSUME InboxInv, NEW w \in Workers, NEW t \in Threads, run[w].thread = t,
           Store(t, 1, 0) \/ Store(t, 2, 1)
    PROVE  owed' = [owed EXCEPT ![t] = owed[t] - 1]
<1>1. owed[t] \in Int
  BY DEF InboxInv, TypeOK
<1>2. CASE Store(t, 1, 0)
  <2>1. owed' = [owed EXCEPT ![t] = owed[t] + 0 - 1]
    BY <1>2, StoreCounts
  <2>2. owed[t] + 0 - 1 = owed[t] - 1
    BY <1>1
  <2> QED
    BY <2>1, <2>2
<1>3. CASE Store(t, 2, 1)
  <2>1. owed' = [owed EXCEPT ![t] = owed[t] + 1 - 2]
    BY <1>3, StoreCounts
  <2>2. owed[t] + 1 - 2 = owed[t] - 1
    BY <1>1
  <2> QED
    BY <2>1, <2>2
<1> QED
  BY <1>2, <1>3

\* An answer is stored, by whoever: the worker is done, and what its thread
\* was owed is paid.
LEMMA AnswerKeeps ==
    ASSUME InboxInv, NEW w \in Workers, NEW t \in Threads, run[w].thread = t,
           status' = Answered(t), owed' = [owed EXCEPT ![t] = owed[t] - 1],
           run' = [run EXCEPT ![w] = Free],
           age' = age \/ age' = [age EXCEPT ![t] = 0],
           op' \in [Agents -> Op], OpsSound',
           \A s \in Threads : Starting(s)' = Starting(s),
           UNCHANGED <<packet, listed, faults, torn, acts, hurried>>
    PROVE  InboxInv'
<1>1. /\ status' \in [Threads -> Statuses] /\ status'[t] = "ready"
      /\ \A s \in Threads : s # t => status'[s] = status[s]
  BY DEF InboxInv, TypeOK, Answered, Statuses
<1>2. /\ age' \in [Threads -> 0..StaleAfter]
      /\ \A s \in Threads : age'[s] <= age[s] /\ age'[s] \in Nat
  <2>1. CASE age' = age
    BY <2>1, Ranges DEF InboxInv, TypeOK
  <2>2. CASE age' = [age EXCEPT ![t] = 0]
    BY <2>2, Ranges DEF InboxInv, TypeOK
  <2> QED
    BY <2>1, <2>2
<1>3. /\ run' \in [Workers -> Run] /\ run'[w] = Free
      /\ \A x \in Workers : x # w => run'[x] = run[x]
  BY Ranges DEF InboxInv, TypeOK
<1>4. /\ Cardinality(Working(t)) >= 1
      /\ \A s \in Threads : /\ Cardinality(Working(s)) \in Nat
                            /\ Cardinality(Starting(s)) \in Nat
                            /\ Due(s) \in Nat
  <2>1. w \in Working(t)
    BY DEF Working
  <2>2. Cardinality(Working(t)) # 0
    BY <2>1, FinitePools, FS_EmptySet
  <2> QED
    BY <2>2, FinitePools, LoadType
<1>5. \A s \in Threads : /\ owed[s] \in Int
                         /\ Load(s) <= owed[s]
                         /\ status[s] = "processing" => owed[s] > 0
  BY DEF InboxInv, TypeOK, Credit
<1>6. /\ owed' \in [Threads -> Int] /\ owed'[t] = owed[t] - 1
      /\ \A s \in Threads : s # t => owed'[s] = owed[s]
  BY DEF InboxInv, TypeOK
<1>7. TypeOK'
  BY <1>1, <1>2, <1>3, <1>6 DEF InboxInv, TypeOK
<1>8. RunsSound'
  <2> SUFFICES ASSUME NEW x \in Workers, run'[x] # Free
               PROVE  /\ run'[x].thread \in Threads /\ run'[x].job # "none"
                      /\ age'[run'[x].thread] <= run'[x].silent
    BY DEF RunsSound
  <2>1. run'[x] = run[x] /\ run[x] \in Run
    BY <1>3 DEF InboxInv, TypeOK
  <2>2. /\ run[x].thread \in Threads /\ run[x].job # "none"
        /\ age[run[x].thread] <= run[x].silent
        /\ run[x].silent \in Nat
    BY <2>1 DEF InboxInv, RunsSound, Run
  <2>3. age[run[x].thread] \in Nat
    BY <2>2 DEF InboxInv, TypeOK
  <2> QED
    BY <1>2, <2>1, <2>2, <2>3
<1>9. Credit'
  <2> SUFFICES ASSUME NEW s \in Threads
               PROVE  /\ Load(s)' <= owed'[s]
                      /\ status'[s] = "processing" => owed'[s] > 0
    BY DEF Credit
  <2>1. Cardinality(Working(s)') =
          IF s = t THEN Cardinality(Working(s)) - 1 ELSE Cardinality(Working(s))
    BY WorkerFreed DEF InboxInv
  <2>2. Due(s)' = Due(s)
    BY DEF Due
  <2>3. CASE s = t
    BY <1>1, <1>4, <1>5, <1>6, <2>1, <2>2, <2>3 DEF Load
  <2>4. CASE s # t
    BY <1>1, <1>4, <1>5, <1>6, <2>1, <2>2, <2>4 DEF Load
  <2> QED
    BY <2>3, <2>4
<1> QED
  BY <1>7, <1>8, <1>9 DEF InboxInv

\* A worker that has a job has a thread of its own.
LEMMA WorkersThread ==
    ASSUME InboxInv, NEW w \in Workers, run[w].job # "none"
    PROVE  run[w].thread \in Threads
  BY Ranges DEF InboxInv, RunsSound

LEMMA SaveAnswerKeeps ==
    ASSUME InboxInv, NEW w \in Workers, SaveAnswer(w)
    PROVE  InboxInv'
<1>1. run[w].thread \in Threads
  BY WorkersThread DEF SaveAnswer
<1>2. /\ age' \in [Threads -> 0..StaleAfter]
      /\ \A s \in Threads : age[s] = 0 => age'[s] = 0
  BY Ranges DEF SaveAnswer, InboxInv, TypeOK
<1>3. op' \in [Agents -> Op] /\ OpsSound'
  BY <1>2 DEF SaveAnswer, InboxInv, TypeOK, OpsSound
<1>4. \A s \in Threads : Starting(s)' = Starting(s)
  BY DEF Starting, SaveAnswer
<1>5. owed' = [owed EXCEPT ![run[w].thread] = owed[run[w].thread] - 1]
  <2>1. Store(run[w].thread, 1, 0)
    BY DEF SaveAnswer
  <2>2. owed' = [owed EXCEPT ![run[w].thread] = owed[run[w].thread] + 0 - 1]
    BY <1>1, <2>1, StoreCounts
  <2>3. owed[run[w].thread] + 0 - 1 = owed[run[w].thread] - 1
    BY <1>1 DEF InboxInv, TypeOK
  <2> QED
    BY <2>2, <2>3
<1> QED
  BY <1>1, <1>3, <1>4, <1>5, AnswerKeeps DEF SaveAnswer

LEMMA FailAnswerKeeps ==
    ASSUME InboxInv, NEW w \in Workers, FailAnswer(w)
    PROVE  InboxInv'
<1>1. run[w].thread \in Threads
  BY WorkersThread DEF FailAnswer, Stages
<1> DEFINE t == run[w].thread
           o == [thread |-> t, to |-> "failed", start |-> "none"]
<1>2. o \in Op /\ o.thread = t /\ o.to = "failed" /\ o.start = "none"
  BY <1>1 DEF Op, Packets
<1>3. op' = [op EXCEPT ![w] = o] /\ w \in Agents /\ age' = age
  BY DEF FailAnswer, Agents
<1> HIDE DEF o
<1>4. op'[w] = o /\ (\A b \in Agents : b # w => op'[b] = op[b]) /\ op' \in [Agents -> Op]
  BY <1>2, <1>3 DEF InboxInv, TypeOK
<1>5. OpsSound'
  BY <1>1, <1>2, <1>3, <1>4 DEF InboxInv, OpsSound
<1>6. op[w].start = "none"
  BY <1>3, Ranges DEF InboxInv, OpsSound
<1>7. \A s \in Threads : Starting(s)' = Starting(s)
  BY <1>2, <1>3, <1>6, HandlerMoved DEF InboxInv
<1>8. owed' = [owed EXCEPT ![t] = owed[t] - 1]
  BY <1>1, OneLess DEF FailAnswer
<1> QED
  BY <1>1, <1>3, <1>4, <1>5, <1>7, <1>8, AnswerKeeps DEF FailAnswer

LEMMA SaveResponseKeeps ==
    ASSUME InboxInv, NEW w \in Workers, NEW c \in Clients, SaveResponse(w, c)
    PROVE  InboxInv'
<1>1. run[w].thread \in Threads
  BY WorkersThread DEF SaveResponse
<1> DEFINE t == run[w].thread
           o == [thread |-> t, to |-> "awaiting_human", start |-> "none"]
<1>2. o \in Op /\ o.thread = t /\ o.to = "awaiting_human" /\ o.start = "none"
  BY <1>1 DEF Op, Packets
<1>3. op' = [op EXCEPT ![c] = o] /\ c \in Agents /\ op[c].start = "none"
  BY Ranges DEF SaveResponse, Agents
<1> HIDE DEF o
<1>4. op'[c] = o /\ (\A b \in Agents : b # c => op'[b] = op[b]) /\ op' \in [Agents -> Op]
  BY <1>2, <1>3 DEF InboxInv, TypeOK
<1>5. \A s \in Threads : age[s] = 0 => age'[s] = 0
  BY DEF SaveResponse, InboxInv, TypeOK
<1>6. OpsSound'
  BY <1>1, <1>2, <1>4, <1>5 DEF InboxInv, OpsSound
<1>7. \A s \in Threads : Starting(s)' = Starting(s)
  BY <1>2, <1>3, HandlerMoved DEF InboxInv
<1>8. owed' = [owed EXCEPT ![t] = owed[t] - 1]
  BY <1>1, OneLess DEF SaveResponse
<1> QED
  BY <1>1, <1>4, <1>6, <1>7, <1>8, AnswerKeeps DEF SaveResponse

\* A worker is gone and its thread goes on waiting: what it may have stored is
\* accounted for.
LEMMA GoneKeeps ==
    ASSUME InboxInv, NEW w \in Workers, run[w].job # "none",
           NEW k \in Nat, Store(run[w].thread, k, k),
           run' = [run EXCEPT ![w] = Free], faults' \in 0..MaxFaults,
           UNCHANGED <<status, age, packet, op, listed, torn, acts, hurried>>
    PROVE  InboxInv'
<1>1. run[w].thread \in Threads
  BY WorkersThread
<1>2. /\ run' \in [Workers -> Run] /\ run'[w] = Free
      /\ \A x \in Workers : x # w => run'[x] = run[x]
  BY Ranges DEF InboxInv, TypeOK
<1>3. owed' = owed
  <2>1. owed' = [owed EXCEPT ![run[w].thread] = owed[run[w].thread] + k - k]
    BY <1>1, StoreCounts
  <2>2. owed[run[w].thread] \in Int /\ owed \in [Threads -> Int]
    BY <1>1 DEF InboxInv, TypeOK
  <2>3. owed[run[w].thread] + k - k = owed[run[w].thread]
    BY <2>2
  <2> QED
    BY <1>1, <2>1, <2>2, <2>3
<1>4. TypeOK' /\ RunsSound' /\ OpsSound'
  BY <1>2, <1>3 DEF InboxInv, TypeOK, RunsSound, OpsSound
<1>5. Credit'
  <2>1. ASSUME NEW s \in Threads
        PROVE  /\ Cardinality(Working(s)') <= Cardinality(Working(s))
               /\ Cardinality(Working(s)') \in Nat
    <3>1. Working(s)' \subseteq Working(s)
      BY <1>2, InboxAssumption, Ranges DEF Working
    <3> QED
      BY <3>1, FinitePools, FS_Subset, FS_CardinalityType
  <2>2. \A s \in Threads : Starting(s)' = Starting(s)
    BY DEF Starting
  <2> QED
    BY <1>3, <2>1, <2>2, CreditKept, FinitePools
<1> QED
  BY <1>4, <1>5 DEF InboxInv

LEMMA LeaveStreamKeeps ==
    ASSUME InboxInv, NEW w \in Workers, LeaveStream(w)
    PROVE  InboxInv'
<1>1. PICK k \in {0, 1} : Store(run[w].thread, k, k)
  BY DEF LeaveStream
<1>2. faults' \in 0..MaxFaults
  BY DEF LeaveStream, InboxInv, TypeOK
<1> QED
  BY <1>1, <1>2, GoneKeeps DEF LeaveStream

LEMMA GiveUpKeeps ==
    ASSUME InboxInv, NEW w \in Workers, GiveUp(w)
    PROVE  InboxInv'
<1>1. PICK k \in {0, 1, 2} : Store(run[w].thread, k, k)
  BY DEF GiveUp
<1>2. faults' \in 0..MaxFaults
  BY InboxAssumption DEF GiveUp, InboxInv, TypeOK
<1>3. run[w].job # "none"
  BY DEF GiveUp, Stages
<1> QED
  BY <1>1, <1>2, <1>3, GoneKeeps DEF GiveUp

\* The heart of it: whoever works on a stale thread has been silent as long as
\* the recovery waits, and nobody is about to start.
LEMMA StaleIsSilent ==
    ASSUME InboxInv, NEW t \in Threads, Stale(t)
    PROVE  /\ \A w \in Workers : run[w].thread = t => run[w].silent = StaleAfter
           /\ Starting(t) = {}
<1>1. age[t] = StaleAfter
  BY DEF Stale
<1>2. ASSUME NEW w \in Workers, run[w].thread = t PROVE run[w].silent = StaleAfter
  <2>1. run[w] # Free /\ run[w] \in Run
    BY <1>2, Ranges, InboxAssumption DEF InboxInv, TypeOK
  <2>2. age[t] <= run[w].silent /\ run[w].silent \in 0..StaleAfter
    BY <1>2, <2>1 DEF InboxInv, RunsSound, Run
  <2> QED
    BY <1>1, <2>2, Ranges
<1>3. ASSUME NEW a \in Agents, op[a].thread = t, op[a].start # "none" PROVE FALSE
  BY <1>1, <1>3, Ranges DEF InboxInv, OpsSound
<1> QED
  BY <1>2, <1>3 DEF Starting

\* What is listed is owed: to a thread that nobody works on, because it waits,
\* and otherwise because somebody is overtaken.
LEMMA ScanKeeps ==
    ASSUME InboxInv, Scan
    PROVE  InboxInv'
<1>1. UNCHANGED <<status, age, packet, run, op, faults, torn, acts>>
  BY DEF Scan
<1>2. listed = {} /\ listed' = {t \in Threads : Stale(t)}
  BY DEF Scan
<1>3. /\ owed' \in [Threads -> Int] /\ hurried' \subseteq Threads
      /\ \A s \in Threads :
           owed'[s] = IF s \in Overtaken THEN owed[s] + 1 ELSE owed[s]
  BY DEF Scan, InboxInv, TypeOK, Overtaken
<1>4. TypeOK' /\ RunsSound' /\ OpsSound'
  BY <1>1, <1>2, <1>3 DEF InboxInv, TypeOK, RunsSound, OpsSound
<1>5. Credit'
  <2> SUFFICES ASSUME NEW s \in Threads
               PROVE  /\ Load(s)' <= owed'[s]
                      /\ status'[s] = "processing" => owed'[s] > 0
    BY DEF Credit
  <2>1. Working(s)' = Working(s) /\ Starting(s)' = Starting(s)
    BY <1>1 DEF Working, Starting
  <2>2. /\ owed[s] \in Int
        /\ Load(s) <= owed[s]
        /\ status[s] = "processing" => owed[s] > 0
    BY DEF InboxInv, TypeOK, Credit
  <2>3. Cardinality(Working(s)) \in Nat /\ Cardinality(Starting(s)) \in Nat
    BY FinitePools
  <2>4. CASE Stale(s) /\ Working(s) = {}
    <3>1. Cardinality(Working(s)) = 0 /\ Cardinality(Starting(s)) = 0
      BY <2>4, StaleIsSilent, FS_EmptySet
    <3>2. Load(s)' = 1
      BY <1>2, <2>1, <2>4, <3>1 DEF Load, Due
    <3>3. owed[s] > 0 /\ owed'[s] >= owed[s]
      BY <1>3, <2>2, <2>4 DEF Stale
    <3> QED
      BY <1>1, <2>2, <3>2, <3>3, <1>3
  <2>5. CASE Stale(s) /\ Working(s) # {}
    <3>1. s \in Overtaken
      BY <2>5, StaleIsSilent DEF Overtaken, Working
    <3>2. Load(s)' = Load(s) + 1
      BY <1>2, <2>1, <2>3, <2>5 DEF Load, Due
    <3>3. Load(s) \in Nat
      BY LoadType
    <3> QED
      BY <1>1, <1>3, <2>2, <3>1, <3>2, <3>3
  <2>6. CASE ~Stale(s)
    <3>1. Load(s)' = Load(s)
      BY <1>2, <2>1, <2>6 DEF Load, Due
    <3>2. s \notin Overtaken
      BY <2>6 DEF Overtaken
    <3> QED
      BY <1>1, <1>3, <2>2, <3>1, <3>2
  <2> QED
    BY <2>4, <2>5, <2>6
<1> QED
  BY <1>4, <1>5 DEF InboxInv

\* What the list owed the thread, the new task owes it now.
LEMMA RecoverKeeps ==
    ASSUME InboxInv, NEW t \in Threads, Recover(t)
    PROVE  InboxInv'
<1>1. Runner \in Agents \ Workers
  BY InboxAssumption DEF Agents
<1>2. /\ WriteThread(Runner, t, "processing", "active", "retrieval")
      /\ t \in listed /\ listed' = listed \ {t}
      /\ UNCHANGED <<owed, packet, run, faults, acts, hurried>>
  BY DEF Recover, NewTask
<1>3. "processing" \in Statuses /\ "active" \in Packets \ {"none"}
  BY DEF Statuses, Packets
<1>4. /\ status' \in [Threads -> Statuses] /\ age' \in [Threads -> 0..StaleAfter]
      /\ op' \in [Agents -> Op] /\ torn' \subseteq Threads
      /\ RunsSound' /\ OpsSound'
      /\ status'[t] = "processing" /\ \A s \in Threads : s # t => status'[s] = status[s]
      /\ \A s \in Threads :
           /\ Working(s)' = Working(s)
           /\ Cardinality(Starting(s)') =
                IF s = t THEN Cardinality(Starting(s)) + 1 ELSE Cardinality(Starting(s))
  BY <1>1, <1>2, <1>3, ThreadWritten
<1>5. TypeOK'
  BY <1>2, <1>4 DEF InboxInv, TypeOK
<1>6. Credit'
  <2> SUFFICES ASSUME NEW s \in Threads
               PROVE  /\ Load(s)' <= owed'[s]
                      /\ status'[s] = "processing" => owed'[s] > 0
    BY DEF Credit
  <2>1. /\ owed[s] \in Int
        /\ Load(s) <= owed[s]
        /\ status[s] = "processing" => owed[s] > 0
    BY DEF InboxInv, TypeOK, Credit
  <2>2. Cardinality(Working(s)) \in Nat /\ Cardinality(Starting(s)) \in Nat
    BY FinitePools
  <2>3. CASE s = t
    <3>1. Due(s) = 1 /\ Due(s)' = 0
      BY <1>2, <2>3 DEF Due
    <3>2. Load(s)' = Load(s) /\ Load(s) >= 1
      BY <1>4, <2>2, <2>3, <3>1 DEF Load
    <3>3. Load(s) \in Nat
      BY LoadType
    <3> QED
      BY <1>2, <2>1, <3>2, <3>3
  <2>4. CASE s # t
    <3>1. Due(s)' = Due(s)
      BY <1>2, <2>4 DEF Due
    <3>2. Load(s)' = Load(s)
      BY <1>4, <2>4, <3>1 DEF Load
    <3> QED
      BY <1>2, <1>4, <2>1, <2>4, <3>2
  <2> QED
    BY <2>3, <2>4
<1> QED
  BY <1>4, <1>5, <1>6 DEF InboxInv

LEMMA CrashKeeps ==
    ASSUME InboxInv, Crash
    PROVE  InboxInv'
<1>1. /\ run' = [w \in Workers |-> Free] /\ op' = [a \in Agents |-> Resting]
      /\ listed' = {} /\ UNCHANGED <<status, age, owed, packet, acts, hurried>>
  BY DEF Crash
<1>2. faults' \in 0..MaxFaults /\ torn' \subseteq Threads
  BY InboxAssumption DEF Crash, InboxInv, TypeOK
<1>3. /\ run' \in [Workers -> Run] /\ op' \in [Agents -> Op]
  BY <1>1, Ranges
<1>4. TypeOK'
  BY <1>1, <1>2, <1>3 DEF InboxInv, TypeOK
<1>5. RunsSound' /\ OpsSound'
  BY <1>1 DEF RunsSound, OpsSound
<1>6. Credit'
  <2> SUFFICES ASSUME NEW s \in Threads
               PROVE  /\ Load(s)' <= owed'[s]
                      /\ status'[s] = "processing" => owed'[s] > 0
    BY DEF Credit
  <2>1. Working(s)' = {} /\ Starting(s)' = {}
    BY <1>1, Ranges, InboxAssumption DEF Working, Starting
  <2>2. Load(s)' = 0
    BY <1>1, <2>1, FS_EmptySet DEF Load, Due
  <2>3. /\ owed[s] \in Int
        /\ Load(s) <= owed[s] /\ Load(s) \in Nat
        /\ status[s] = "processing" => owed[s] > 0
    BY LoadType DEF InboxInv, TypeOK, Credit
  <2> QED
    BY <1>1, <2>2, <2>3
<1> QED
  BY <1>4, <1>5, <1>6 DEF InboxInv

LEMMA TickKeeps ==
    ASSUME InboxInv, Tick
    PROVE  InboxInv'
<1>1. /\ \A a \in Agents : op[a] = Resting
      /\ UNCHANGED <<status, owed, packet, op, listed, faults, torn, acts, hurried>>
  BY DEF Tick
<1>2. \A n \in 0..StaleAfter :
         /\ Older(n) \in 0..StaleAfter
         /\ \A m \in 0..StaleAfter : m <= n => m <= Older(n) /\ Older(m) <= Older(n)
  BY Ranges DEF Older
<1>3. \A s \in Threads :
        /\ age[s] \in 0..StaleAfter /\ age'[s] \in 0..StaleAfter
        /\ age'[s] = age[s] \/ age'[s] = Older(age[s])
  BY <1>2 DEF Tick, InboxInv, TypeOK
<1>4. age' \in [Threads -> 0..StaleAfter]
  BY <1>3 DEF Tick
<1>5. ASSUME NEW w \in Workers
      PROVE  /\ run'[w] \in Run
             /\ run[w] = Free => run'[w] = Free
             /\ run[w] # Free => /\ run'[w].thread = run[w].thread
                                 /\ run'[w].job = run[w].job
                                 /\ run'[w].silent = Older(run[w].silent)
  <2>1. run[w] \in Run
    BY DEF InboxInv, TypeOK
  <2>2. CASE run[w] = Free
    BY <2>1, <2>2 DEF Tick
  <2>3. CASE run[w] # Free
    <3> DEFINE n == Older(run[w].silent)
    <3>1. n \in 0..StaleAfter
      BY <1>2, <2>1 DEF Run
    <3>2. run'[w] = [run[w] EXCEPT !.silent = n]
      BY <2>3 DEF Tick
    <3> HIDE DEF n
    <3>3. /\ run'[w] \in Run /\ run'[w].thread = run[w].thread
          /\ run'[w].job = run[w].job /\ run'[w].silent = n
      BY <2>1, <3>1, <3>2 DEF Run
    <3> QED
      BY <2>3, <3>3 DEF n
  <2> QED
    BY <2>2, <2>3
<1>6. run' \in [Workers -> Run]
  BY <1>5 DEF Tick
<1>7. TypeOK'
  BY <1>1, <1>4, <1>6 DEF InboxInv, TypeOK
<1>8. RunsSound'
  <2> SUFFICES ASSUME NEW w \in Workers, run'[w] # Free
               PROVE  /\ run'[w].thread \in Threads /\ run'[w].job # "none"
                      /\ age'[run'[w].thread] <= run'[w].silent
    BY DEF RunsSound
  <2>1. /\ run[w] # Free /\ run[w] \in Run
        /\ run[w].thread \in Threads /\ run[w].job # "none"
        /\ age[run[w].thread] <= run[w].silent
    BY <1>5 DEF InboxInv, TypeOK, RunsSound
  <2>2. run[w].silent \in 0..StaleAfter
    BY <2>1 DEF Run
  <2> QED
    BY <1>2, <1>3, <1>5, <2>1, <2>2
<1>9. OpsSound'
  BY <1>1 DEF OpsSound
<1>10. Credit'
  <2>1. \A s \in Threads : Working(s)' = Working(s)
    BY <1>5 DEF Working
  <2>2. \A s \in Threads : Starting(s)' = Starting(s)
    BY <1>1 DEF Starting
  <2> QED
    BY <1>1, <2>1, <2>2, CreditKept, FinitePools
<1> QED
  BY <1>7, <1>8, <1>9, <1>10 DEF InboxInv

-----------------------------------------------------------------------------

LEMMA InboxInit == Init => InboxInv
<1> SUFFICES ASSUME Init PROVE InboxInv
  OBVIOUS
<1>1. TypeOK
  BY Ranges, InboxAssumption DEF Init, TypeOK, Statuses, Packets
<1>2. RunsSound /\ OpsSound
  BY DEF Init, RunsSound, OpsSound
<1>3. ASSUME NEW s \in Threads PROVE Load(s) = 0
  <2>1. Working(s) = {} /\ Starting(s) = {}
    BY Ranges, InboxAssumption DEF Init, Working, Starting
  <2> QED
    BY <2>1, FS_EmptySet DEF Init, Load, Due
<1>4. Credit
  BY <1>3 DEF Init, Credit
<1> QED
  BY <1>1, <1>2, <1>4 DEF InboxInv

LEMMA ConsoleKeeps ==
    ASSUME InboxInv, Console
    PROVE  InboxInv'
<1> PICK c \in Clients, t \in Threads :
        \/ CreateThread(c, t) \/ Reply(c, t) \/ Reprocess(c, t)
        \/ CreateCompleted(c, t) \/ ReplyCompleted(c, t)
        \/ PatchThread(c, t) \/ Star(t) \/ Feedback(c, t)
  BY DEF Console
<1>1. /\ {"processing", "ready"} \subseteq Statuses
      /\ {"active", "awaiting_human"} \subseteq Packets \ {"none"}
  BY DEF Statuses, Packets
<1>2. CASE CreateThread(c, t)
  BY <1>1, <1>2, AskedKeeps DEF CreateThread
<1>3. CASE Reply(c, t)
  BY <1>1, <1>3, AskedKeeps DEF Reply, FollowUpTo
<1>4. CASE Reprocess(c, t)
  BY <1>1, <1>4, AskedKeeps DEF Reprocess
<1>5. CASE CreateCompleted(c, t)
  BY <1>1, <1>5, AskedKeeps DEF CreateCompleted
<1>6. CASE ReplyCompleted(c, t)
  BY <1>1, <1>6, AskedKeeps DEF ReplyCompleted
<1>7. CASE PatchThread(c, t)
  BY <1>7, PatchKeeps
<1>8. CASE Star(t)
  BY <1>8, StarKeeps
<1>9. CASE Feedback(c, t)
  BY <1>9, FeedbackKeeps
<1> QED
  BY <1>2, <1>3, <1>4, <1>5, <1>6, <1>7, <1>8, <1>9

LEMMA InboxNext == InboxInv /\ [Next]_vars => InboxInv'
<1> SUFFICES ASSUME InboxInv, [Next]_vars PROVE InboxInv'
  OBVIOUS
<1>1. CASE Console
  BY <1>1, ConsoleKeeps
<1>2. ASSUME NEW a \in Agents, HandlerStep(a) PROVE InboxInv'
  BY <1>2, MovePacketKeeps, SkipPacketKeeps, StartKeeps DEF HandlerStep
<1>3. ASSUME NEW w \in Workers, WorkerStep(w) PROVE InboxInv'
  BY <1>3, ProgressKeeps, SaveAnswerKeeps, FailAnswerKeeps, GiveUpKeeps,
     LeaveStreamKeeps, SaveResponseKeeps DEF WorkerStep
<1>4. CASE RunnerStep
  BY <1>4, ScanKeeps, RecoverKeeps DEF RunnerStep
<1>5. CASE Crash
  BY <1>5, CrashKeeps
<1>6. CASE Tick
  BY <1>6, TickKeeps
<1>7. CASE UNCHANGED vars
  <2>1. TypeOK' /\ RunsSound' /\ OpsSound'
    BY <1>7 DEF vars, InboxInv, TypeOK, RunsSound, OpsSound
  <2>2. \A s \in Threads : Working(s)' = Working(s) /\ Starting(s)' = Starting(s)
    BY <1>7 DEF vars, Working, Starting
  <2>3. Credit'
    BY <1>7, <2>2, CreditKept, FinitePools DEF vars
  <2> QED
    BY <2>1, <2>3 DEF InboxInv
<1> QED
  BY <1>1, <1>2, <1>3, <1>4, <1>5, <1>6, <1>7 DEF Next

\* Whatever requests, answers, recoveries and ends of the process come in
\* whatever order, every answer under way is owed and no worker has been heard
\* of later than its thread (inbox.py:410-883).
THEOREM InboxSound == Spec => []InboxInv
<1> QED
  BY InboxInit, InboxNext, PTL DEF Spec

\* Statuses, packets, heartbeats and handlers keep their ranges.
THEOREM InboxTypes == Spec => []TypeOK
<1>1. InboxInv => TypeOK
  BY DEF InboxInv
<1> QED
  BY <1>1, InboxSound, PTL

\* For any number of threads, requests and workers, however long an answer
\* takes and whatever fails: an answer that nobody asked for is accounted for,
\* by a worker silent for as long as the recovery waits that it took for dead,
\* or by a save that broke off (inbox.py:768-883, 1599-1697).
THEOREM AnswersAccountedFor == Spec => []NoStrayAnswer
<1>1. InboxInv => NoStrayAnswer
  <2> SUFFICES ASSUME InboxInv, NEW t \in Threads PROVE owed[t] >= 0
    BY DEF NoStrayAnswer
  <2>1. Load(t) <= owed[t] /\ owed[t] \in Int
    BY DEF InboxInv, TypeOK, Credit
  <2> QED
    BY <2>1, LoadType
<1> QED
  BY <1>1, InboxSound, PTL
-----------------------------------------------------------------------------
(* Packets.                                                                *)

\* What the packet of a thread in status s may say once nobody is about to
\* move it.
Tells(s) ==
    CASE s = "processing"     -> Opening
      [] s \in DOMAIN Closing -> {"none", "awaiting_human", Closing[s]}
      [] OTHER                -> Packets

\* Unless a transition was lost or two handlers met, every move a handler has
\* in hand suits the thread as it now is, and the packet does or such a move is
\* on its way: what PacketTellsThread says of a thread that handlers are at.
PacketFollows(t) ==
    t \notin torn =>
      /\ \A a \in Agents :
           op[a].thread = t => op[a].to \in Tells(status[t]) \cup {"none"}
      /\ \/ packet[t] \in Tells(status[t])
         \/ \E a \in Agents : op[a].thread = t /\ op[a].to # "none"

\* A worker at its answer has no packet in hand.
WorkersRest == \A w \in Workers : run[w] # Free => op[w] = Resting

PacketInv ==
    /\ InboxInv
    /\ WorkersRest
    /\ \A t \in Threads : PacketFollows(t)

LEMMA TellsTypes ==
    /\ Tells("ready") = Packets
    /\ Tells("none") = Packets
    /\ \A s \in Statuses : Tells(s) \subseteq Packets /\ "awaiting_human" \in Tells(s)
    /\ Tells("processing") = Opening
    /\ "active" \in Tells("processing") /\ "none" \notin Tells("processing")
    /\ \A s \in DOMAIN Closing : Closing[s] \in Tells(s)
    /\ \A s \in Statuses \ {"processing"} : "none" \in Tells(s)
  BY DEF Tells, Closing, Opening, Packets, Statuses

\* A thread that is unread or does not exist says nothing of its packet.
LEMMA UnreadFollows ==
    ASSUME TypeOK', NEW s \in Threads, status'[s] \in {"none", "ready"}
    PROVE  PacketFollows(s)'
<1>1. Tells(status'[s]) = Packets
  BY TellsTypes
<1>2. packet'[s] \in Packets /\ \A a \in Agents : op'[a].to \in Packets
  BY DEF TypeOK, Op
<1> QED
  BY <1>1, <1>2 DEF PacketFollows, Tells

\* A step that leaves a thread and its packet alone and in which one handler
\* takes on no move but a fitting one, and lays none down.
LEMMA OthersFollow ==
    ASSUME TypeOK, NEW a \in Agents, NEW o, op' = [op EXCEPT ![a] = o],
           NEW s \in Threads, PacketFollows(s), s \notin torn' => s \notin torn,
           status'[s] = status[s], packet'[s] = packet[s],
           op[a].thread # s \/ op[a].to = "none",
           o.thread = s => o.to \in Tells(status[s]) \cup {"none"}
    PROVE  PacketFollows(s)'
<1>1. op'[a] = o /\ \A b \in Agents : b # a => op'[b] = op[b]
  BY DEF TypeOK
<1> SUFFICES ASSUME s \notin torn'
             PROVE  /\ \A b \in Agents :
                         op'[b].thread = s => op'[b].to \in Tells(status'[s]) \cup {"none"}
                    /\ \/ packet'[s] \in Tells(status'[s])
                       \/ \E b \in Agents : op'[b].thread = s /\ op'[b].to # "none"
  BY DEF PacketFollows, Tells
<1>2. /\ \A b \in Agents :
           op[b].thread = s => op[b].to \in Tells(status[s]) \cup {"none"}
      /\ \/ packet[s] \in Tells(status[s])
         \/ \E b \in Agents : op[b].thread = s /\ op[b].to # "none"
  BY DEF PacketFollows
<1>3. \A b \in Agents :
        op'[b].thread = s => op'[b].to \in Tells(status[s]) \cup {"none"}
  BY <1>1, <1>2
<1>4. \/ packet[s] \in Tells(status[s])
      \/ \E b \in Agents : op'[b].thread = s /\ op'[b].to # "none"
  BY <1>1, <1>2
<1> QED
  BY <1>3, <1>4

\* A step that leaves the handlers, and the thread and its packet, alone.
LEMMA NothingMoved ==
    ASSUME UNCHANGED op, NEW s \in Threads, PacketFollows(s), UNCHANGED torn,
           status'[s] = status[s], packet'[s] = packet[s]
    PROVE  PacketFollows(s)'
  BY DEF PacketFollows, Tells

\* Whoever writes a thread takes on the move that suits what it wrote.
LEMMA WrittenFollows ==
    ASSUME TypeOK, TypeOK', NEW a \in Agents, NEW t \in Threads, NEW new \in Statuses,
           NEW to \in Tells(new) \ {"none"}, NEW start,
           WriteThread(a, t, new, to, start), UNCHANGED packet,
           NEW s \in Threads, PacketFollows(s)
    PROVE  PacketFollows(s)'
<1> DEFINE o == [thread |-> t, to |-> to, start |-> start]
<1>1. o.thread = t /\ o.to = to
  OBVIOUS
<1>2. op' = [op EXCEPT ![a] = o] /\ op[a].to = "none"
  BY Ranges DEF WriteThread
<1> HIDE DEF o
<1>3. CASE s = t
  <2> SUFFICES ASSUME t \notin torn' PROVE PacketFollows(t)'
    BY <1>3 DEF PacketFollows
  <2>1. \A b \in Agents : op[b].thread # t
    BY DEF WriteThread, Untouched
  <2>2. op'[a] = o /\ \A b \in Agents : b # a => op'[b] = op[b]
    BY <1>2 DEF TypeOK
  <2>3. status'[t] = new
    BY DEF WriteThread, TypeOK
  <2>4. \A b \in Agents :
          op'[b].thread = t => op'[b].to \in Tells(new)
    BY <1>1, <2>1, <2>2
  <2>5. op'[a].thread = t /\ op'[a].to # "none"
    BY <1>1, <2>2
  <2> QED
    BY <2>3, <2>4, <2>5 DEF PacketFollows, Tells
<1>4. CASE s # t
  <2>1. status'[s] = status[s] /\ packet'[s] = packet[s]
    BY <1>4 DEF WriteThread, TypeOK
  <2>2. s \notin torn' => s \notin torn
    BY <1>4 DEF WriteThread
  <2> QED
    BY <1>1, <1>2, <1>4, <2>1, <2>2, OthersFollow
<1> QED
  BY <1>3, <1>4

LEMMA ConsoleFollows ==
    ASSUME TypeOK, TypeOK', Console, NEW s \in Threads, PacketFollows(s)
    PROVE  PacketFollows(s)'
<1> PICK c \in Clients, t \in Threads :
        \/ CreateThread(c, t) \/ Reply(c, t) \/ Reprocess(c, t)
        \/ CreateCompleted(c, t) \/ ReplyCompleted(c, t)
        \/ PatchThread(c, t) \/ Star(t) \/ Feedback(c, t)
  BY DEF Console
<1>1. /\ "processing" \in Statuses /\ "active" \in Tells("processing") \ {"none"}
      /\ "ready" \in Statuses /\ "awaiting_human" \in Tells("ready") \ {"none"}
      /\ \A new \in DOMAIN Closing : new \in Statuses
                                  /\ Closing[new] \in Tells(new) \ {"none"}
  BY TellsTypes DEF Statuses, Closing, Packets
<1>2. c \in Agents
  BY DEF Agents
<1>3. CASE CreateThread(c, t)
  <2>1. PICK start \in {"stream", "retrieval"} :
          WriteThread(c, t, "processing", "active", start)
    BY <1>3 DEF CreateThread
  <2> QED
    BY <1>1, <1>2, <1>3, <2>1, WrittenFollows DEF CreateThread
<1>4. CASE Reply(c, t)
  <2>1. PICK start \in {"stream", "retrieval"} :
          WriteThread(c, t, "processing", "active", start)
    BY <1>4 DEF Reply, FollowUpTo
  <2> QED
    BY <1>1, <1>2, <1>4, <2>1, WrittenFollows DEF Reply
<1>5. CASE Reprocess(c, t)
  BY <1>1, <1>2, <1>5, WrittenFollows DEF Reprocess
<1>6. CASE CreateCompleted(c, t)
  BY <1>1, <1>2, <1>6, WrittenFollows DEF CreateCompleted
<1>7. CASE ReplyCompleted(c, t)
  BY <1>1, <1>2, <1>7, WrittenFollows DEF ReplyCompleted
<1>8. CASE PatchThread(c, t)
  <2>1. ASSUME NEW new \in DOMAIN Closing,
               WriteThread(c, t, new, Closing[new], "none")
        PROVE  PacketFollows(s)'
    BY <1>1, <1>2, <1>8, <2>1, WrittenFollows DEF PatchThread
  <2>2. ASSUME status' = [status EXCEPT ![t] = "ready"], UNCHANGED <<op, torn>>
        PROVE  PacketFollows(s)'
    <3>1. CASE s = t
      <4>1. status'[s] = "ready"
        BY <2>2, <3>1 DEF TypeOK
      <4> QED
        BY <4>1, UnreadFollows
    <3>2. CASE s # t
      <4>1. status'[s] = status[s] /\ packet'[s] = packet[s]
        BY <1>8, <2>2, <3>2 DEF PatchThread
      <4> QED
        BY <2>2, <4>1, NothingMoved
    <3> QED
      BY <3>1, <3>2
  <2> QED
    BY <1>8, <2>1, <2>2 DEF PatchThread
<1>9. CASE Star(t)
  BY <1>9, NothingMoved DEF Star
<1>10. CASE Feedback(c, t)
  <2> DEFINE o == [thread |-> t, to |-> "awaiting_human", start |-> "none"]
  <2>1. op' = [op EXCEPT ![c] = o] /\ op[c].to = "none"
    BY <1>10, Ranges DEF Feedback
  <2>2. o.to \in Tells(status[s])
    BY TellsTypes DEF TypeOK
  <2> HIDE DEF o
  <2> QED
    BY <1>2, <1>10, <2>1, <2>2, OthersFollow DEF Feedback
<1> QED
  BY <1>3, <1>4, <1>5, <1>6, <1>7, <1>8, <1>9, <1>10

LEMMA HandlerFollows ==
    ASSUME PacketInv, NEW a \in Agents, HandlerStep(a), NEW s \in Threads
    PROVE  PacketFollows(s)'
<1> DEFINE o == IF op[a].start = "none" THEN Resting
                ELSE [op[a] EXCEPT !.to = "none"]
<1>1. /\ op[a].thread # NoThread /\ op[a].thread \in Threads
      /\ op[a] \in Op /\ op[a].to \in Packets
  BY InboxAssumption
     DEF HandlerStep, MovePacket, SkipPacket, Start, PacketInv, InboxInv, TypeOK, Op
<1>2. o.to = "none" /\ TypeOK /\ PacketFollows(s)
  BY <1>1, Ranges DEF Op, PacketInv, InboxInv
<1> HIDE DEF o
<1>3. CASE MovePacket(a)
  <2>1. op' = [op EXCEPT ![a] = o]
    BY <1>3 DEF MovePacket, o
  <2>2. CASE op[a].thread = s
    <3> SUFFICES ASSUME s \notin torn' PROVE PacketFollows(s)'
      BY DEF PacketFollows
    <3>1. op[a].to \in Tells(status[s]) \ {"none"}
      BY <1>2, <1>3, <2>2 DEF MovePacket, PacketFollows
    <3>2. packet'[s] = IF packet[s] = "none" /\ op[a].to \notin Opening
                         THEN packet[s] ELSE op[a].to
      BY <1>2, <1>3, <2>2 DEF MovePacket, TypeOK
    <3>3. packet'[s] \in Tells(status[s])
      <4>1. CASE packet'[s] = op[a].to
        BY <3>1, <4>1
      <4>2. CASE packet[s] = "none" /\ packet'[s] = "none" /\ op[a].to \notin Opening
        <5>1. status[s] # "processing"
          BY <3>1, <4>2, TellsTypes
        <5> QED
          BY <1>2, <4>2, <5>1, TellsTypes DEF TypeOK
      <4> QED
        BY <3>2, <4>1, <4>2
    <3>4. \A b \in Agents :
            op'[b].thread = s => op'[b].to \in Tells(status[s]) \cup {"none"}
      <4>1. op'[a] = o /\ \A b \in Agents : b # a => op'[b] = op[b]
        BY <1>2, <2>1 DEF TypeOK
      <4> QED
        BY <1>2, <1>3, <4>1 DEF MovePacket, PacketFollows
    <3> QED
      BY <1>3, <3>3, <3>4 DEF MovePacket, PacketFollows, Tells
  <2>3. CASE op[a].thread # s
    <3>1. packet'[s] = packet[s] /\ status'[s] = status[s] /\ torn' = torn
      BY <1>2, <1>3, <2>3 DEF MovePacket, TypeOK
    <3> QED
      BY <1>2, <2>1, <2>3, <3>1, OthersFollow
  <2> QED
    BY <2>2, <2>3
<1>4. CASE SkipPacket(a)
  <2>1. op' = [op EXCEPT ![a] = o]
    BY <1>4 DEF SkipPacket, o
  <2>2. CASE op[a].thread = s
    BY <1>4, <2>2 DEF SkipPacket, PacketFollows
  <2>3. CASE op[a].thread # s
    BY <1>2, <1>4, <2>1, <2>3, OthersFollow DEF SkipPacket
  <2> QED
    BY <2>2, <2>3
<1>5. ASSUME NEW w \in Workers, Start(a, w) PROVE PacketFollows(s)'
  <2>1. op' = [op EXCEPT ![a] = Resting] /\ op[a].to = "none"
    BY <1>5 DEF Start
  <2> QED
    BY <1>2, <1>5, <2>1, Ranges, OthersFollow DEF Start
<1> QED
  BY <1>3, <1>4, <1>5 DEF HandlerStep

LEMMA WorkerFollows ==
    ASSUME PacketInv, TypeOK', NEW w \in Workers, WorkerStep(w), NEW s \in Threads
    PROVE  PacketFollows(s)'
<1>1. TypeOK /\ PacketFollows(s) /\ w \in Agents
  BY DEF PacketInv, InboxInv, Agents
<1>2. CASE Progress(w) \/ LeaveStream(w) \/ GiveUp(w)
  BY <1>1, <1>2, NothingMoved DEF Progress, LeaveStream, GiveUp
<1>3. CASE SaveAnswer(w)
  <2>1. CASE s = run[w].thread
    <3>1. status'[s] = "ready"
      BY <1>1, <1>3, <2>1 DEF SaveAnswer, Answered, TypeOK
    <3> QED
      BY <3>1, UnreadFollows
  <2>2. CASE s # run[w].thread
    <3>1. status'[s] = status[s]
      BY <1>1, <1>3, <2>2 DEF SaveAnswer, Answered, TypeOK
    <3> QED
      BY <1>1, <1>3, <3>1, NothingMoved DEF SaveAnswer
  <2> QED
    BY <2>1, <2>2
<1>4. CASE FailAnswer(w)
  <2> DEFINE o == [thread |-> run[w].thread, to |-> "failed", start |-> "none"]
  <2>1. op' = [op EXCEPT ![w] = o] /\ o.thread = run[w].thread
    BY <1>4 DEF FailAnswer
  <2> HIDE DEF o
  <2>2. op[w].to = "none"
    <3>1. run[w] # Free
      BY <1>4, Ranges DEF FailAnswer, Stages
    <3> QED
      BY <3>1, Ranges DEF PacketInv, WorkersRest
  <2>3. CASE s = run[w].thread
    <3>1. status'[s] = "ready"
      BY <1>1, <1>4, <2>3 DEF FailAnswer, Answered, TypeOK
    <3> QED
      BY <3>1, UnreadFollows
  <2>4. CASE s # run[w].thread
    <3>1. status'[s] = status[s]
      BY <1>1, <1>4, <2>4 DEF FailAnswer, Answered, TypeOK
    <3> QED
      BY <1>1, <1>4, <2>1, <2>2, <2>4, <3>1, OthersFollow DEF FailAnswer
  <2> QED
    BY <2>3, <2>4
<1>5. ASSUME NEW c \in Clients, SaveResponse(w, c) PROVE PacketFollows(s)'
  <2> DEFINE o == [thread |-> run[w].thread, to |-> "awaiting_human",
                   start |-> "none"]
  <2>1. /\ op' = [op EXCEPT ![c] = o] /\ o.thread = run[w].thread
        /\ op[c].to = "none" /\ c \in Agents
    BY <1>5, Ranges DEF SaveResponse, Agents
  <2> HIDE DEF o
  <2>3. CASE s = run[w].thread
    <3>1. status'[s] = "ready"
      BY <1>1, <1>5, <2>3 DEF SaveResponse, Answered, TypeOK
    <3> QED
      BY <3>1, UnreadFollows
  <2>4. CASE s # run[w].thread
    <3>1. status'[s] = status[s]
      BY <1>1, <1>5, <2>4 DEF SaveResponse, Answered, TypeOK
    <3> QED
      BY <1>1, <1>5, <2>1, <2>4, <3>1, OthersFollow DEF SaveResponse
  <2> QED
    BY <2>3, <2>4
<1> QED
  BY <1>2, <1>3, <1>4, <1>5 DEF WorkerStep

\* The end of the process loses the moves in hand, and only those.
LEMMA CrashFollows ==
    ASSUME Crash, NEW s \in Threads, PacketFollows(s)
    PROVE  PacketFollows(s)'
<1> SUFFICES ASSUME s \notin torn' PROVE PacketFollows(s)'
  BY DEF PacketFollows
<1>1. s \notin torn /\ \A a \in Agents : op[a].thread # s
  BY DEF Crash, Untouched
<1>2. packet[s] \in Tells(status[s])
  BY <1>1 DEF PacketFollows
<1>3. \A a \in Agents : op'[a].thread # s
  BY Ranges, InboxAssumption DEF Crash
<1> QED
  BY <1>2, <1>3 DEF Crash, PacketFollows, Tells

\* Only a free worker whose packet is moved takes on an answer.
LEMMA WorkersRestStep ==
    ASSUME InboxInv, WorkersRest, [Next]_vars
    PROVE  WorkersRest'
<1> SUFFICES ASSUME NEW w \in Workers, run'[w] # Free PROVE op'[w] = Resting
  BY DEF WorkersRest
<1>0. /\ w \in Agents /\ w \notin Clients /\ w # Runner
      /\ \A c \in Clients : c \in Agents
      /\ run[w] # Free => op[w] = Resting
      /\ op \in [Agents -> Op] /\ run \in [Workers -> Run]
  BY InboxAssumption DEF Agents, WorkersRest, InboxInv, TypeOK
<1>1. CASE Console
  <2> PICK c \in Clients, t \in Threads :
        \/ CreateThread(c, t) \/ Reply(c, t) \/ Reprocess(c, t)
        \/ CreateCompleted(c, t) \/ ReplyCompleted(c, t)
        \/ PatchThread(c, t) \/ Star(t) \/ Feedback(c, t)
    BY <1>1 DEF Console
  <2>1. run' = run /\ op'[w] = op[w]
    BY <1>0 DEF CreateThread, Reply, Reprocess, CreateCompleted, ReplyCompleted,
                PatchThread, Star, Feedback, WriteThread
  <2> QED
    BY <1>0, <2>1
<1>2. ASSUME NEW a \in Agents, MovePacket(a) \/ SkipPacket(a)
      PROVE  op'[w] = Resting
  <2>1. run' = run /\ op[a] # Resting /\ \A b \in Agents : b # a => op'[b] = op[b]
    BY <1>0, <1>2, Ranges DEF MovePacket, SkipPacket
  <2> QED
    BY <1>0, <2>1
<1>3. ASSUME NEW a \in Agents, NEW x \in Workers, Start(a, x)
      PROVE  op'[w] = Resting
  <2>1. \/ w = x /\ op[w] = Resting
        \/ run'[w] = run[w]
    BY <1>0, <1>3 DEF Start
  <2>2. op' = [op EXCEPT ![a] = Resting]
    BY <1>3 DEF Start
  <2> QED
    BY <1>0, <2>1, <2>2
<1>4. ASSUME NEW x \in Workers, WorkerStep(x) PROVE op'[w] = Resting
  <2>1. CASE Progress(x)
    <3>1. run[x] # Free /\ op' = op /\ (w # x => run'[w] = run[w])
      BY <1>0, <1>4, <2>1, Ranges DEF Progress
    <3> QED
      BY <1>0, <3>1
  <2>2. CASE SaveAnswer(x) \/ LeaveStream(x) \/ GiveUp(x)
    BY <1>0, <1>4, <2>2 DEF SaveAnswer, LeaveStream, GiveUp
  <2>3. CASE FailAnswer(x)
    <3>1. w # x /\ run'[w] = run[w] /\ op'[w] = op[w]
      BY <1>0, <1>4, <2>3 DEF FailAnswer
    <3> QED
      BY <1>0, <3>1
  <2>4. ASSUME NEW c \in Clients, SaveResponse(x, c) PROVE op'[w] = Resting
    BY <1>0, <1>4, <2>4 DEF SaveResponse
  <2> QED
    BY <1>4, <2>1, <2>2, <2>3, <2>4 DEF WorkerStep
<1>5. CASE RunnerStep
  BY <1>0, <1>5 DEF RunnerStep, Scan, Recover, WriteThread
<1>6. CASE Crash
  BY <1>0, <1>6 DEF Crash
<1>7. CASE Tick
  BY <1>0, <1>7 DEF Tick
<1>8. CASE UNCHANGED vars
  BY <1>0, <1>8 DEF vars
<1> QED
  BY <1>1, <1>2, <1>3, <1>4, <1>5, <1>6, <1>7, <1>8 DEF Next, HandlerStep

LEMMA PacketInvStep == PacketInv /\ [Next]_vars => PacketInv'
<1> SUFFICES ASSUME PacketInv, [Next]_vars PROVE PacketInv'
  OBVIOUS
<1>1. InboxInv' /\ WorkersRest' /\ TypeOK /\ TypeOK'
  BY InboxNext, WorkersRestStep DEF PacketInv, InboxInv
<1>2. ASSUME NEW s \in Threads PROVE PacketFollows(s)'
  <2>1. PacketFollows(s)
    BY DEF PacketInv
  <2>2. CASE Console
    BY <1>1, <2>1, <2>2, ConsoleFollows
  <2>3. ASSUME NEW a \in Agents, HandlerStep(a) PROVE PacketFollows(s)'
    BY <2>3, HandlerFollows
  <2>4. ASSUME NEW w \in Workers, WorkerStep(w) PROVE PacketFollows(s)'
    BY <1>1, <2>4, WorkerFollows
  <2>5. CASE Scan
    BY <2>1, <2>5, NothingMoved DEF Scan
  <2>6. ASSUME NEW t \in Threads, Recover(t) PROVE PacketFollows(s)'
    <3>1. /\ Runner \in Agents /\ "processing" \in Statuses
          /\ "active" \in Tells("processing") \ {"none"}
      BY TellsTypes DEF Agents, Statuses
    <3>2. WriteThread(Runner, t, "processing", "active", NewTask) /\ UNCHANGED packet
      BY <2>6 DEF Recover
    <3> QED
      BY <1>1, <2>1, <3>1, <3>2, WrittenFollows
  <2>7. CASE Crash
    BY <2>1, <2>7, CrashFollows
  <2>8. CASE Tick
    BY <2>1, <2>8, NothingMoved DEF Tick
  <2>9. CASE UNCHANGED vars
    BY <2>1, <2>9, NothingMoved DEF vars
  <2> QED
    BY <2>2, <2>3, <2>4, <2>5, <2>6, <2>7, <2>8, <2>9 DEF Next, RunnerStep
<1> QED
  BY <1>1, <1>2 DEF PacketInv

\* For any threads, requests, workers and ends of the process: once the handlers
\* have done with a thread, its packet tells what was last done with it, unless
\* a transition was lost or two handlers met (inbox.py:161-330, 410-540).
THEOREM PacketsTell == Spec => []PacketTellsThread
<1>1. Init => PacketInv
  <2> SUFFICES ASSUME Init PROVE PacketInv
    OBVIOUS
  <2>1. WorkersRest
    BY DEF Init, WorkersRest
  <2>2. ASSUME NEW t \in Threads PROVE PacketFollows(t)
    <3>1. status[t] = "none" /\ packet[t] = "none"
      BY DEF Init
    <3>2. \A a \in Agents : op[a].thread # t
      BY Ranges, InboxAssumption DEF Init
    <3> QED
      BY <3>1, <3>2, TellsTypes DEF PacketFollows, Packets
  <2> QED
    BY <2>1, <2>2, InboxInit DEF PacketInv
<1>2. PacketInv => PacketTellsThread
  <2> SUFFICES ASSUME PacketInv, NEW t \in Threads \ torn, Untouched(t)
               PROVE  /\ status[t] = "processing" => packet[t] \in Opening
                      /\ status[t] \in DOMAIN Closing =>
                           packet[t] \in {"none", "awaiting_human", Closing[status[t]]}
    BY DEF PacketTellsThread
  <2>1. packet[t] \in Tells(status[t])
    BY DEF PacketInv, PacketFollows, Untouched
  <2> QED
    BY <2>1 DEF Tells, Closing
<1> QED
  BY <1>1, <1>2, PacketInvStep, PTL DEF Spec
=============================================================================
