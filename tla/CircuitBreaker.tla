--------------------------- MODULE CircuitBreaker ---------------------------
(***************************************************************************)
(* One breaker of services/circuit_breaker.py and the coroutines that call *)
(* its backend through ModelRouter (services/model_router.py:526-690).     *)
(*                                                                         *)
(* The event loop runs a method of the breaker without interruption, but a *)
(* caller awaits its backend between allow_request() and the record_*()    *)
(* call, so any number of answers may be outstanding when the breaker      *)
(* changes state: they are recorded later, in whatever state it then has.  *)
(*                                                                         *)
(* Time is kept as what the code computes from the clock, the time since   *)
(* the last recorded failure, which matters only up to the cooldown.       *)
(***************************************************************************)
EXTENDS Integers

CONSTANTS
    Callers,            \* coroutines that may call the backend
    FailureThreshold,   \* consecutive failures to trip
    SuccessThreshold,   \* successes in half-open to close
    Cooldown,           \* ticks to wait before probing
    MaxFailures         \* bound: failures counted before the run stops failing

ASSUME BreakerAssumption ==
    /\ FailureThreshold \in Nat \ {0}
    /\ SuccessThreshold \in Nat \ {0}
    /\ Cooldown \in Nat \ {0}
    /\ MaxFailures \in Nat

VARIABLES
    state,          \* _state
    failureCount,   \* _failure_count
    successCount,   \* _success_count
    sinceFailure,   \* time.monotonic() - _last_failure_time, up to Cooldown
    call,           \* what each caller is waiting for
    streak,         \* history: failures recorded since the last success
    quiet,          \* history: ticks since anyone's call failed, up to Cooldown
    wins            \* history: successes, up to SuccessThreshold, recorded
                    \* after a whole cooldown in which no call failed

counters == <<failureCount, successCount, sinceFailure>>
history == <<streak, quiet, wins>>
breakerVars == <<state, counters, call, history>>

States == {"closed", "open", "half_open"}

\* "probe" is a call let through in HALF_OPEN, "regular" one in CLOSED.
CallKinds == {"none", "regular", "probe"}

BreakerTypeOK ==
    /\ state \in States
    /\ failureCount \in Nat
    /\ successCount \in 0..SuccessThreshold
    /\ sinceFailure \in 0..Cooldown
    /\ call \in [Callers -> CallKinds]
    /\ streak \in Nat
    /\ quiet \in 0..Cooldown
    /\ wins \in 0..SuccessThreshold

\* _last_failure_time starts at 0.0, which is long ago.
BreakerInit ==
    /\ state = "closed"
    /\ failureCount = 0
    /\ successCount = 0
    /\ sinceFailure = Cooldown
    /\ call = [c \in Callers |-> "none"]
    /\ streak = 0
    /\ quiet = Cooldown
    /\ wins = 0

-----------------------------------------------------------------------------
\* The state property: reading it is what moves OPEN to HALF_OPEN.
CooledDown == state = "open" /\ sinceFailure >= Cooldown

StateRead == IF CooledDown THEN "half_open" ELSE state

\* Mutant: a new half-open period keeps the successes of the last one.
SuccessesKept == successCount

SuccessesRead == IF CooledDown THEN 0 ELSE successCount

ReadState ==
    /\ state' = StateRead
    /\ successCount' = SuccessesRead

\* A caller asks allow_request() and, unless the breaker is open, awaits the
\* backend. A refused caller raises at once and has changed nothing more.
AllowRequest(c) ==
    /\ call[c] = "none"
    /\ ReadState
    /\ call' = IF StateRead = "open"
               THEN call
               ELSE [call EXCEPT ![c] = IF StateRead = "closed" THEN "regular"
                                                                ELSE "probe"]
    /\ UNCHANGED <<failureCount, sinceFailure, history>>

\* A health dashboard reads the breaker through status().
Status ==
    /\ ReadState
    /\ UNCHANGED <<failureCount, sinceFailure, call, history>>

Recovered == state = "half_open" /\ successCount + 1 >= SuccessThreshold

\* Mutant: a success clears the failures only when it closes the breaker.
FailuresKeptWhileClosed == IF Recovered THEN 0 ELSE failureCount

FailuresAfterSuccess ==
    IF Recovered \/ state = "closed" THEN 0 ELSE failureCount

\* The backend answered the caller.
RecordSuccess(c) ==
    /\ call[c] # "none"
    /\ call' = [call EXCEPT ![c] = "none"]
    /\ state' = IF Recovered THEN "closed" ELSE state
    /\ successCount' = IF state = "half_open" THEN successCount + 1
                                              ELSE successCount
    /\ failureCount' = FailuresAfterSuccess
    /\ streak' = 0
    /\ wins' = IF quiet = Cooldown /\ wins < SuccessThreshold THEN wins + 1
                                                              ELSE wins
    /\ UNCHANGED <<sinceFailure, quiet>>

\* Mutant: the clock is set when the breaker trips, and a call that fails
\* late, while it is open, leaves it alone.
CoolingKept == IF state = "open" THEN sinceFailure ELSE 0

\* record_failure() takes the time of the failure whatever the state is.
CoolingAfterFailure == 0

\* The backend raised. The failure restarts the cooldown in every state.
RecordFailure(c) ==
    /\ call[c] # "none"
    /\ failureCount < MaxFailures
    /\ call' = [call EXCEPT ![c] = "none"]
    /\ failureCount' = failureCount + 1
    /\ sinceFailure' = CoolingAfterFailure
    /\ state' = IF \/ state = "half_open"
                   \/ state = "closed" /\ failureCount' >= FailureThreshold
                THEN "open" ELSE state
    /\ streak' = streak + 1
    /\ quiet' = 0
    /\ wins' = 0
    /\ UNCHANGED successCount

\* The caller is cancelled while it waits (a client that disconnects, a
\* wait_for() around it that expires): CancelledError is no Exception, so
\* neither record_success() nor record_failure() runs.
Cancel(c) ==
    /\ call[c] # "none"
    /\ call' = [call EXCEPT ![c] = "none"]
    /\ UNCHANGED <<state, counters, history>>

\* Manual reset. Calls in flight stay in flight.
Reset ==
    /\ state' = "closed"
    /\ failureCount' = 0
    /\ successCount' = 0
    /\ streak' = 0
    /\ UNCHANGED <<sinceFailure, call, quiet, wins>>

Later(n) == IF n < Cooldown THEN n + 1 ELSE n

Tick ==
    /\ sinceFailure' = Later(sinceFailure)
    /\ quiet' = Later(quiet)
    /\ UNCHANGED <<state, failureCount, successCount, call, streak, wins>>

BreakerNext ==
    \/ \E c \in Callers : AllowRequest(c)
    \/ \E c \in Callers : RecordSuccess(c)
    \/ \E c \in Callers : RecordFailure(c)
    \/ \E c \in Callers : Cancel(c)
    \/ Status
    \/ Reset
    \/ Tick

BreakerSpec == BreakerInit /\ [][BreakerNext]_breakerVars

-----------------------------------------------------------------------------
\* A breaker that is closed is short of tripping and one that probes is short
\* of closing, whatever late answers were counted on the way there: no count
\* survives from an earlier episode (circuit_breaker.py:80, 102, 109).
CountsBelowThresholds ==
    /\ state = "closed" => failureCount < FailureThreshold
    /\ state = "half_open" => successCount < SuccessThreshold

\* Only consecutive failures trip a closed breaker: the answers recorded last
\* were FailureThreshold failures with no success between them, in the order
\* they were recorded, whenever they were asked (circuit_breaker.py:59, 109, 125-129).
TripsOnConsecutiveFailures ==
    [][state = "closed" /\ state' = "open" => streak' >= FailureThreshold]_breakerVars

\* A breaker that probes closes by itself only on SuccessThreshold successes
\* recorded since the last failure of any call, each of them after a whole
\* cooldown in which none failed. A call admitted before the trip that fails
\* late, while the breaker is open or probes, starts the wait and the count
\* anew (circuit_breaker.py:76-79, 99-102, 114, 117-119).
RecoveryIsEarned ==
    [][state = "half_open" /\ state' = "closed" =>
         Reset \/ (quiet = Cooldown /\ wins' >= SuccessThreshold)]_breakerVars

\* "allow exactly one probe" (circuit_breaker.py:93): while the breaker is
\* half open at most one call waits for the backend as a probe.
SingleProbe ==
    \A c, d \in Callers :
        state = "half_open" /\ call[c] = "probe" /\ call[d] = "probe" => c = d

=============================================================================
