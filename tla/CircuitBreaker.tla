--------------------------- MODULE CircuitBreaker ---------------------------
(***************************************************************************)
(* One CircuitBreaker (reliability/circuit_breaker.py) under several       *)
(* threads.  It has no lock: a thread can lose the interpreter wherever it *)
(* calls a function, so the methods are cut at time.monotonic() and at fn. *)
(* Time passes in ticks of which Recovery make a recovery_timeout; none    *)
(* falls between reading the clock and using what was read.                *)
(***************************************************************************)
EXTENDS Naturals

CONSTANTS Callers,     \* threads that call through the breaker
          Threshold,   \* failure_threshold
          Recovery     \* recovery_timeout, in ticks

ASSUME BreakerAssumption == Threshold \in Nat \ {0} /\ Recovery \in Nat \ {0}

VARIABLES state,      \* _state
          failures,   \* _failures, not counted beyond Threshold
          age,        \* ticks since _last_failure_time, not counted beyond Recovery
          pc,         \* where each caller stands
          healthy     \* the dependency answers

breakerVars == <<state, failures, age, pc>>
vars == <<state, failures, age, pc, healthy>>

States == {"closed", "open", "half_open"}
\* "probing" is "calling" for a caller that was let in by a half open breaker.
Locations == {"idle", "clock", "calling", "probing", "failed"}
InCall(c) == pc[c] \in {"calling", "probing"}

TypeOK ==
    /\ state \in States
    /\ failures \in 0..Threshold
    /\ age \in 0..Recovery
    /\ pc \in [Callers -> Locations]
    /\ healthy \in BOOLEAN

BreakerInit ==
    /\ state = "closed"
    /\ failures = 0
    /\ age = Recovery
    /\ pc = [c \in Callers |-> "idle"]

Init == BreakerInit /\ healthy \in BOOLEAN

Goto(c, location) == pc' = [pc EXCEPT ![c] = location]
Admit(c) == Goto(c, IF state = "half_open" THEN "probing" ELSE "calling")

\* call: the state property finds the breaker closed or half open, and fn is called.
Enter(c) ==
    /\ pc[c] = "idle"
    /\ state # "open"
    /\ Admit(c)
    /\ UNCHANGED <<state, failures, age>>

Recovered == age >= Recovery

\* A fault to compare Refuse with: a refusal restarts the recovery timeout.
RefuseAndRestartTimer(c) ==
    /\ pc[c] = "idle"
    /\ state = "open"
    /\ ~Recovered
    /\ age' = 0
    /\ UNCHANGED <<state, failures, pc>>

\* CircuitOpen: the breaker is open and recovery_timeout has not passed.
Refuse(c) ==
    /\ pc[c] = "idle"
    /\ state = "open"
    /\ ~Recovered
    /\ UNCHANGED breakerVars

\* It has passed: the clock has been read, _last_failure_time not yet.
ConsultClock(c) ==
    /\ pc[c] = "idle"
    /\ state = "open"
    /\ Recovered
    /\ Goto(c, "clock")
    /\ UNCHANGED <<state, failures, age>>

\* Half open, whatever other threads have made of the state by now ...
HalfOpen(c) ==
    /\ pc[c] = "clock"
    /\ Recovered
    /\ state' = "half_open"
    /\ Goto(c, "probing")
    /\ UNCHANGED <<failures, age>>

\* ... unless one has failed again meanwhile.
NotYet(c) ==
    /\ pc[c] = "clock"
    /\ ~Recovered
    /\ IF state = "open" THEN Goto(c, "idle") ELSE Admit(c)
    /\ UNCHANGED <<state, failures, age>>

\* A fault to compare OnSuccess with: a late success closes an open breaker.
CloseOnAnySuccess(c) ==
    /\ InCall(c)
    /\ state' = "closed"
    /\ failures' = 0
    /\ Goto(c, "idle")
    /\ UNCHANGED age

\* fn returns: _on_success.
OnSuccess(c) ==
    /\ InCall(c)
    /\ state' = IF state = "half_open" THEN "closed" ELSE state
    /\ failures' = 0
    /\ Goto(c, "idle")
    /\ UNCHANGED age

\* fn raises: _on_failure, up to the call of time.monotonic() ...
OnFailure(c) ==
    /\ InCall(c)
    /\ failures' = IF failures < Threshold THEN failures + 1 ELSE Threshold
    /\ Goto(c, "failed")
    /\ UNCHANGED <<state, age>>

\* A fault to compare Trip with: one failure more than the threshold.
TripLate(c) ==
    /\ pc[c] = "failed"
    /\ age' = 0
    /\ state' = IF state = "half_open" THEN "open" ELSE state
    /\ Goto(c, "idle")
    /\ UNCHANGED failures

\* ... and the rest of it.
Trip(c) ==
    /\ pc[c] = "failed"
    /\ age' = 0
    /\ state' = IF state = "half_open" \/ failures >= Threshold THEN "open" ELSE state
    /\ Goto(c, "idle")
    /\ UNCHANGED failures

Reset ==
    /\ state' = "closed"
    /\ failures' = 0
    /\ UNCHANGED <<age, pc>>

Tick ==
    /\ \A c \in Callers : pc[c] \notin {"clock", "failed"}
    /\ age' = IF age < Recovery THEN age + 1 ELSE Recovery
    /\ UNCHANGED <<state, failures, pc>>

Consult(c) == Enter(c) \/ Refuse(c) \/ ConsultClock(c) \/ HalfOpen(c) \/ NotYet(c)

Step(c) ==
    \/ Consult(c)
    \/ healthy /\ OnSuccess(c)
    \/ ~healthy /\ OnFailure(c)
    \/ Trip(c)

DependencyFlips == healthy' = ~healthy /\ UNCHANGED breakerVars

Next ==
    \/ (\E c \in Callers : Step(c)) /\ UNCHANGED healthy
    \/ Reset /\ UNCHANGED healthy
    \/ Tick /\ UNCHANGED healthy
    \/ DependencyFlips

Spec == Init /\ [][Next]_vars

\* Callers keep calling, calls return or fail (httpx timeouts), and time passes.
Fairness ==
    /\ \A c \in Callers : WF_vars(Step(c) /\ UNCHANGED healthy)
    /\ WF_vars(Tick /\ UNCHANGED healthy)
FairSpec == Spec /\ Fairness
-----------------------------------------------------------------------------
\* A failure count at the threshold is never left standing on a closed breaker, even
\* when another thread's success or failure falls into the middle of _on_failure.
ThresholdIsActedOn ==
    state = "closed" /\ failures >= Threshold => \E c \in Callers : pc[c] = "failed"

\* An open breaker is left through half open (or reset) only: the late success of a
\* call that was let in before it opened does not close it.
OpenLeavesThroughProbe ==
    [][state = "open" /\ state' = "closed" => failures' = 0 /\ pc' = pc]_vars

\* When the dependency has come back for good the breaker closes for good, however
\* many threads' calls and refusals are mixed: it cannot stay open on stale evidence.
RecoversWithDependency == (<>[]healthy) => <>[](state = "closed")
=============================================================================
