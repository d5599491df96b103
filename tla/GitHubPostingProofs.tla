------------------------- MODULE GitHubPostingProofs -------------------------
(***************************************************************************)
(* Theorems about CircuitBreaker and about GitHubPosting, which posts      *)
(* through it, for any number of threads or callers and any threshold,     *)
(* recovery timeout and retry limit.                                       *)
(***************************************************************************)
EXTENDS GitHubPosting, FiniteSetTheorems, TLAPS

-----------------------------------------------------------------------------
(* The breaker by itself. *)

\* The state of the breaker stays in its type (circuit_breaker.py:34-46).
THEOREM BreakerTypeCorrect == Spec => []TypeOK
<1>1. Init => TypeOK
  BY BreakerAssumption DEF Init, BreakerInit, TypeOK, States, Locations
<1>2. TypeOK /\ [Next]_vars => TypeOK'
  <2> SUFFICES ASSUME TypeOK, [Next]_vars PROVE TypeOK'
    OBVIOUS
  <2> USE BreakerAssumption DEF TypeOK, States, Locations
  <2>1. ASSUME NEW c \in Callers, Consult(c), UNCHANGED healthy PROVE TypeOK'
    BY <2>1 DEF Consult, Enter, Refuse, ConsultClock, HalfOpen, NotYet, Admit, Goto, breakerVars
  <2>2. ASSUME NEW c \in Callers, OnSuccess(c) \/ OnFailure(c) \/ Trip(c), UNCHANGED healthy
        PROVE TypeOK'
    BY <2>2 DEF OnSuccess, OnFailure, Trip, Goto
  <2>3. CASE Reset /\ UNCHANGED healthy
    BY <2>3 DEF Reset
  <2>4. CASE Tick /\ UNCHANGED healthy
    BY <2>4 DEF Tick
  <2>5. CASE DependencyFlips
    BY <2>5 DEF DependencyFlips, breakerVars
  <2>6. CASE UNCHANGED vars
    BY <2>6 DEF vars
  <2> QED
    BY <2>1, <2>2, <2>3, <2>4, <2>5, <2>6 DEF Next, Step
<1> QED
  BY <1>1, <1>2, PTL DEF Spec

-----------------------------------------------------------------------------
\* Inductive by itself: only OnFailure raises the count, and its thread is then in
\* the middle of _on_failure; Trip, the only step that leaves that place, opens the
\* breaker when it finds the count at the threshold.
LEMMA ThresholdStep ==
    ASSUME TypeOK, ThresholdIsActedOn, [Next]_vars
    PROVE  ThresholdIsActedOn'
<1> USE BreakerAssumption DEF TypeOK, ThresholdIsActedOn, Locations, States
<1>1. ASSUME NEW c \in Callers, Consult(c) PROVE ThresholdIsActedOn'
  <2> SUFFICES ASSUME state' = "closed", failures' >= Threshold
               PROVE  \E d \in Callers : pc'[d] = "failed"
    OBVIOUS
  <2>1. state = "closed" /\ failures' = failures
    BY <1>1 DEF Consult, Enter, Refuse, ConsultClock, HalfOpen, NotYet, breakerVars
  <2>2. PICK d \in Callers : pc[d] = "failed"
    BY <2>1
  <2>3. pc[c] # "failed"
    BY <1>1 DEF Consult, Enter, Refuse, ConsultClock, HalfOpen, NotYet
  <2>4. pc'[d] = pc[d]
    BY <1>1, <2>2, <2>3
    DEF Consult, Enter, Refuse, ConsultClock, HalfOpen, NotYet, Admit, Goto, breakerVars
  <2> QED
    BY <2>2, <2>4
<1>2. ASSUME NEW c \in Callers, OnSuccess(c) PROVE ThresholdIsActedOn'
  BY <1>2 DEF OnSuccess
<1>3. ASSUME NEW c \in Callers, OnFailure(c) PROVE ThresholdIsActedOn'
  BY <1>3 DEF OnFailure, Goto
<1>4. ASSUME NEW c \in Callers, Trip(c) PROVE ThresholdIsActedOn'
  BY <1>4 DEF Trip
<1>5. CASE Reset
  BY <1>5 DEF Reset
<1>6. CASE Tick \/ DependencyFlips \/ UNCHANGED vars
  BY <1>6 DEF Tick, DependencyFlips, breakerVars, vars
<1> QED
  BY <1>1, <1>2, <1>3, <1>4, <1>5, <1>6 DEF Next, Step

\* A count at the threshold is always acted on (circuit_breaker.py:75-81), however
\* the threads' successes and failures interleave.
THEOREM ThresholdHonoured == Spec => []ThresholdIsActedOn
<1>1. Init => ThresholdIsActedOn
  BY BreakerAssumption DEF Init, BreakerInit, ThresholdIsActedOn
<1>2. TypeOK /\ ThresholdIsActedOn /\ [Next]_vars => ThresholdIsActedOn'
  BY ThresholdStep
<1> QED
  BY <1>1, <1>2, BreakerTypeCorrect, PTL DEF Spec

\* An open breaker is closed by reset() or not directly at all (circuit_breaker.py:70-73).
THEOREM OpenNeedsProbe == Spec => OpenLeavesThroughProbe
<1> DEFINE A == state = "open" /\ state' = "closed" => failures' = 0 /\ pc' = pc
<1>1. TypeOK /\ [Next]_vars => [A]_vars
  <2> SUFFICES ASSUME TypeOK, Next, state = "open", state' = "closed"
               PROVE  failures' = 0 /\ pc' = pc
    OBVIOUS
  <2>1. ASSUME NEW c \in Callers, Step(c) PROVE FALSE
    BY <2>1 DEF Step, Consult, Enter, Refuse, ConsultClock, HalfOpen, NotYet, OnSuccess,
                OnFailure, Trip, breakerVars
  <2>2. ~Tick /\ ~DependencyFlips
    BY DEF Tick, DependencyFlips, breakerVars
  <2> QED
    BY <2>1, <2>2 DEF Next, Reset
<1> QED
  BY <1>1, BreakerTypeCorrect, PTL DEF Spec, OpenLeavesThroughProbe
-----------------------------------------------------------------------------
(* Posting through it. *)

Inv == PostingTypeOK /\ Progress /\ OutcomeIsTrue

\* Nobody has posted anything yet.
LEMMA InitInv == PostingInit => Inv
BY BreakerAssumption, PostingAssumption
DEF PostingInit, Inv, PostingTypeOK, Progress, OutcomeIsTrue, Outcomes, Init, BreakerInit,
    TypeOK, States, Locations, InCall

\* One step of one caller, which leaves every other caller where it is.
LEMMA CallerInv ==
    ASSUME Inv, NEW c \in Callers, PostingStep(c)
    PROVE  Inv'
<1> USE BreakerAssumption, PostingAssumption
    DEF Inv, PostingTypeOK, Progress, OutcomeIsTrue, Outcomes, TypeOK, States, Locations, InCall,
        Goto, Admit
<1>1. CASE LetIn(c)
  BY <1>1 DEF LetIn, Enter, ConsultClock, HalfOpen
<1>2. CASE Refused(c)
  BY <1>2 DEF Refused, Finish, Refuse, NotYet, breakerVars
<1>3. CASE PostSucceeds(c)
  BY <1>3 DEF PostSucceeds, Send, Land, Finish, OnSuccess
<1>4. CASE PostFails(c)
  BY <1>4 DEF PostFails, Send, Land, OnFailure
<1>5. CASE Raise(c)
  BY <1>5 DEF Raise, Finish, Trip
<1> QED
  BY <1>1, <1>2, <1>3, <1>4, <1>5 DEF PostingStep

\* What is not a step of a caller leaves the callers where they are.
LEMMA Surroundings ==
    ASSUME PostingTypeOK,
           \/ ((Tick /\ UNCHANGED healthy) \/ DependencyFlips) /\ UNCHANGED <<attempt, landed, outcome>>
           \/ UNCHANGED postingVars
    PROVE  TypeOK' /\ UNCHANGED <<state, failures, pc, attempt, landed, outcome>>
<1> USE BreakerAssumption DEF PostingTypeOK, TypeOK
<1>1. CASE Tick /\ UNCHANGED healthy /\ UNCHANGED <<attempt, landed, outcome>>
  BY <1>1 DEF Tick
<1>2. CASE DependencyFlips /\ UNCHANGED <<attempt, landed, outcome>>
  BY <1>2 DEF DependencyFlips, breakerVars
<1>3. CASE UNCHANGED postingVars
  BY <1>3 DEF vars, postingVars
<1> QED
  BY <1>1, <1>2, <1>3

\* Every reachable state satisfies the invariant.
LEMMA PostingInvariant == PostingSpec => []Inv
<1>1. ASSUME Inv, [PostingNext]_postingVars PROVE Inv'
  <2>1. CASE UNCHANGED <<state, failures, pc, attempt, landed, outcome>> /\ TypeOK'
    BY <1>1, <2>1 DEF Inv, PostingTypeOK, Progress, OutcomeIsTrue, InCall
  <2> QED
    BY <1>1, <2>1, CallerInv, Surroundings DEF PostingNext, Inv
<1> QED
  BY InitInv, <1>1, PTL DEF PostingSpec

\* What post_review returns or raises is true of GitHub (github_client.py:67-75): a
\* returned id stands for a review, CircuitOpen for silence, PrReviewError for every
\* attempt made.
THEOREM PostingOutcome == PostingSpec => []OutcomeIsTrue
BY PostingInvariant, PTL DEF Inv
-----------------------------------------------------------------------------
(* A dead GitHub opens the breaker. *)

Dead == \A c \in Callers : outcome[c] # "id"
Errors == {c \in Callers : outcome[c] = "PrReviewError"}

\* The calls whose failure the breaker has counted: nothing forgets one while no call
\* succeeds.
Counted == {c \in Callers : pc[c] = "failed"} \cup Errors

DeadInv ==
    /\ IsFiniteSet(Counted)
    /\ Dead => failures >= Threshold \/ failures >= Cardinality(Counted)
    /\ Dead /\ Cardinality(Errors) >= Threshold => state # "closed"

\* Inductive over Inv: one call more is one failure more, and the call that makes the
\* errors reach the threshold finds the count there when it trips the breaker.
LEMMA DeadStep ==
    ASSUME Inv, DeadInv, [PostingNext]_postingVars
    PROVE  DeadInv'
<1> USE BreakerAssumption DEF Inv, PostingTypeOK, TypeOK, Outcomes, Locations
<1>1. Errors \subseteq Counted /\ IsFiniteSet(Errors) /\ Cardinality(Counted) \in Nat
      /\ Cardinality(Errors) \in Nat
  BY FS_Subset, FS_CardinalityType DEF DeadInv, Counted
<1>2. CASE UNCHANGED <<state, failures, Dead, Errors, Counted>>
  BY <1>2 DEF DeadInv
<1>3. ASSUME NEW c \in Callers, LetIn(c) \/ Refused(c) PROVE DeadInv'
  <2>1. /\ failures' = failures /\ pc[c] \in {"idle", "clock"} /\ outcome[c] = "none"
        /\ pc'[c] \in {"idle", "clock", "calling", "probing"}
        /\ outcome'[c] \in {"none", "CircuitOpen"}
        /\ \A d \in Callers \ {c} : pc'[d] = pc[d] /\ outcome'[d] = outcome[d]
        /\ state' = "closed" => state = "closed"
    BY <1>3 DEF LetIn, Refused, Enter, ConsultClock, HalfOpen, Refuse, NotYet, Admit, Goto, Finish,
                breakerVars
  <2>2. Dead' = Dead /\ Errors' = Errors /\ Counted' = Counted
    BY <2>1 DEF Dead, Errors, Counted
  <2> QED
    BY <2>1, <2>2 DEF DeadInv
<1>4. ASSUME NEW c \in Callers, PostSucceeds(c) PROVE DeadInv'
  <2>1. ~Dead' /\ pc[c] # "failed" /\ outcome[c] = "none"
    BY <1>4 DEF PostSucceeds, OnSuccess, InCall, Finish, Dead, Progress
  <2>2. Counted' = Counted
    BY <1>4, <2>1 DEF PostSucceeds, OnSuccess, Goto, Finish, Counted, Errors
  <2> QED
    BY <2>1, <2>2 DEF DeadInv
<1>5. ASSUME NEW c \in Callers, PostFails(c) PROVE DeadInv'
  <2>1. CASE UNCHANGED <<state, failures, age, pc>>
    BY <1>2, <1>5, <2>1 DEF PostFails, Dead, Errors, Counted
  <2>2. CASE OnFailure(c)
    <3>1. c \notin Counted /\ Counted' = Counted \cup {c}
      BY <1>5, <2>2 DEF PostFails, OnFailure, InCall, Goto, Progress, Counted, Errors
    <3>2. IsFiniteSet(Counted') /\ Cardinality(Counted') = Cardinality(Counted) + 1
      BY <3>1, FS_AddElement DEF DeadInv
    <3>3. failures' = IF failures < Threshold THEN failures + 1 ELSE Threshold
      BY <2>2 DEF OnFailure
    <3>4. UNCHANGED <<state, Dead, Errors>>
      BY <1>5, <2>2 DEF PostFails, OnFailure, Dead, Errors
    <3> QED
      BY <1>1, <3>2, <3>3, <3>4 DEF DeadInv
  <2> QED
    BY <1>5, <2>1, <2>2 DEF PostFails
<1>6. ASSUME NEW c \in Callers, Raise(c) PROVE DeadInv'
  <2>1. pc[c] = "failed" /\ Counted' = Counted /\ Dead' = Dead /\ failures' = failures
    BY <1>6 DEF Raise, Trip, Goto, Finish, Counted, Errors, Dead, Progress
  <2>2. Errors' \subseteq Counted
    BY <2>1 DEF Counted
  <2>3. Cardinality(Errors') <= Cardinality(Counted)
    BY <2>2, FS_Subset DEF DeadInv
  <2>4. failures >= Threshold => state' # "closed"
    BY <1>6 DEF Raise, Trip
  <2>5. IsFiniteSet(Errors') /\ Cardinality(Errors') \in Nat
    BY <2>2, FS_Subset, FS_CardinalityType DEF DeadInv
  <2> QED
    BY <1>1, <2>1, <2>3, <2>4, <2>5 DEF DeadInv
<1>7. ASSUME UNCHANGED <<state, failures, pc, attempt, landed, outcome>> PROVE DeadInv'
  BY <1>2, <1>7 DEF Dead, Errors, Counted
<1> QED
  BY <1>3, <1>4, <1>5, <1>6, <1>7, Surroundings DEF PostingNext, PostingStep

\* "GitHub API forced to 500 -> breaker opens" (circuit_breaker.py:75-81 under
\* github_client.py:67-75): once Threshold calls have failed and none has succeeded,
\* the breaker is not closed, however the calls overlap.
THEOREM DeadGitHub == PostingSpec => []DeadGitHubOpensBreaker
<1>1. PostingInit => DeadInv
  <2> SUFFICES ASSUME PostingInit PROVE DeadInv
    OBVIOUS
  <2>1. Counted = {} /\ Errors = {}
    BY DEF PostingInit, Init, BreakerInit, Counted, Errors
  <2> QED
    BY <2>1, FS_EmptySet, BreakerAssumption DEF PostingInit, Init, BreakerInit, DeadInv
<1>2. Inv /\ DeadInv /\ [PostingNext]_postingVars => DeadInv'
  BY DeadStep
<1>3. DeadInv => DeadGitHubOpensBreaker
  BY DEF DeadInv, DeadGitHubOpensBreaker, Dead, Errors
<1> QED
  BY <1>1, <1>2, <1>3, PostingInvariant, PTL DEF PostingSpec
=============================================================================
