---------------------------- MODULE GitHubPosting ----------------------------
(***************************************************************************)
(* GitHubClient.post_review (integrations/github_client.py): a POST under  *)
(* retry_call (reliability/retry.py) under the client's circuit breaker    *)
(* (CircuitBreaker).  A POST that GitHub carries out may still fail for    *)
(* the client: the answer is lost, times out or is not JSON.  An answer    *)
(* that is JSON is taken to be the review object with its integer id.      *)
(* Each caller posts one review.                                           *)
(*                                                                         *)
(* get_pr_diff (github_client.py:77-97) runs under the same breaker and is *)
(* left out: its failures would count with those of the POSTs, and its     *)
(* success, like that of a POST, starts the count anew.                    *)
(***************************************************************************)
EXTENDS CircuitBreaker, FiniteSets

CONSTANT MaxAttempts   \* of retry_call

ASSUME PostingAssumption == MaxAttempts \in Nat \ {0}

VARIABLES attempt,   \* POSTs each caller has sent
          landed,    \* reviews GitHub has created for it
          outcome    \* what post_review returned or raised

postingVars == <<vars, attempt, landed, outcome>>

Outcomes == {"none", "id", "CircuitOpen", "PrReviewError"}

PostingTypeOK ==
    /\ TypeOK
    /\ attempt \in [Callers -> 0..MaxAttempts]
    /\ landed \in [Callers -> 0..MaxAttempts]
    /\ outcome \in [Callers -> Outcomes]

PostingInit ==
    /\ Init
    /\ attempt = [c \in Callers |-> 0]
    /\ landed = [c \in Callers |-> 0]
    /\ outcome = [c \in Callers |-> "none"]

Finish(c, how) == outcome' = [outcome EXCEPT ![c] = how]

\* The breaker lets the call in, looks at its clock first, or refuses it.
LetIn(c) ==
    /\ outcome[c] = "none"
    /\ Enter(c) \/ ConsultClock(c) \/ HalfOpen(c)
    /\ UNCHANGED <<healthy, attempt, landed, outcome>>
Refused(c) ==
    /\ outcome[c] = "none"
    /\ \/ Refuse(c) /\ Finish(c, "CircuitOpen")
       \/ /\ NotYet(c)
          /\ IF state = "open" THEN Finish(c, "CircuitOpen") ELSE UNCHANGED outcome
    /\ UNCHANGED <<healthy, attempt, landed>>

Send(c) == attempt' = [attempt EXCEPT ![c] = @ + 1]
Land(c) == landed' = [landed EXCEPT ![c] = @ + 1]

\* A fault to compare PostSucceeds with: success is returned before GitHub has answered.
ReturnBeforePosting(c) ==
    /\ OnSuccess(c)
    /\ Send(c)
    /\ Finish(c, "id")
    /\ UNCHANGED <<healthy, landed>>

\* _post returns: so do retry_call, fn and post_review.
PostSucceeds(c) ==
    /\ healthy
    /\ attempt[c] < MaxAttempts
    /\ OnSuccess(c)
    /\ Send(c) /\ Land(c)
    /\ Finish(c, "id")
    /\ UNCHANGED healthy

\* A fault to compare PostFails with: the retries are not bounded.
RetryForever(c) ==
    /\ InCall(c)
    /\ attempt' = [attempt EXCEPT ![c] = IF @ < MaxAttempts THEN @ + 1 ELSE @]
    /\ UNCHANGED <<vars, landed, outcome>>

\* _post raises, whether or not GitHub has created the review.  With attempts left
\* retry_call sleeps and calls it again; else the exception reaches the breaker.
PostFails(c) ==
    /\ InCall(c)
    /\ attempt[c] < MaxAttempts
    /\ Send(c)
    /\ (healthy /\ Land(c)) \/ UNCHANGED landed
    /\ IF attempt[c] + 1 < MaxAttempts THEN UNCHANGED <<state, failures, age, pc>>
                                       ELSE OnFailure(c)
    /\ UNCHANGED <<healthy, outcome>>

Raise(c) ==
    /\ Trip(c)
    /\ Finish(c, "PrReviewError")
    /\ UNCHANGED <<healthy, attempt, landed>>

PostingStep(c) == LetIn(c) \/ Refused(c) \/ PostSucceeds(c) \/ PostFails(c) \/ Raise(c)

PostingNext ==
    \/ \E c \in Callers : PostingStep(c)
    \/ /\ \/ Tick /\ UNCHANGED healthy
          \/ DependencyFlips
       /\ UNCHANGED <<attempt, landed, outcome>>

PostingSpec == PostingInit /\ [][PostingNext]_postingVars
PostingFairSpec == PostingSpec /\ \A c \in Callers : WF_postingVars(PostingStep(c))
-----------------------------------------------------------------------------
\* What the caller is told is true: an id means the review exists, CircuitOpen that
\* GitHub was not contacted, PrReviewError that every attempt was used. And a review
\* appears more than once on GitHub only if the POST was repeated.
OutcomeIsTrue ==
    \A c \in Callers :
        /\ landed[c] <= attempt[c]
        /\ outcome[c] = "id" => landed[c] >= 1
        /\ outcome[c] = "CircuitOpen" => attempt[c] = 0
        /\ outcome[c] = "PrReviewError" => attempt[c] = MaxAttempts

\* Where a caller stands says how much of post_review is behind it; inductive.
Progress ==
    \A c \in Callers :
        /\ outcome[c] # "none" => pc[c] = "idle"
        /\ outcome[c] = "none" /\ pc[c] \in {"idle", "clock"} => attempt[c] = 0
        /\ InCall(c) => attempt[c] < MaxAttempts
        /\ pc[c] = "failed" => attempt[c] = MaxAttempts

\* "GitHub API forced to 500 -> breaker opens": when Threshold calls have failed and
\* none has succeeded, the breaker no longer lets everybody in.
DeadGitHubOpensBreaker ==
    /\ \A c \in Callers : outcome[c] # "id"
    /\ Cardinality({c \in Callers : outcome[c] = "PrReviewError"}) >= Threshold
    => state # "closed"

\* Every call of post_review ends, whatever the state of GitHub and of the breaker.
EveryPostEnds == \A c \in Callers : <>(outcome[c] # "none")
=============================================================================
