----------------------------- MODULE ReviewRuns -----------------------------
(***************************************************************************)
(* Running the review pipeline for claimed reviews: the arq worker         *)
(* (job_queue/arq_worker.py), POST /reviews/{id}/run (main.py) and         *)
(* run_review_pipeline (webhook_receiver/router.py), which both call.      *)
(*                                                                         *)
(* A run is one call of run_review_pipeline.  A worker's runs are threads  *)
(* of its executor, awaited by the coroutine of a job; a manual run holds  *)
(* the event loop of its API process.  Every statement of the persist      *)
(* stage is a transaction of its own, and nothing looks at what an earlier *)
(* run of the same review left behind.                                     *)
(***************************************************************************)
EXTENDS Naturals, Sequences, FiniteSets, ReviewStore

CONSTANTS JobRuns,         \* calls of run_review_pipeline by workers (bound)
          ManualRuns,      \* and by POST /reviews/{id}/run (bound)
          Workers,         \* arq worker processes
          NoRun, NoReview, NoProcess,
          PoolThreads,     \* executor threads of one worker process
          MaxTries,        \* arq: executions of one job
          MaxFindings,     \* findings of one run (bound)
          PostsToGitHub,   \* run_review_pipeline is given a github_client
          MaxCrashes, MaxTimeouts, MaxFaults,   \* bounds on what goes wrong
          MaxMishaps       \* and on all of it together

Runs == JobRuns \cup ManualRuns

ASSUME RunsAssumption ==
    /\ JobRuns \cap ManualRuns = {}
    /\ PoolThreads \in Nat \ {0}
    /\ MaxTries \in Nat \ {0}
    /\ {MaxFindings, MaxCrashes, MaxTimeouts, MaxFaults, MaxMishaps} \subseteq Nat
    /\ PostsToGitHub \in BOOLEAN
    /\ Workers \cap Servers = {}
    /\ NoRun \notin Runs /\ NoReview \notin Reviews /\ NoProcess \notin Workers \cup Servers

VARIABLES tries,       \* executions arq has started of the job
          attempt,     \* the run the job's coroutine is awaiting
          result,      \* how the job ended
          run,         \* the state of each run
          rows,        \* finding_records: <<run, position of the finding>>
          hitl,        \* reason of the hitl_reviews row a run inserted
          verdict,     \* decision event a run emitted
          landed,      \* runs whose review comment exists on GitHub
          faults       \* crashes, timeouts and failed statements so far

store == <<status, errorEvent, rows, hitl, verdict, landed>>
jobVars == <<job, tries, attempt, result>>
vars == <<status, job, errorEvent, busy, tries, attempt, result, run, rows, hitl,
          verdict, landed, faults>>

Severities == {"CRITICAL", "LOW"}
Decisions == {"auto_post", "approval_queue", "escalate"}
Reasons == {"agent_failure", "low_confidence", "critical_finding"}
Results == {"none", "ok", "error", "raised", "timeout", "exhausted"}
FindingLists == UNION {[1..n -> Severities] : n \in 0..MaxFindings}

\* "submitted": handed to the executor, no thread yet.
InThread == {"graph", "post", "persist", "hitl", "verdict"}
Ended == {"returned", "raised", "killed", "cancelled"}
RunStates == {"idle", "submitted"} \cup InThread \cup Ended

RunRecord == [pc : RunStates,
              review : Reviews \cup {NoReview},
              origin : Workers \cup Servers \cup {NoProcess},
              findings : FindingLists,
              errors : BOOLEAN,
              decision : Decisions \cup {"none"},
              next : 1..(MaxFindings + 1),
              posted : BOOLEAN]

TypeOK ==
    /\ status \in [Reviews -> Statuses]
    /\ job \in [Reviews -> JobStates]
    /\ errorEvent \in [Reviews -> BOOLEAN]
    /\ busy \in [Servers -> BOOLEAN]
    /\ tries \in [Reviews -> 0..MaxTries]
    /\ attempt \in [Reviews -> Runs \cup {NoRun}]
    /\ result \in [Reviews -> Results]
    /\ run \in [Runs -> RunRecord]
    /\ rows \subseteq Runs \X (1..MaxFindings)
    /\ hitl \in [Runs -> Reasons \cup {"none"}]
    /\ verdict \in [Runs -> Decisions \cup {"none"}]
    /\ landed \subseteq Runs
    /\ faults \in [crash : 0..MaxCrashes, timeout : 0..MaxTimeouts, statement : 0..MaxFaults]

Alive(t) == run[t].pc \in InThread \cup {"submitted"}
Manual(t) == run[t].origin \in Servers

IdleRun == [pc |-> "idle", review |-> NoReview, origin |-> NoProcess, findings |-> <<>>,
            errors |-> FALSE, decision |-> "none", next |-> 1, posted |-> FALSE]

NothingRun ==
    /\ tries = [r \in Reviews |-> 0]
    /\ attempt = [r \in Reviews |-> NoRun]
    /\ result = [r \in Reviews |-> "none"]
    /\ run = [t \in Runs |-> IdleRun]
    /\ rows = {}
    /\ hitl = [t \in Runs |-> "none"]
    /\ verdict = [t \in Runs |-> "none"]
    /\ landed = {}
    /\ faults = [crash |-> 0, timeout |-> 0, statement |-> 0]

\* Standing alone: claimed reviews, some with a published job.
Init ==
    /\ status = [r \in Reviews |-> "pending"]
    /\ job \in [Reviews -> {"none", "queued"}]
    /\ errorEvent = [r \in Reviews |-> FALSE]
    /\ busy = [s \in Servers |-> FALSE]
    /\ NothingRun
-----------------------------------------------------------------------------
\* One more mishap of the kind, within the bounds of the model.
GoesWrong(kind, bound) ==
    /\ faults[kind] < bound
    /\ faults.crash + faults.timeout + faults.statement < MaxMishaps
    /\ faults' = [faults EXCEPT ![kind] = @ + 1]

(* The job and its coroutine. *)

Begin(t, r, process, location) ==
    run' = [run EXCEPT ![t] = [IdleRun EXCEPT !.pc = location, !.review = r, !.origin = process]]

\* (The worker first tries to fetch the diff, on its event loop; when that fails the
\* run goes on without it. It writes nothing and is left out.)
TakeJob(w, r, t) ==
    /\ job[r] = "queued"
    /\ tries[r] < MaxTries
    /\ run[t].pc = "idle"
    /\ job' = [job EXCEPT ![r] = "running"]
    /\ tries' = [tries EXCEPT ![r] = @ + 1]
    /\ attempt' = [attempt EXCEPT ![r] = t]
    /\ Begin(t, r, w, "submitted")
    /\ UNCHANGED <<store, busy, result, faults>>

\* The job leaves the queue for good with the given result.
Close(r, outcome) ==
    /\ job' = [job EXCEPT ![r] = "done"]
    /\ result' = [result EXCEPT ![r] = outcome]
    /\ attempt' = [attempt EXCEPT ![r] = NoRun]
    /\ UNCHANGED tries

\* A fault to compare JobExhausted with: the last try is never closed.
ExhaustedOffByOne(r) ==
    /\ job[r] = "queued"
    /\ tries[r] > MaxTries
    /\ Close(r, "exhausted")
    /\ UNCHANGED <<store, busy, run, faults>>

\* arq gives up a job that was executed max_tries times.
JobExhausted(r) ==
    /\ job[r] = "queued"
    /\ tries[r] = MaxTries
    /\ Close(r, "exhausted")
    /\ UNCHANGED <<store, busy, run, faults>>

JobReturns(r) ==
    /\ job[r] = "running"
    /\ run[attempt[r]].pc = "returned"
    /\ Close(r, "ok")
    /\ UNCHANGED <<store, busy, run, faults>>

\* A fault to compare AnchorFailure with: the job ends well without an error event.
SwallowFailure(r) ==
    /\ job[r] = "running"
    /\ run[attempt[r]].pc = "raised"
    /\ Close(r, "error")
    /\ UNCHANGED <<store, busy, run, faults>>

\* except Exception: an anchored error event, and the job counts as done.
AnchorFailure(r) ==
    /\ job[r] = "running"
    /\ run[attempt[r]].pc = "raised"
    /\ errorEvent' = [errorEvent EXCEPT ![r] = TRUE]
    /\ Close(r, "error")
    /\ UNCHANGED <<status, rows, hitl, verdict, landed, busy, run, faults>>

\* Emitting that event raises in its turn, committed or not: the exception leaves
\* pipeline_job.
AnchorRaises(r) ==
    /\ job[r] = "running"
    /\ run[attempt[r]].pc = "raised"
    /\ errorEvent' \in {errorEvent, [errorEvent EXCEPT ![r] = TRUE]}
    /\ Close(r, "raised")
    /\ UNCHANGED <<status, rows, hitl, verdict, landed, busy, run, faults>>

\* A fault to compare JobTimesOut with: a job that timed out is executed again.
TimeoutRetried(r) ==
    /\ job[r] = "running"
    /\ GoesWrong("timeout", MaxTimeouts)
    /\ job' = [job EXCEPT ![r] = "queued"]
    /\ attempt' = [attempt EXCEPT ![r] = NoRun]
    /\ run' = [run EXCEPT ![attempt[r]].pc = IF @ = "submitted" THEN "cancelled" ELSE @]
    /\ UNCHANGED <<store, busy, tries, result>>

\* job_timeout cancels the coroutine.  CancelledError is no Exception: no event.
\* A submitted call is cancelled with it; a started thread runs on.
JobTimesOut(r) ==
    /\ job[r] = "running"
    /\ GoesWrong("timeout", MaxTimeouts)
    /\ Close(r, "timeout")
    /\ run' = [run EXCEPT ![attempt[r]].pc = IF @ = "submitted" THEN "cancelled" ELSE @]
    /\ UNCHANGED <<store, busy>>

\* What is left of a run that ended: its local variables are gone (its findings are
\* kept, for the properties to compare the rows with).
Remains(t, location) ==
    [IdleRun EXCEPT !.pc = location, !.review = run[t].review, !.origin = run[t].origin,
                    !.findings = run[t].findings]

KillRunsOf(process) ==
    run' = [t \in Runs |-> IF run[t].origin = process /\ Alive(t)
                           THEN Remains(t, "killed") ELSE run[t]]
RunningOn(w) == {r \in Reviews : job[r] = "running" /\ run[attempt[r]].origin = w}

\* A worker process dies with its threads; its running jobs are executed again.
\* (Abruptly: that arq, told to stop, cancels and requeues its jobs while a thread may
\* still run until the process exits is not modelled. With the one worker process that
\* docker-compose starts, nobody takes the job before the thread is gone.)
WorkerCrash(w) ==
    /\ GoesWrong("crash", MaxCrashes)
    /\ \E t \in Runs : run[t].origin = w
    /\ KillRunsOf(w)
    /\ job' = [r \in Reviews |-> IF r \in RunningOn(w) THEN "queued" ELSE job[r]]
    /\ attempt' = [r \in Reviews |-> IF r \in RunningOn(w) THEN NoRun ELSE attempt[r]]
    /\ UNCHANGED <<store, busy, tries, result>>
-----------------------------------------------------------------------------
(* POST /reviews/{id}/run: any review that has a row, in any status. *)

\* A fault to compare ManualRun with: no check that the review exists.
ManualRunUnchecked(s, r, t) ==
    /\ ~busy[s]
    /\ run[t].pc = "idle"
    /\ busy' = [busy EXCEPT ![s] = TRUE]
    /\ Begin(t, r, s, "graph")
    /\ UNCHANGED <<store, jobVars, faults>>

ManualRun(s, r, t) ==
    /\ status[r] # "none"
    /\ ~busy[s]
    /\ run[t].pc = "idle"
    /\ busy' = [busy EXCEPT ![s] = TRUE]
    /\ Begin(t, r, s, "graph")
    /\ UNCHANGED <<store, jobVars, faults>>

\* The API process dies with the manual run it is executing.
ApiCrash(s) ==
    /\ GoesWrong("crash", MaxCrashes)
    /\ \E t \in Runs : run[t].origin = s /\ Alive(t)
    /\ KillRunsOf(s)
    /\ busy' = [busy EXCEPT ![s] = FALSE]
    /\ UNCHANGED <<store, jobVars>>

\* The last step of a run: a manual one gives its event loop back.
Leave(t, location) ==
    /\ run' = [run EXCEPT ![t] = Remains(t, location)]
    /\ busy' = IF Manual(t) THEN [busy EXCEPT ![run[t].origin] = FALSE] ELSE busy
-----------------------------------------------------------------------------
(* run_review_pipeline *)

ThreadsOf(w) == {t \in Runs : run[t].origin = w /\ run[t].pc \in InThread}

StartThread(t) ==
    /\ run[t].pc = "submitted"
    /\ Cardinality(ThreadsOf(run[t].origin)) < PoolThreads
    /\ run' = [run EXCEPT ![t].pc = "graph"]
    /\ UNCHANGED <<store, jobVars, busy, faults>>

\* decide, with the confidence computation reduced to its outcome (FindingGate
\* has it in full).
Route(findings, errors, confident) ==
    IF findings = <<>> THEN IF errors THEN "approval_queue" ELSE "auto_post"
    ELSE IF \E i \in DOMAIN findings : findings[i] = "CRITICAL" THEN "escalate"
    ELSE IF confident THEN "auto_post" ELSE "approval_queue"

\* graph.invoke: what the agents find differs from run to run.
CompleteGraph(t) ==
    /\ run[t].pc = "graph"
    /\ \E findings \in FindingLists, errors, confident \in BOOLEAN :
         LET decision == Route(findings, errors, confident)
         IN  run' = [run EXCEPT ![t] =
                 [@ EXCEPT !.findings = findings, !.errors = errors, !.decision = decision,
                           !.pc = IF decision = "auto_post" /\ PostsToGitHub
                                  THEN "post" ELSE "persist"]]
    /\ UNCHANGED <<store, jobVars, busy, faults>>

PostReview(t) ==
    /\ run[t].pc = "post"
    /\ landed' = landed \cup {t}
    /\ run' = [run EXCEPT ![t] = [@ EXCEPT !.posted = TRUE, !.pc = "persist"]]
    /\ UNCHANGED <<status, errorEvent, rows, hitl, verdict, jobVars, busy, faults>>

\* A fault to compare PostFails with: a failed POST counts as done.
PostAssumedDone(t) ==
    /\ run[t].pc = "post"
    /\ run' = [run EXCEPT ![t] = [@ EXCEPT !.posted = TRUE, !.pc = "persist"]]
    /\ UNCHANGED <<store, jobVars, busy, faults>>

\* PrReviewError, whether or not GitHub took the review: to the approval queue.
PostFails(t) ==
    /\ run[t].pc = "post"
    /\ landed' \in {landed, landed \cup {t}}
    /\ run' = [run EXCEPT ![t] = [@ EXCEPT !.decision = "approval_queue", !.pc = "persist"]]
    /\ UNCHANGED <<status, errorEvent, rows, hitl, verdict, jobVars, busy, faults>>

InsertFinding(t) ==
    /\ run[t].pc = "persist"
    /\ run[t].next <= Len(run[t].findings)
    /\ rows' = rows \cup {<<t, run[t].next>>}
    /\ run' = [run EXCEPT ![t].next = @ + 1]
    /\ UNCHANGED <<status, errorEvent, hitl, verdict, landed, jobVars, busy, faults>>

StatusOf(t) ==
    CASE run[t].decision = "auto_post" -> IF run[t].posted THEN "posted" ELSE "completed"
      [] run[t].decision = "approval_queue" -> "queued"
      [] OTHER -> "escalated"

\* A fault to compare UpdateStatus with: the status is written before the findings.
UpdateStatusFirst(t) ==
    /\ run[t].pc = "persist"
    /\ status' = [status EXCEPT ![run[t].review] = StatusOf(t)]
    /\ run' = [run EXCEPT ![t].pc = IF run[t].decision = "auto_post" THEN "verdict" ELSE "hitl"]
    /\ UNCHANGED <<errorEvent, rows, hitl, verdict, landed, jobVars, busy, faults>>

UpdateStatus(t) ==
    /\ run[t].pc = "persist"
    /\ run[t].next > Len(run[t].findings)
    /\ status' = [status EXCEPT ![run[t].review] = StatusOf(t)]
    /\ run' = [run EXCEPT ![t].pc = IF run[t].decision = "auto_post" THEN "verdict" ELSE "hitl"]
    /\ UNCHANGED <<errorEvent, rows, hitl, verdict, landed, jobVars, busy, faults>>

ReasonOf(t) ==
    IF run[t].decision = "escalate" THEN "critical_finding"
    ELSE IF run[t].errors THEN "agent_failure" ELSE "low_confidence"

\* A fault to compare EnqueueHitl with: agent failures do not reach the human queue.
SkipHitlOnAgentFailure(t) ==
    /\ run[t].pc = "hitl"
    /\ hitl' = IF run[t].errors THEN hitl ELSE [hitl EXCEPT ![t] = ReasonOf(t)]
    /\ run' = [run EXCEPT ![t].pc = "verdict"]
    /\ UNCHANGED <<status, errorEvent, rows, verdict, landed, jobVars, busy, faults>>

EnqueueHitl(t) ==
    /\ run[t].pc = "hitl"
    /\ hitl' = [hitl EXCEPT ![t] = ReasonOf(t)]
    /\ run' = [run EXCEPT ![t].pc = "verdict"]
    /\ UNCHANGED <<status, errorEvent, rows, verdict, landed, jobVars, busy, faults>>

EmitDecision(t) ==
    /\ run[t].pc = "verdict"
    /\ verdict' = [verdict EXCEPT ![t] = run[t].decision]
    /\ Leave(t, "returned")
    /\ UNCHANGED <<status, errorEvent, rows, hitl, landed, jobVars, faults>>

\* The graph raises outside the agents' own try, or a statement of the persist stage
\* (or the event after a failed post) does. In a worker the exception reaches the coroutine; a manual run answers 500.
\* A statement may raise after it was committed: for all but the last one that
\* comes to the same as the next statement failing.
StatementFails(t) ==
    /\ run[t].pc \in InThread
    /\ GoesWrong("statement", MaxFaults)
    /\ landed' \in IF run[t].pc = "post" THEN {landed, landed \cup {t}} ELSE {landed}
    /\ verdict' \in IF run[t].pc = "verdict"
                    THEN {verdict, [verdict EXCEPT ![t] = run[t].decision]} ELSE {verdict}
    /\ Leave(t, "raised")
    /\ UNCHANGED <<status, errorEvent, rows, hitl, jobVars>>
-----------------------------------------------------------------------------
RunStep(t) ==
    \/ StartThread(t) \/ CompleteGraph(t) \/ PostReview(t) \/ PostFails(t)
    \/ InsertFinding(t) \/ UpdateStatus(t) \/ EnqueueHitl(t) \/ EmitDecision(t)
    \/ StatementFails(t)

CoroutineStep(r) == JobExhausted(r) \/ JobReturns(r) \/ AnchorFailure(r) \/ AnchorRaises(r)

Next ==
    \/ \E w \in Workers, r \in Reviews, t \in JobRuns : TakeJob(w, r, t)
    \/ \E r \in Reviews : CoroutineStep(r) \/ JobTimesOut(r)
    \/ \E w \in Workers : WorkerCrash(w)
    \/ \E s \in Servers, r \in Reviews, t \in ManualRuns : ManualRun(s, r, t)
    \/ \E s \in Servers : ApiCrash(s)
    \/ \E t \in Runs : RunStep(t)

Spec == Init /\ [][Next]_vars
-----------------------------------------------------------------------------
(* Properties. *)

\* A decision event is the last word of a run: everything it announces (all the
\* findings, the status, the HITL row of a gated review) is already durable.
VerdictIsBacked ==
    \A t \in Runs : verdict[t] # "none" =>
        /\ \A i \in 1..Len(run[t].findings) : <<t, i>> \in rows
        /\ status[run[t].review] \notin {"none", "pending"}
        /\ verdict[t] \in {"approval_queue", "escalate"} => hitl[t] # "none"

\* A gated review has a row in the human queue, unless the run that would insert
\* it is about to, or was interrupted between its two statements.
GatedReviewIsQueued ==
    \A r \in Reviews : status[r] \in {"queued", "escalated"} =>
        \E t \in Runs : /\ run[t].review = r
                        /\ \/ hitl[t] # "none"
                           \/ run[t].pc \in {"hitl", "raised", "killed"}

\* However often a job is taken again, its review is never in the hands of two
\* worker runs at a time, not even after a timeout has left a thread behind. Workers
\* may die; one that is told to stop while another goes on is not considered.
OneWorkerRunPerReview ==
    \A t, u \in Runs :
        /\ Alive(t) /\ Alive(u)
        /\ {run[t].origin, run[u].origin} \subseteq Workers
        /\ run[t].review = run[u].review
        => t = u

\* A job that ended says what became of its review: "ok" only after a run wrote its
\* verdict, "error" only with an error event anchored to the review.
JobResultIsTrue ==
    \A r \in Reviews :
        /\ result[r] = "ok" => \E t \in Runs : run[t].review = r /\ verdict[t] # "none"
        /\ result[r] = "error" => errorEvent[r]

\* A review is marked as posted only when a run's comment is on GitHub.
PostedIsOnGitHub ==
    \A r \in Reviews : status[r] = "posted" => \E t \in landed : run[t].review = r

\* What a job answers, and the queue of the reviewers, agree with the rows.
RunIsConsistent == TypeOK /\ GatedReviewIsQueued /\ JobResultIsTrue

\* The stage of RunLedger that a location belongs to.
StageOf(location) ==
    IF location \in {"submitted", "graph"} THEN "analyse"
    ELSE IF location \in {"post", "persist"} THEN "insert"
    ELSE IF location = "hitl" THEN "queue"
    ELSE IF location = "verdict" THEN "announce"
    ELSE IF location \in Ended THEN "ended"
    ELSE "idle"

\* To those who read the store, the runs are those of RunLedger: whatever starts, kills
\* or repeats them, each writes its rows in that order and none twice. A review whose row
\* is not there yet has not been settled either.
Ledger == INSTANCE RunLedger WITH
    status <- [r \in Reviews |-> IF status[r] = "none" THEN "pending" ELSE status[r]],
    review <- [t \in Runs |-> run[t].review],
    stage <- [t \in Runs |-> StageOf(run[t].pc)],
    size <- [t \in Runs |-> Len(run[t].findings)],
    hitl <- {t \in Runs : hitl[t] # "none"},
    announced <- {t \in Runs : verdict[t] # "none"}
ImplementsLedger == Ledger!LedgerSpec

\* A published job ends, with a result, however often its worker dies: it neither
\* waits for ever nor is executed again and again.
PublishedJobEnds == \A r \in Reviews : job[r] = "queued" ~> job[r] = "done"
=============================================================================
