# AI PR Review Agent: specifications, model checking and proofs

TLA+ modules for the review service under `src/` (FastAPI + arq + PostgreSQL +
LangGraph), the TLC configurations that check them, and proofs checked by TLAPS.
`PROJECT.json` is the index: components, runs, mutants, the source lines every
definition translates, hazards and theorems.

    tlc -workers 2 -config intake.cfg DeliveryIntake      # a run
    tlapm ReviewSystemProofs.tla                          # the proofs of a module

## 1. The system

| Component | State it keeps | Operations | Interacts with |
|---|---|---|---|
| Webhook ingress (`webhook_receiver/`, `reliability/idempotency.py`) | none of its own; inserts `pr_review_records` | `github_webhook`: screen, check, claim, enqueue, answer | GitHub (redelivers), PostgreSQL, Redis |
| Job queue and worker (`job_queue/arq_worker.py`) | arq jobs in Redis | `enqueue_review`, `pipeline_job`; arq times out, retries and drops jobs | PostgreSQL, review pipeline in executor threads |
| Review pipeline (`run_review_pipeline`) | `finding_records`, `hitl_reviews`, status, decision event | graph, post, persist, gate, event | orchestrator, GitHub client, store |
| Manual run (`main.py: run_review`) | none | the same pipeline, synchronously in an async handler | event loop of the API process |
| Orchestrator (`orchestrator/`) | `OrchestratorState` of one invocation | fan-out to four agents, join, `aggregate`, `decide` | specialist agents |
| Circuit breaker, retry, GitHub client (`reliability/`, `integrations/`) | breaker state and counters per client | `call`, `reset`, `retry_call`, `post_review`, `get_pr_diff` | GitHub |
| Agents and LLM client (`agents/`, `tools/llm_client.py`) | none | `review_with_events`, `complete` with retry | LLM, event spine, injection guard |
| Event spine (`observability/events.py`, `tracing.py`) | append-only `agent_events`; contextvar stack of spans | `emit_agent_event`, `emit_span` | everything |
| Human queue (`hitl/`, `api/hitl_router.py`) | `hitl_reviews.state`, dispute and feedback events | `enqueue`, `list_queued`, `approve`, `reject`, `dispute`, `feedback` | pipeline, dashboard |
| Tools (`tools/`) | catalog, threads, sandbox containers | `register`, `call` with scope check, timeout and sandboxed command | Docker, event spine |
| Economics (`economics/`) | none; sums over events | `check_budget`, `BudgetGuard`, routing advice | event spine |
| Ingestion, freshness (`data/`) | `code_chunks`, `repo_file_index` | `ingest_repo` | PostgreSQL, embedder, working tree |
| Retrieval (`memory/`) | none | `retrieve_hybrid`: two lanes, fusion | PostgreSQL, embedder, ingestion |
| Evaluation (`evaluation/`), prompts | golden files, prompt files | judge, regression gate, canary | agents, CI |
| Drift, audit (`observability/`) | read-only | `detect_drift`; `explain_finding` and `GET /reviews/{id}` in three SELECTs | event spine, store |
| Frontend, auth, CI scripts, stubs | none that changes | read-only pages, header checks, static checks | API |

What is hard here: several processes and threads share a database whose statements
each commit on their own (`get_connection()` is autocommit), so every pair of them can
be interleaved or cut by a crash; GitHub redelivers, arq executes a job again, POSTs
are repeated after answers that were only lost; a timeout cancels a coroutine and not
the thread it awaits; failure handlers can fail; the breaker has no lock; and a
floating-point score meets a threshold. `PROJECT.json` lists each hazard at its line.

What makes each part correct, in a sentence: ingress gives a delivery one review and
never acknowledges what is not durable; a job ends and its result is true; a decision
event is the last word of a run and is backed by rows; gated reviews reach the human
queue; merging neither loses nor invents findings; the breaker opens on evidence and
closes on evidence; `post_review` tells the truth; a tool runs in scope, in its sandbox
and in time, and its event says how it ended; a view of a review shows no verdict without
its grounds; the first human decision stands; the index never claims chunks that are not
there; a release passes on findings of its own; drift is flagged on evidence.

## 2. Modules

| Module | Models | Key correspondence |
|---|---|---|
| `ReviewStore` | what the parts share: `pr_review_records.status`, the arq jobs, the error events, the event loops, and their vocabulary | |
| `DeliveryLedger` | abstract specification of ingress: ownership, acknowledgement, publication | no code of its own |
| `DeliveryIntake` | `github_webhook`, `is_duplicate_delivery`, `claim_delivery`, `enqueue_review` | one action per stretch between two statements or awaits; `busy[s]` is the event loop of process `s` |
| `ReviewRuns` | `pipeline_job`, arq, `run_review`, `run_review_pipeline` | a *run* is one call of `run_review_pipeline`; `run[t].pc` is its next statement |
| `ReviewSystem` | both, over the variables of `ReviewStore` | a step of one part leaves the other's variables alone; crash of an API process hits its handlers and its manual run at once |
| `FindingGate` | `aggregate` and `decide` as pure operators | confidences in percent; scores multiplied by the number of entries; a finding is named by its position `<<result, index>>` |
| `Orchestrator` | one invocation of the graph | `returned[a]` is the agent's entry of `agent_results` |
| `CircuitBreaker` | the class, under several threads | methods cut where the thread can lose the interpreter: `time.monotonic()` and `fn` |
| `GitHubPosting` | `post_review` = breaker around `retry_call` around a POST | extends `CircuitBreaker`; `attempt[t]` counts the POSTs of a caller inside `retry_call` |
| `AgentCalls` | `run_agent` around `review_with_events`, `emit_span`, `sanitize_diff`, `LlmClient.complete`, for the agents of one review | `pc[a]` is where the thread of the agent stands; `trace[a]` its rows in `agent_events`; an INSERT that raises may have been committed |
| `RunLedger` | abstract specification of what runs leave in the store: findings, then status, then queue row, then decision event | the order of the statements of `run_review_pipeline`; `ReviewRuns` implements it |
| `Oversight` | those who read and decide meanwhile: `GET /reviews/{id}`, `explain_finding`, `list_queued`, `approve`, `reject` | extends `RunLedger`; one action per SELECT or UPDATE; `listed[h]` is a page a reviewer still looks at |
| `ToolCalls` | `ToolRegistry.call`, `check_capability`, `Sandbox.run` | `pc[c]` is the caller, `thread[c]` the pool's thread, `container[c]` the container: three actors of one call |
| `CodeIndex` | `ingest_repo`, `freshness.py` | one action per statement; `disturbed` is history: the files an interrupted or overlapping rewriting left behind |
| `ReleaseGate` | `score_findings`, the commands of `regression_gate.py` and `canary.py` | half points, so that all arithmetic is exact |
| `Retrieval` | `retrieve_hybrid` with an ingestion between its two statements | scores are fractions; a list is given by what is ahead of what in it, and `sorted` is stable |
| `DriftWatch` | `detect_drift`, `suggest_model` | a window is the sequence of its reviews; deltas in hundredths of a percent |
| `BudgetGuard` | `check_budget`, `BudgetGuard` under agents in parallel | `recorded` is the sum the guard reads, `owed` what is spent and not yet written |
| `GitHubPostingProofs` | theorems on `CircuitBreaker` and `GitHubPosting` | |
| `ReviewRunsProofs` | theorems on `ReviewRuns`, and that it implements `RunLedger` | |
| `ReviewSystemProofs` | theorems on `DeliveryIntake`, and on it and `ReviewRuns` together | |
| `AgentCallsProofs`, `ToolCallsProofs`, `OversightProofs`, `CodeIndexProofs` | theorems on the module each is named after | |
| `DecisionsProofs` | theorems on `BudgetGuard`, `Orchestrator`, `Retrieval`, `DriftWatch`, `ReleaseGate`, and the induction and sums they need | |
| `MCReviewRuns`, `MCReviewSystem`, `MCOrchestrator`, `MCCodeIndex` | symmetry sets and values for TLC | |
| `MCDecisions` | the deciding parts side by side, for one run: they share no state, so a behaviour runs one of them | |

`ReviewSystem` extends `DeliveryIntake` and `ReviewRuns` and composes their actions (hence
`IntakeInit`, `IntakeNext` and so on in the first); `GitHubPosting` extends
`CircuitBreaker` in the same way; `Orchestrator` extends `FindingGate`; `AgentCalls` implements the fan-out
of `Orchestrator`, so that what an agent is to the graph is shown and not assumed. `ReviewRuns` keeps of the gate
only the routing (`Route`), with the outcome of the confidence test chosen freely. `Oversight`
is built on `RunLedger` and not on `ReviewRuns`: readers rely on the order of the writes
alone, and `runs_safety` shows that the runs keep it.

External parts, modelled from how the code uses them: arq (at-least-once execution up
to its tries, timeout without retry), Redis, GitHub, the clock, process restarts by
`docker-compose.yml` and `run_worker.sh`.

Operators introduced as "a fault to compare ... with" are used by no action: each is the
way the named definition could be wrong, and `PROJECT.json` pairs it with the property it
breaks under the same run.

### How the modules represent the code

* An action is what runs between two points where another actor can come in: an
  autocommitted statement, an `await`, a thread switch. In the breaker the Python thread
  can only switch at calls (CPython 3.11), hence the cut of `_on_failure` at
  `time.monotonic()`.
* A request names the review id it would draw (`uuid4` never collides), so `status[r]` is
  the row claimed by request `r` and `"none"` is the absence of that row.
* Signatures, payloads, diffs and review bodies are abstracted to the outcome of examining
  them; findings keep what `aggregate` and `decide` look at.
* A statement may fail before it takes effect, and a claim also after (`ClaimUnacknowledged`);
  for the persist stage a commit whose answer is lost equals the next statement failing.

## 3. Runs

| Run | Question | Bounds |
|---|---|---|
| `intake` | Who owns a delivery, what do answers promise (`PromisesAreKept`), does every request end, is `DeliveryLedger` implemented? | 3 requests with one delivery (two racing, one later), 2 processes: a race needs two of each; crashes and Redis outages unbounded |
| `runs_safety` | What do rows, job result and GitHub say of each other; is `RunLedger` implemented? | 1 review, 2 job executions + 1 manual run, up to 1 finding, client passed; two of: up to 2 crashes (as many as arq tries), a timeout, a failed statement. Writing the error event may fail besides |
| `system_safety` | Is a delivery ever processed twice at once; do runs have a row; is the loop exclusive; is the ledger kept? | 2 requests, 2 API processes, 2 job runs + 1 manual run, 1 crash, 1 timeout |
| `system_live` | Does an accepted delivery lead to a decision, an error event or an exhausted job; does every request and every job end? | 1 delivery and 1 manual run, which holds the loop of its process meanwhile; 2 crashes (as many as arq tries), or 1 and 1 failed statement; writing the error event may fail besides; no timeout: with one the code gives no such promise (below) |
| `decisions` | Is merging faithful and routing sound; is a release verdict earned; is fusion sound; is drift flagged on evidence; how far can the budget be overspent? | the gate: 2 of the 4 agents, 2 places, 2 severities, confidences 60, 79, 80, 90 (far below, within a boost of, at and above the threshold), up to 2 findings each; golden sets of 1 PR with any 2 expectations and of 2 PRs; up to 3 findings; 4 chunks, `top_k` 3, one re-ingested row; windows of up to 2 of 5 kinds of review, 20 % and 20.004 % apart; 3 agents, cap 4, 2 calls of up to 2 per block |
| `breaker` | Does the breaker open and close on evidence? | 3 threads, the client's threshold 3, 2 ticks |
| `posting` | Is the outcome of `post_review` true, does it end, does a dead GitHub open the breaker? | 3 callers, threshold 2, 2 attempts: failures of two exceed the threshold while a third is in flight |
| `agents` | Can the audit trail be trusted, does a hostile diff stay out of the LLM, does every agent return, once? | 2 of the 4 agents (they share only the process and the diff), the client's 3 attempts |
| `tools` | Does the event of a tool call tell its outcome, what is left at work, does every call return? | 2 calls, 2 tools and 3 agent types: in scope, out of scope, unknown; every failure, those nobody handles included, unbounded |
| `oversight` | What does a view made of three reads show, whose decision stands, is every entry decided? | 1 review, 2 runs of it, 1 reader (readers do not affect each other), 2 reviewers of whom one gives no name, a listing of 1 of 2 entries |
| `index` | Is what the index says what retrieval finds, and does the index catch up? | 2 files, contents of 1 and 2 chunks and one the embedder or the upsert refuses, 2 overlapping ingestions, 1 edit, 1 crash |
| `gate_critical_hidden` | expected to fail, see below | as the gate in `decisions` |

`Max` constants (`MaxTries`, `MaxCrashes`, `MaxTimeouts`, `MaxFaults`, `MaxMishaps`, `MaxFindings`, `MaxEdits`,
`MaxId`, `MaxBlocks`) and the sets of runs (`JobRuns`, `ManualRuns`) bound what would be
unbounded; the breaker's counters saturate at the value beyond which they make no
difference. Symmetry is used in safety runs only. `system_live` has one delivery only, because two and a
manual run are out of TLC's reach with liveness; the races of several are the matter of
`intake` and `system_safety`. `CHECK_DEADLOCK FALSE` marks the runs
where the bounded system comes to rest.

What some properties say is weaker than one would wish, because the code gives no more;
these are the places a change of the code should start from:

* `AcceptedIsResolved` (`system_live`) excepts exhausted jobs and jobs whose failure handler
  fails too. They, and jobs that timed out, leave their review pending with nothing to show
  for it.
* `LeftoverMeansTimeout` (`tools`): the thread and the container of a call may outlive it,
  but only if the caller was told of a timeout, of the event that could not be written, or, if
  it is a container, got an exception that nobody handles.
* `EventTellsOutcome` (`tools`): there is no event at all when the call raises what it has no
  handler for (`RunRaises`, `RemoveRaises`, `ToolExits`; see below), and when
  the INSERT of the `ok` event fails the caller is told of a failure although the tool ran.
* `BlockIsAVerdict` (`decisions`): a gate that cannot load its golden set, read the findings file
  or make findings of it ends in a traceback, with the same exit status 1 as a block.
* `PostedIsOnGitHub` and `OutcomeIsTrue`: only what is told to be posted is certain. A review that
  GitHub took and whose answer was lost is reported as failed and goes to the approval queue.
* `IndexIsTrue` (`index`) excepts files whose rewriting was interrupted or overlapped. Such a
  file that is changed back to the version of the stored hash is skipped from then on,
  with chunks missing or mixed, until it is changed to something else; `CatchesUp` speaks
  of the hash only, and of files that no refused file precedes.
* `OverspendIsBounded` (`decisions`): the daily cap is soft; the day's events and what is still
  to be written together pass it by up to what the blocks of all agents may cost. (No production code enters a `BudgetGuard`.)
* `GreedyIsAtLeastThird`: claims in order of report may find a third of the best score.

### Disagreements between code and documentation

One run is expected to fail; it checks one sentence of the repository.

* `gate_critical_hidden`: "Any CRITICAL finding → escalate" (`nodes.py:162`), but `aggregate`
  keeps the most confident finding of a place and a CRITICAL one can be merged away first.

Read off the code while modelling it, without a run of their own:

* A job that timed out "must be killed, not left running" (`arq_worker.py:125`), but cancelling
  `asyncio.to_thread` does not stop the thread; and it leaves no error event (`arq_worker.py:68`).
* "No double-post on retry" (`.genesis/PLAN.md:166`), but the POST is repeated after a lost answer.
* No caller passes a `github_client`, so an automatic approval ends as `completed`; a second
  run of an escalated review overwrites its status (`router.py:222`, against "any CRITICAL
  finding → always escalates to a human" in `SETUP.md:88`); status and queue row are separate
  transactions (hence the interruption clause of `GatedReviewIsQueued`).
* A failed agent next to a confident one still auto-posts (`nodes.py:172`); `timeout_seconds` of
  `run_agent` is never used (`nodes.py:48`); failed LLM attempts leave no event although "every
  span, LLM call" is said to be one.
* A half open breaker admits more than one probe (`circuit_breaker.py:54`).
* "BudgetGuard — hard-blocks LLM spend past the daily cap from continuous aggregates"
  (`README.md:14`): it has no production caller, reads the raw events, and the cap is soft. `retrieve_hybrid`, `suggest_model` and
  `approve`/`reject` have no production caller either.
* Each golden entry is said to be claimed "by the actual finding that scores highest against
  it" (`judge.py:8`); claims are made in order of report. The self-check that "must always
  pass" (`regression_gate.py:134`) fails for a golden PR without expectations, and an empty
  list of findings counts as none and is graded as the golden set itself (`:135`).
* "exit code is the gate verdict" (`regression_gate.py:101`), yet a golden set that
  `load_golden_dataset` refuses (`:115`), a findings file that cannot be read or is not UTF-8
  (`:123`, which catches a missing file and bad JSON only) and JSON of another shape end in a
  traceback with status 1, which also means "blocked". The canary turns all of that into 2.
* `ToolRegistry.call` promises a `ToolError` for a sandboxed failure (`tool_registry.py:92-94`),
  but `_run_sandboxed` catches `SandboxError` only (`:186`) and `Sandbox.run` turns none but
  `TimeoutExpired` into one (`sandbox.py:159`): output that is not UTF-8, even of a command
  that succeeded, a missing docker client, or a `docker rm` that times out leave the call
  with neither event nor `ToolError`; so does a tool that raises `SystemExit` (`:128`).
* `detect_drift` reports nothing when nothing ran (an outage), nor errors against a baseline
  without errors; a drift just past the threshold is shown rounded to it, so the advisor
  says there is none.
* The disputes "all" listing stops at 100 (`dispute.py:46`, `audit.py:49`), the "full" trail at 1000.

## 4. Fairness

* `DeliveryIntake`: weak fairness of each handler: the event loop resumes what is ready
  and every database and Redis call has a connection timeout. Nothing is assumed of Redis
  or of arrivals.
* `ReviewSystem`: that of ingress, and weak fairness of taking a job (workers restart for ever
  and poll), of a job's coroutine and of every run (threads are scheduled; HTTP calls have
  timeouts). None of crashes, timeouts, manual runs.
* `AgentCalls`: weak fairness of each agent: its thread is scheduled, and database and LLM
  clients have timeouts. Nothing of which outcome a call has.
* `CircuitBreaker`: weak fairness of callers and of time, for `RecoversWithDependency`, which
  also assumes the dependency back for good. `GitHubPosting` needs that of callers only.
* `ToolCalls`: weak fairness of callers, whose waits all have timeouts. None of tools and
  containers, which may hang for ever: that is what the timeouts are for.
* `Oversight`: weak fairness of listing and of deciding, for each reviewer: people go on
  working off the queue. Nothing of runs and readers.
* `CodeIndex`: weak fairness of each ingestion, which is run again and again. Nothing of edits
  and faults, which are bounded.

## 5. Proofs

All for any number of servers, requests, deliveries, threads, attempts and any threshold;
of reviews, workers, job and manual runs, agents, tool callers, findings, readers,
reviewers, files and ingestions; of reports, places and windows of any length.

* `ReviewRunsProofs`: `RunsInvariant`, the inductive invariant `IInv`, and from it
  `RunsConsistent`, `VerdictsBacked`, `OneWorkerRun` and `PostedIsTrue`. The properties alone
  are not inductive: `RunProgress` says of each run what it must have written where it
  stands, `JobProgress` that a job at work awaits the run of its attempt, and
  `LiveRunsAreAwaited` that a run on a worker that nobody awaits has been cut off or given
  up. `RunsImplementLedger`: `StageOf` maps a run to its stage of `RunLedger`; each
  statement is the write of that stage or a stutter (`LedgerSeesRunStep`), and a death, a
  timeout or a cancellation is `Abort` of the runs it ends (`LedgerSeesDeath`).
* `ReviewSystemProofs`, first about ingress alone: `TypeCorrect`, and an inductive invariant
  `IntakeInv`: a handler past the claim has its row, one before it has none, a job belongs
  to a handler past publication, loops and stages agree. From it follow `ClaimOnce`,
  `AckAfterClaim`, `QueueAfterClaim`, `NoSilentStranding` and `PromisesKept`, their
  conjunction, and, step by step, `HandlerImplementsLedger`: `Claim` maps to `Own`, an
  acknowledging answer to `Acknowledge`, `Publish` to `Enqueue`, everything else to a stutter.
  Then about ingress, worker and manual runs together. `SystemInv` is both invariants and
  three facts that neither part has alone: a job carries a row (`Carries`), a run has its
  record (`RunHasRecord`), and a loop is busy with one thing (`LoopsOK`). Each part is shown to
  disturb the other only in ways the other's invariant stands (`Offers` for what ingress
  may do to the store, `Respects` for what the runs may), so that the proofs of the parts
  are used and not repeated. `SystemConsistent`, `NotDoubleProcessed`, `SystemKeepsPromises`,
  `SystemBacksVerdicts` and `SystemKeepsOwnership` follow, and `SystemImplementsLedger`: a row
  that ingress has not inserted yet is to `RunLedger` a review that is pending, so ingress
  is a stutter there, and a process that dies with handler and run is one `Abort`.
* `GitHubPostingProofs`: of the breaker, `BreakerTypeCorrect`, `ThresholdHonoured`,
  `OpenNeedsProbe`. The second needs that a full failure count always has a thread in
  `_on_failure` behind it. Of posting, `PostingOutcome`, by the invariant `Progress`, which
  ties where a caller stands to the attempts it has used, and `DeadGitHub`: while no call
  succeeds the failure count is at least the number of callers that have failed, up to the
  threshold.
* `AgentCallsProofs`: `TypeCorrect`, `TraceSound`, `FindingsTraced`, `AuditTrailTrue`,
  `HostileDiffStays`, from `IInv`, which says for each location of an agent what its trace,
  its attempts and its result are there (`Standing`); and `AgentsImplementFanOut`: a return
  is `AgentReports` or `AgentFails`, everything else, a crash included, a stutter.
* `ToolCallsProofs`: `CallsSound` and `LeftoverTold`, with every exception that escapes a call
  among its outcomes. What thread and container may be doing
  follows from where the caller stands and from the registration it looked up (`Standing`);
  `EmitLeaves` says once how the event of a call and its answer go together (`Left`).
* `OversightProofs`: first, about `RunLedger` alone, `VerdictsBacked`: a review that is no longer
  pending has a run behind it that has passed its last finding, and such a run stays one
  (`Settles`). Then `ViewsSound`, `FindingsExplained` and `DecisionFinal`: runs only add to what
  a reader has seen (`Grows`), so a view holds from one SELECT to the next (`ViewHolds`).
  `RunsImplementLedger` carries this over to the runs of `ReviewRuns`, `SystemImplementsLedger`
  to the composed system.
* `CodeIndexProofs`: `IndexTrue`. The runs in the window of an undisturbed file have read the
  same content `v`; its chunks are all of `v`, and they are complete or contain what one of
  these runs has upserted (`InWork`). The run that deleted last is that one: it cannot leave
  before the chunks are complete. Without the second half, a run that overlaps another could
  store the hash of a file the other has just emptied.
* `DecisionsProofs`:
  `BudgetHolds`: what is owed or may still be is bounded by the blocks still open, each counted by the units
  its caller may yet spend.
  `MergeSound` and `FailureGoesToHuman`: a place is reported if and only if it is merged,
  its best finding is one of its group, and a failed agent leaves no finding.
  `RetrievalSound`: a lane is a finite total order, so a row stands at one place of it; with
  `top_k` at most the constant of the fusion, a row in both lanes outweighs any row in one.
  `SupportIsSafe`: the sums of the community modules are chosen element by element, so the
  module first proves that the order does not matter (`SumIsAdded`, `SumExchange`, by
  induction over the number of elements, the induction itself drawn from the least
  counterexample, `LeastNatural`). The echo is merged into the entry of its place and leaves
  all others alone (`EchoedMerge`): that entry keeps or raises its confidence and its
  agreement, so both sums grow, over the same number of entries and against the same
  threshold.
  `DriftSound`: the sums of a window repeated n times are n times its sums, by induction
  over the positions; so every metric of a repeated baseline is unmoved. The rounding of a
  delta can reach the threshold and never passes it, which is why the advisor may miss a
  drift just past it and never invents one.
  `JudgeSound`: what the judge claims finding by finding is itself an assignment
  (`GreedyAssigns`), hence no better than the best one. For the other direction, a finding
  of any assignment is worth no more than its own claim while its expectation is open, and
  no more than two once that is claimed; and no more expectations are claimed than points
  scored (`ThirdOfAny`). A perfect score is a claim of a like at every step; and as long as
  all claims so far are such, a finding has one left, because those alike are as many on
  both sides (`OneIsLeft`).
  `VerdictEarned`, tracebacks of the gate included: by `GateInv`, which says of every score so far which findings and
  expectations it compared (`OwnScore`), and of the canary that what it has gathered is one
  answer of each agent that has run, end to end (`FlattenMore`).

The assumptions are the named `ASSUME`s of the modules (constants are positive numbers, the
placeholder values are not members of the sets, files have an order), which TLC evaluates
on its runs.

Only model-checked:
* all liveness (`EveryRequestEnds`, `AcceptedIsResolved`, `PublishedJobEnds`,
  `RecoversWithDependency`, `EveryPostEnds`, `EveryAgentReturns`, `EveryCallReturns`,
  `EntryIsDecided`, `CatchesUp`): it rests on fairness and `ENABLED`, which the prover
  cannot do.

Every invariant of a passing run is a theorem.

## 6. Not modelled, and the plan

* The LangGraph adapter (`orchestrator/langgraph_engine.py`): another driver of the same node functions.
* `with_timeout`, `workflow_context`, the escalation helpers: no production caller. `retrieve_hybrid`,
  `suggest_model`, `approve`, `reject`, `BudgetGuard` and the tool registry have none either, but
  state or concurrency of their own, and are modelled as they are written.
* arq's orderly shutdown: on SIGTERM it cancels the coroutines and queues their jobs again while
  their threads run on until the process exits. `WorkerCrash` is abrupt. With the single worker
  of `docker-compose.yml` nobody takes such a job before the process is gone; with several, a
  run could overlap the remains of its predecessor, as it can after a timeout.
* `get_pr_diff`: the best-effort call of the worker before its run (`arq_worker.py:56-62`), and the
  effect of it on the breaker it shares with `post_review`.
* Signals, and an output stream that cannot be printed to.
* Disputes and feedback: single append-only events, to which nothing reacts.
* The read-only pages and the frontend, logging and alerting: output only.
* Authentication: a comparison of a header with a configured key.
* The prompt registry: reads files; a missing prompt is `RenderFails` of `AgentCalls`.
* Regular expressions of the injection guard and of masking, embeddings, full-text ranking
  and LLM content: free choices of the models.
* `check_deps.py`, `ci_check.py` and the empty stubs: no state.
* `cost_repository.py`, which only reads and has no caller, and the PostgreSQL retention and
  continuous aggregates behind it.

What could come next: the safety half of the liveness properties, that a handler, a run or a
call which has not ended always comes closer to its end by a step of its own and that no step
of another takes it back.
