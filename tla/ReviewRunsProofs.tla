-------------------------- MODULE ReviewRunsProofs --------------------------
(***************************************************************************)
(* Theorems about ReviewRuns, for any number of reviews, runs, workers and *)
(* API processes and any bound on findings, tries and mishaps: what the    *)
(* rows, the job results and GitHub say of each other, and the refinement  *)
(* of RunLedger.                                                           *)
(***************************************************************************)
EXTENDS ReviewRuns, SequenceTheorems, TLAPS

Gated == {"approval_queue", "escalate"}
Written(t) == \A i \in 1..Len(run[t].findings) : <<t, i>> \in rows
Settled(r) == status[r] \notin {"none", "pending"}

\* What the location of a run says of its variables and of the rows it has written.
RunOK(t) ==
    /\ run[t].pc = "idle" => run[t] = IdleRun
    /\ run[t].pc # "idle" => run[t].review \in Reviews /\ run[t].origin \in Workers \cup Servers
    /\ run[t].pc \in {"idle", "submitted", "graph", "post"}
          => run[t].next = 1 /\ \A i \in 1..MaxFindings : <<t, i>> \notin rows
    /\ run[t].pc = "persist"
          => /\ run[t].next <= Len(run[t].findings) + 1
             /\ \A i \in 1..MaxFindings : <<t, i>> \in rows <=> i < run[t].next
    /\ run[t].pc \in {"post", "persist", "hitl", "verdict"} => run[t].decision \in Decisions
    /\ run[t].pc \in {"hitl", "verdict"} => Written(t) /\ Settled(run[t].review)
    /\ run[t].pc = "hitl" => run[t].decision \in Gated
    /\ run[t].pc = "verdict" /\ run[t].decision \in Gated => hitl[t] # "none"
    /\ run[t].pc = "returned" => verdict[t] # "none"
    /\ run[t].posted => t \in landed
    /\ t \in landed => run[t].pc # "idle"
    /\ hitl[t] # "none" => run[t].pc \in {"verdict"} \cup Ended
    /\ verdict[t] # "none" => /\ run[t].pc \in Ended
                              /\ Written(t) /\ Settled(run[t].review)
                              /\ verdict[t] \in Gated => hitl[t] # "none"

RunProgress == \A t \in Runs : RunOK(t)

\* The coroutine of a running job awaits a run of its review in a worker, which has
\* neither been killed nor cancelled.
Awaits(r, t) ==
    /\ t \in JobRuns
    /\ run[t].review = r
    /\ run[t].origin \in Workers
    /\ Alive(t) \/ run[t].pc \in {"returned", "raised"}

JobProgress == \A r \in Reviews : job[r] = "running" => Awaits(r, attempt[r])

\* A live run of a worker is awaited by the job of its review, or outlived it.
LiveRunsAreAwaited ==
    \A t \in Runs :
        Alive(t) /\ run[t].origin \in Workers
            => \/ job[run[t].review] = "done"
               \/ job[run[t].review] = "running" /\ attempt[run[t].review] = t

\* The inductive invariant of the runs.
IInv ==
    /\ TypeOK
    /\ RunProgress
    /\ JobProgress
    /\ LiveRunsAreAwaited
    /\ OneWorkerRunPerReview
    /\ GatedReviewIsQueued
    /\ JobResultIsTrue
    /\ PostedIsOnGitHub
-----------------------------------------------------------------------------
\* The bounds of the model are numbers.
LEMMA Bounds ==
    MaxFindings \in Nat /\ MaxCrashes \in Nat /\ MaxTimeouts \in Nat /\ MaxFaults \in Nat
BY RunsAssumption

\* What a list of findings is as a sequence.
LEMMA FindingListsAreSequences ==
    ASSUME NEW findings \in FindingLists
    PROVE  /\ Len(findings) \in 0..MaxFindings
           /\ DOMAIN findings = 1..Len(findings)
<1>1. PICK n \in 0..MaxFindings : findings \in [1..n -> Severities]
  BY DEF FindingLists
<1>2. findings \in Seq(Severities)
  BY <1>1, SeqDef, RunsAssumption
<1>3. Len(findings) \in Nat /\ DOMAIN findings = 1..Len(findings)
  BY <1>2, LenProperties
<1>4. 1..Len(findings) = 1..n
  BY <1>1, <1>3
<1>5. Len(findings) = n
  <2>1. n \in Nat
    BY Bounds
  <2>2. \A i \in Nat : i \in 1..Len(findings) <=> i \in 1..n
    BY <1>4
  <2>3. n <= Len(findings) /\ Len(findings) <= n
    BY <1>3, <2>1, <2>2
  <2>4. Len(findings) \in Nat
    BY <1>3
  <2> QED
    BY <2>1, <2>3, <2>4
<1> QED
  BY <1>3, <1>5

\* A run that has not begun is a run.
LEMMA InitialRun == IdleRun \in RunRecord
<1>1. <<>> \in [1..0 -> Severities]
  OBVIOUS
<1>2. <<>> \in FindingLists
  BY <1>1, RunsAssumption DEF FindingLists
<1> QED
  BY <1>2, RunsAssumption DEF IdleRun, RunRecord, RunStates

\* A run that only moves is still a run.
LEMMA MoveType ==
    ASSUME NEW c \in RunRecord, NEW location \in RunStates
    PROVE  [c EXCEPT !.pc = location] \in RunRecord
BY DEF RunRecord

\* What is left of a run is a run.
LEMMA RemainsType ==
    ASSUME TypeOK, NEW t \in Runs, NEW location \in RunStates
    PROVE  Remains(t, location) \in RunRecord
BY InitialRun DEF TypeOK, Remains, RunRecord, IdleRun

\* The steps of the job and of its coroutine keep the types.
LEMMA CoroutineType ==
    ASSUME TypeOK, NEW r \in Reviews, CoroutineStep(r) \/ JobTimesOut(r)
    PROVE  TypeOK'
<1> USE RunsAssumption DEF TypeOK, Results, JobStates, Close, store, jobVars
<1>1. CASE JobExhausted(r)
  BY <1>1 DEF JobExhausted
<1>2. CASE JobReturns(r)
  BY <1>2 DEF JobReturns
<1>3. CASE AnchorFailure(r)
  BY <1>3 DEF AnchorFailure
<1>4. CASE AnchorRaises(r)
  BY <1>4 DEF AnchorRaises
<1>5. CASE JobTimesOut(r)
  <2>1. \A t \in Runs : [run[t] EXCEPT !.pc = IF @ = "submitted" THEN "cancelled" ELSE @]
                           \in RunRecord
    <3> TAKE t \in Runs
    <3>1. run[t] \in RunRecord
      OBVIOUS
    <3>2. (IF run[t].pc = "submitted" THEN "cancelled" ELSE run[t].pc) \in RunStates
      BY <3>1 DEF RunRecord, RunStates, Ended
    <3> QED
      BY <3>1, <3>2, MoveType
  <2>2. /\ run' = [run EXCEPT ![attempt[r]] =
                      [run[attempt[r]] EXCEPT !.pc = IF @ = "submitted" THEN "cancelled" ELSE @]]
        /\ run \in [Runs -> RunRecord]
    BY <1>5 DEF JobTimesOut
  <2> HIDE DEF TypeOK
  <2>3. run' \in [Runs -> RunRecord]
    BY <2>1, <2>2
  <2> QED
    BY <1>5, <2>3 DEF TypeOK, JobTimesOut, GoesWrong
<1> QED
  BY <1>1, <1>2, <1>3, <1>4, <1>5 DEF CoroutineStep

\* The steps that start a run keep the types.
LEMMA StartType ==
    ASSUME TypeOK, NEW r \in Reviews, NEW t \in Runs,
           \/ \E w \in Workers : TakeJob(w, r, t)
           \/ \E s \in Servers : ManualRun(s, r, t)
    PROVE  TypeOK'
<1> USE RunsAssumption DEF TypeOK, JobStates, store, jobVars
<1>1. ASSUME NEW p \in Workers \cup Servers, NEW location \in RunStates, Begin(t, r, p, location)
      PROVE  run' \in [Runs -> RunRecord]
  BY <1>1, InitialRun DEF Begin, RunRecord, IdleRun
<1>2. ASSUME NEW w \in Workers, TakeJob(w, r, t) PROVE TypeOK'
  <2>1. run' \in [Runs -> RunRecord]
    BY <1>1, <1>2 DEF TakeJob, RunStates
  <2> QED
    BY <1>2, <2>1 DEF TakeJob
<1>3. ASSUME NEW s \in Servers, ManualRun(s, r, t) PROVE TypeOK'
  <2>1. run' \in [Runs -> RunRecord]
    BY <1>1, <1>3 DEF ManualRun, RunStates, InThread
  <2> QED
    BY <1>3, <2>1 DEF ManualRun
<1> QED
  BY <1>2, <1>3

\* A process dies with its runs.
LEMMA KillType == ASSUME TypeOK, NEW p, KillRunsOf(p) PROVE run' \in [Runs -> RunRecord]
BY RemainsType DEF TypeOK, KillRunsOf, RunStates, Ended

\* The death of a process keeps the types.
LEMMA CrashType ==
    ASSUME TypeOK, \/ \E w \in Workers : WorkerCrash(w)
                   \/ \E s \in Servers : ApiCrash(s)
    PROVE  TypeOK'
<1> USE RunsAssumption DEF TypeOK, GoesWrong, store, jobVars
<1>1. ASSUME NEW w \in Workers, WorkerCrash(w) PROVE TypeOK'
  BY <1>1, KillType DEF WorkerCrash, JobStates
<1>2. ASSUME NEW s \in Servers, ApiCrash(s) PROVE TypeOK'
  BY <1>2, KillType DEF ApiCrash
<1> QED
  BY <1>1, <1>2

\* The steps of a run keep the types.
LEMMA RunType == ASSUME TypeOK, NEW t \in Runs, RunStep(t) PROVE TypeOK'
<1> USE RunsAssumption DEF TypeOK, store, jobVars
<1>1. ASSUME NEW location \in RunStates, Leave(t, location)
      PROVE  run' \in [Runs -> RunRecord] /\ busy' \in [Servers -> BOOLEAN]
  BY <1>1, RemainsType DEF Leave
<1>2. run[t] \in RunRecord /\ Len(run[t].findings) \in 0..MaxFindings
  BY FindingListsAreSequences DEF RunRecord
<1>3. ASSUME NEW c \in RunRecord, run' = [run EXCEPT ![t] = c] PROVE run' \in [Runs -> RunRecord]
  BY <1>3
<1>4. CASE StartThread(t)
  <2>1. [run[t] EXCEPT !.pc = "graph"] \in RunRecord
    BY <1>2, MoveType DEF RunStates, InThread
  <2> QED
    BY <1>4, <1>3, <2>1 DEF StartThread
<1>5. CASE CompleteGraph(t)
  <2>1. PICK findings \in FindingLists, errors \in BOOLEAN, confident \in BOOLEAN :
          run' = [run EXCEPT ![t] =
                 [@ EXCEPT !.findings = findings, !.errors = errors,
                           !.decision = Route(findings, errors, confident),
                           !.pc = IF Route(findings, errors, confident) = "auto_post" /\ PostsToGitHub
                                  THEN "post" ELSE "persist"]]
    BY <1>5 DEF CompleteGraph
  <2>2. Route(findings, errors, confident) \in Decisions
    BY DEF Route, Decisions
  <2>3. ASSUME NEW decision \in Decisions, NEW location \in {"post", "persist"}
        PROVE  [run[t] EXCEPT !.findings = findings, !.errors = errors,
                              !.decision = decision, !.pc = location] \in RunRecord
    BY <1>2 DEF RunRecord, RunStates, InThread
  <2> QED
    BY <1>5, <1>3, <2>1, <2>2, <2>3 DEF CompleteGraph
<1>6. CASE PostReview(t)
  <2>1. [run[t] EXCEPT !.posted = TRUE, !.pc = "persist"] \in RunRecord
    BY <1>2 DEF RunRecord, RunStates, InThread
  <2> QED
    BY <1>6, <1>3, <2>1 DEF PostReview
<1>7. CASE PostFails(t)
  <2>1. [run[t] EXCEPT !.decision = "approval_queue", !.pc = "persist"] \in RunRecord
    BY <1>2 DEF RunRecord, RunStates, InThread, Decisions
  <2> QED
    BY <1>7, <1>3, <2>1 DEF PostFails
<1>8. CASE InsertFinding(t)
  <2>1. run[t].next \in 1..MaxFindings
    BY <1>2, <1>8, Bounds DEF InsertFinding, RunRecord
  <2>2. run[t].next + 1 \in 1..(MaxFindings + 1)
    BY <2>1, Bounds
  <2>3. [run[t] EXCEPT !.next = @ + 1] \in RunRecord
    BY <1>2, <2>2 DEF RunRecord
  <2>4. run' \in [Runs -> RunRecord]
    BY <1>8, <1>3, <2>3 DEF InsertFinding
  <2>5. <<t, run[t].next>> \in Runs \X (1..MaxFindings)
    BY <2>1
  <2> QED
    BY <1>8, <2>4, <2>5 DEF InsertFinding
<1>9. CASE UpdateStatus(t)
  <2>1. StatusOf(t) \in Statuses
    BY DEF StatusOf, Statuses
  <2>2. \A location \in {"hitl", "verdict"} : [run[t] EXCEPT !.pc = location] \in RunRecord
    BY <1>2, MoveType DEF RunStates, InThread
  <2> QED
    BY <1>9, <1>3, <2>1, <2>2 DEF UpdateStatus
<1>10. CASE EnqueueHitl(t)
  <2>1. ReasonOf(t) \in Reasons
    BY DEF ReasonOf, Reasons
  <2>2. [run[t] EXCEPT !.pc = "verdict"] \in RunRecord
    BY <1>2, MoveType DEF RunStates, InThread
  <2> QED
    BY <1>10, <1>3, <2>1, <2>2 DEF EnqueueHitl
<1>11. CASE EmitDecision(t)
  <2>1. run[t].decision \in Decisions \cup {"none"}
    BY <1>2 DEF RunRecord
  <2>2. "returned" \in RunStates
    BY DEF RunStates, Ended
  <2> QED
    BY <1>1, <1>11, <2>1, <2>2 DEF EmitDecision
<1>12. CASE StatementFails(t)
  <2>1. run[t].decision \in Decisions \cup {"none"}
    BY <1>2 DEF RunRecord
  <2>2. "raised" \in RunStates
    BY DEF RunStates, Ended
  <2>3. faults' \in [crash : 0..MaxCrashes, timeout : 0..MaxTimeouts, statement : 0..MaxFaults]
    BY <1>12, Bounds DEF StatementFails, GoesWrong
  <2>4. landed' \subseteq Runs /\ verdict' \in [Runs -> Decisions \cup {"none"}]
    BY <1>12, <2>1 DEF StatementFails
  <2> QED
    BY <1>1, <1>12, <2>2, <2>3, <2>4 DEF StatementFails
<1> QED
  BY <1>4, <1>5, <1>6, <1>7, <1>8, <1>9, <1>10, <1>11, <1>12 DEF RunStep
-----------------------------------------------------------------------------
(* The runs. *)

\* A run is undisturbed by a step that leaves it and its rows alone.
LEMMA Undisturbed ==
    ASSUME NEW u \in Runs, RunOK(u),
           run'[u] = run[u], hitl'[u] = hitl[u], verdict'[u] = verdict[u],
           u \in landed' <=> u \in landed,
           \A i \in 1..MaxFindings : <<u, i>> \in rows' <=> <<u, i>> \in rows,
           \A i \in 1..Len(run[u].findings) : <<u, i>> \in rows => <<u, i>> \in rows',
           \A r \in Reviews : Settled(r) => Settled(r)'
    PROVE  RunOK(u)'
BY DEF RunOK, Written, Ended

\* A run may end anywhere.
LEMMA MayEnd ==
    ASSUME TypeOK, NEW u \in Runs, RunOK(u), Alive(u), NEW location \in {"raised", "killed"},
           run'[u] = Remains(u, location), UNCHANGED <<hitl, verdict, rows, status>>,
           landed \subseteq landed'
    PROVE  RunOK(u)'
BY DEF RunOK, Written, Ended, Remains, IdleRun, Settled, Alive, InThread

\* What a step of run t does to the other runs, and to what everybody sees of it.
RunFrame(t) ==
    /\ \A u \in Runs \ {t} :
          /\ run'[u] = run[u] /\ hitl'[u] = hitl[u] /\ verdict'[u] = verdict[u]
          /\ u \in landed' <=> u \in landed
          /\ \A i : <<u, i>> \in rows' <=> <<u, i>> \in rows
    /\ run'[t].review = run[t].review /\ run'[t].origin = run[t].origin
    /\ Alive(t) /\ run'[t].pc \in InThread \cup {"returned", "raised"}
    /\ rows \subseteq rows' /\ landed \subseteq landed'
    /\ hitl[t] # "none" => hitl'[t] # "none"
    /\ \A r \in Reviews : Settled(r) => Settled(r)'
    /\ UNCHANGED <<job, attempt, result, tries, errorEvent>>

\* Every step of a run stays within that frame.
LEMMA RunStepFrame == ASSUME TypeOK, NEW t \in Runs, RunOK(t), RunStep(t) PROVE RunFrame(t)
<1> USE DEF RunFrame, Alive, InThread, Settled, store, jobVars
<1>1. run \in [Runs -> RunRecord] /\ verdict \in [Runs -> Decisions \cup {"none"}]
      /\ hitl \in [Runs -> Reasons \cup {"none"}] /\ status \in [Reviews -> Statuses]
  BY DEF TypeOK
<1>2. CASE StartThread(t)
  BY <1>1, <1>2 DEF StartThread
<1>3. CASE CompleteGraph(t)
  BY <1>1, <1>3 DEF CompleteGraph
<1>4. CASE PostReview(t)
  BY <1>1, <1>4 DEF PostReview
<1>5. CASE PostFails(t)
  BY <1>1, <1>5 DEF PostFails
<1>6. CASE InsertFinding(t)
  BY <1>1, <1>6 DEF InsertFinding
<1>7. CASE UpdateStatus(t)
  <2>1. StatusOf(t) \notin {"none", "pending"}
    BY DEF StatusOf
  <2> QED
    BY <1>1, <1>7, <2>1 DEF UpdateStatus
<1>8. CASE EnqueueHitl(t)
  <2>1. ReasonOf(t) # "none"
    BY DEF ReasonOf
  <2> QED
    BY <1>1, <1>8, <2>1 DEF EnqueueHitl
<1>9. CASE EmitDecision(t)
  BY <1>1, <1>9 DEF EmitDecision, Leave, Remains, IdleRun
<1>10. CASE StatementFails(t)
  BY <1>1, <1>10 DEF StatementFails, Leave, Remains, IdleRun
<1> QED
  BY <1>2, <1>3, <1>4, <1>6, <1>7, <1>8, <1>9, <1>10, <1>5 DEF RunStep

\* Each step of a run leaves it where its rows say it is.
LEMMA RunStepOK == ASSUME TypeOK, NEW t \in Runs, RunOK(t), RunStep(t) PROVE RunOK(t)'
<1> DEFINE c == run[t]
<1> USE DEF Settled, Written, store, jobVars
<1>1. /\ run \in [Runs -> RunRecord] /\ verdict \in [Runs -> Decisions \cup {"none"}]
      /\ hitl \in [Runs -> Reasons \cup {"none"}] /\ status \in [Reviews -> Statuses]
      /\ Len(c.findings) \in 0..MaxFindings /\ c.next \in Nat
  BY FindingListsAreSequences, Bounds DEF TypeOK, RunRecord
<1>2. CASE StartThread(t)
  BY <1>1, <1>2 DEF StartThread, RunOK, Ended
<1>3. CASE CompleteGraph(t)
  <2>1. PICK findings \in FindingLists, errors \in BOOLEAN, confident \in BOOLEAN :
          run' = [run EXCEPT ![t] =
                 [@ EXCEPT !.findings = findings, !.errors = errors,
                           !.decision = Route(findings, errors, confident),
                           !.pc = IF Route(findings, errors, confident) = "auto_post" /\ PostsToGitHub
                                  THEN "post" ELSE "persist"]]
    BY <1>3 DEF CompleteGraph
  <2>2. Route(findings, errors, confident) \in Decisions
    BY DEF Route, Decisions
  <2>3. Len(findings) \in 0..MaxFindings
    BY FindingListsAreSequences
  <2>4. c.next = 1 /\ \A i \in 1..MaxFindings : <<t, i>> \notin rows
    BY <1>3 DEF CompleteGraph, RunOK
  <2>5. UNCHANGED <<rows, hitl, verdict, landed, status>> /\ c.pc = "graph"
    BY <1>3 DEF CompleteGraph
  <2>6. /\ run'[t].pc \in {"post", "persist"} /\ run'[t].next = 1
        /\ run'[t].findings = findings /\ run'[t].decision \in Decisions
        /\ run'[t].review = c.review /\ run'[t].origin = c.origin /\ run'[t].posted = c.posted
    BY <1>1, <2>1, <2>2, <2>4 DEF RunRecord
  <2> QED
    BY <2>3, <2>4, <2>5, <2>6, Bounds DEF RunOK, Ended
<1>4. CASE PostReview(t)
  BY <1>1, <1>4 DEF PostReview, RunOK, Ended
<1>5. CASE PostFails(t)
  BY <1>1, <1>5 DEF PostFails, RunOK, Ended, Decisions
<1>6. CASE InsertFinding(t)
  BY <1>1, <1>6 DEF InsertFinding, RunOK, Ended
<1>7. CASE UpdateStatus(t)
  <2>1. StatusOf(t) \notin {"none", "pending"}
    BY DEF StatusOf
  <2> QED
    BY <1>1, <1>7, <2>1, Bounds DEF UpdateStatus, RunOK, Ended, Gated, Decisions
<1>8. CASE EnqueueHitl(t)
  <2>1. ReasonOf(t) # "none"
    BY DEF ReasonOf
  <2> QED
    BY <1>1, <1>8, <2>1 DEF EnqueueHitl, RunOK, Ended
<1>9. CASE EmitDecision(t)
  BY <1>1, <1>9 DEF EmitDecision, Leave, Remains, IdleRun, RunOK, Ended, Decisions
<1>10. CASE StatementFails(t)
  <2>1. /\ run'[t] = Remains(t, "raised") /\ Alive(t) /\ landed \subseteq landed'
        /\ UNCHANGED <<hitl, rows, status>>
    BY <1>1, <1>10 DEF StatementFails, Leave, Alive
  <2>2. CASE UNCHANGED verdict
    BY <2>1, <2>2, MayEnd
  <2>3. CASE verdict' # verdict
    <3>1. run[t].pc = "verdict" /\ verdict' = [verdict EXCEPT ![t] = run[t].decision]
      BY <1>10, <2>3 DEF StatementFails
    <3> QED
      BY <1>1, <2>1, <3>1 DEF Remains, IdleRun, RunOK, Written, Settled, Ended
  <2> QED
    BY <2>2, <2>3
<1> QED
  BY <1>2, <1>3, <1>4, <1>5, <1>6, <1>7, <1>8, <1>9, <1>10 DEF RunStep

\* What the job of a review and the others know of a run changes only when it ends.
LEMMA RunStepAwaited ==
    ASSUME IInv, NEW t \in Runs, RunFrame(t)
    PROVE  JobProgress' /\ LiveRunsAreAwaited' /\ OneWorkerRunPerReview'
<1>1. \A u \in Runs : /\ run'[u].review = run[u].review /\ run'[u].origin = run[u].origin
                      /\ Alive(u)' => Alive(u)
                      /\ Alive(u) => Alive(u)' \/ run'[u].pc \in {"returned", "raised"}
                      /\ run[u].pc \in {"returned", "raised"} => run'[u] = run[u]
  BY DEF RunFrame, Alive, InThread
<1>2. JobProgress'
  <2> SUFFICES ASSUME NEW r \in Reviews, job'[r] = "running" PROVE Awaits(r, attempt[r])'
    BY DEF JobProgress
  <2>1. Awaits(r, attempt[r]) /\ attempt'[r] = attempt[r]
    BY DEF IInv, JobProgress, RunFrame
  <2> QED
    BY <1>1, <2>1 DEF Awaits, Runs, Alive
<1>3. LiveRunsAreAwaited'
  BY <1>1 DEF IInv, LiveRunsAreAwaited, RunFrame, Alive
<1>4. OneWorkerRunPerReview'
  BY <1>1 DEF IInv, OneWorkerRunPerReview, Alive
<1> QED
  BY <1>2, <1>3, <1>4

\* A status that says "posted" or "gated" was written by a run that can show for it.
LEMMA RunStepStatus ==
    ASSUME IInv, NEW t \in Runs, RunStep(t), RunFrame(t), RunOK(t)'
    PROVE  GatedReviewIsQueued' /\ PostedIsOnGitHub' /\ JobResultIsTrue'
<1>1. /\ run \in [Runs -> RunRecord] /\ status \in [Reviews -> Statuses]
      /\ RunOK(t)
  BY DEF IInv, TypeOK, RunProgress
<1>2. \A u \in Runs : /\ run'[u].review = run[u].review
                      /\ hitl[u] # "none" => hitl'[u] # "none"
                      /\ run[u].pc \in {"raised", "killed"} => run'[u].pc = run[u].pc
  BY DEF RunFrame, Alive, InThread
<1>3. run[t].pc = "hitl" => hitl'[t] # "none" \/ run'[t].pc = "raised"
  <2> SUFFICES ASSUME run[t].pc = "hitl" PROVE hitl'[t] # "none" \/ run'[t].pc = "raised"
    OBVIOUS
  <2>1. CASE EnqueueHitl(t)
    BY <2>1, <1>1 DEF EnqueueHitl, ReasonOf, IInv, TypeOK
  <2>2. CASE StatementFails(t)
    BY <2>2, <1>1 DEF StatementFails, Leave, Remains, IdleRun
  <2> QED
    BY <2>1, <2>2 DEF RunStep, StartThread, CompleteGraph, PostReview, PostFails, InsertFinding,
                      UpdateStatus, EmitDecision
<1>4. ASSUME NEW r \in Reviews
      PROVE \/ status'[r] = status[r]
            \/ /\ run[t].review = r
               /\ status'[r] \in {"queued", "escalated"} => run'[t].pc = "hitl"
               /\ status'[r] = "posted" => run[t].posted
  <2>1. CASE UpdateStatus(t)
    BY <2>1, <1>1 DEF UpdateStatus, StatusOf
  <2>2. CASE ~UpdateStatus(t)
    BY <2>2 DEF RunStep, StartThread, CompleteGraph, PostReview, PostFails, InsertFinding,
                EnqueueHitl, EmitDecision, StatementFails, store
  <2> QED
    BY <2>1, <2>2
<1>5. GatedReviewIsQueued'
  <2> SUFFICES ASSUME NEW r \in Reviews, status'[r] \in {"queued", "escalated"}
               PROVE  \E u \in Runs : /\ run'[u].review = r
                                      /\ \/ hitl'[u] # "none"
                                         \/ run'[u].pc \in {"hitl", "raised", "killed"}
    BY DEF GatedReviewIsQueued
  <2>1. CASE status'[r] # status[r]
    <3>1. run[t].review = r /\ run'[t].pc = "hitl"
      BY <1>4, <2>1
    <3>2. run'[t].review = r
      BY <1>2, <3>1
    <3> QED
      BY <3>1, <3>2
  <2>2. CASE status'[r] = status[r]
    <3>1. PICK u \in Runs : /\ run[u].review = r
                            /\ hitl[u] # "none" \/ run[u].pc \in {"hitl", "raised", "killed"}
      BY <2>2 DEF IInv, GatedReviewIsQueued
    <3>2. u # t => run'[u] = run[u]
      BY DEF RunFrame
    <3> QED
      BY <1>2, <1>3, <3>1, <3>2
  <2> QED
    BY <2>1, <2>2
<1>6. PostedIsOnGitHub'
  <2>1. landed \subseteq landed' /\ (run[t].posted => t \in landed)
    BY <1>1 DEF RunFrame, RunOK
  <2>2. landed \subseteq Runs
    BY DEF IInv, TypeOK
  <2>3. ASSUME NEW r \in Reviews, status'[r] = "posted", status[r] = "posted"
        PROVE  \E u \in landed' : run'[u].review = r
    BY <1>2, <2>1, <2>2, <2>3 DEF IInv, PostedIsOnGitHub
  <2>4. ASSUME NEW r \in Reviews, status'[r] = "posted", status[r] # "posted"
        PROVE  \E u \in landed' : run'[u].review = r
    BY <1>2, <1>4, <2>1, <2>4
  <2> QED
    BY <2>3, <2>4 DEF PostedIsOnGitHub
<1>7. JobResultIsTrue'
  <2>1. \A u \in Runs : verdict[u] # "none" => verdict'[u] # "none"
    <3>1. verdict[t] = "none"
      BY <1>1 DEF RunOK, RunFrame, Alive, InThread, Ended
    <3> QED
      BY <3>1 DEF RunFrame
  <2> QED
    BY <1>2, <2>1 DEF IInv, JobResultIsTrue, RunFrame
<1> QED
  BY <1>5, <1>6, <1>7

\* One step of one run.
LEMMA RunStepInv == ASSUME IInv, NEW t \in Runs, RunStep(t) PROVE IInv'
<1>1. TypeOK /\ RunOK(t)
  BY DEF IInv, RunProgress
<1>2. TypeOK' /\ RunFrame(t) /\ RunOK(t)'
  BY <1>1, RunType, RunStepFrame, RunStepOK
<1>3. ASSUME NEW u \in Runs \ {t} PROVE RunOK(u)'
  <2>1. RunOK(u)
    BY DEF IInv, RunProgress
  <2> QED
    BY <1>2, <2>1, Undisturbed DEF RunFrame
<1>4. RunProgress'
  BY <1>2, <1>3 DEF RunProgress
<1> QED
  BY <1>2, <1>4, RunStepAwaited, RunStepStatus DEF IInv
-----------------------------------------------------------------------------
(* What starts runs, awaits them and kills them. *)

\* The properties of the rows hold on when no row is written and no run that is under
\* way loses its review, or its place to anything but an early end.
LEMMA RowsStay ==
    ASSUME IInv, UNCHANGED store,
           \A u \in Runs :
               /\ run[u].pc # "idle" => run'[u].review = run[u].review
               /\ run[u].pc = "hitl" => run'[u].pc \in {"hitl", "killed"}
               /\ run[u].pc \in {"raised", "killed"} => run'[u].pc = run[u].pc
    PROVE  GatedReviewIsQueued' /\ PostedIsOnGitHub'
<1>1. UNCHANGED <<status, hitl, landed>>
  BY DEF store
<1>2. \A u \in Runs : /\ u \in landed => run[u].pc # "idle"
                      /\ hitl[u] # "none" => run[u].pc # "idle"
  BY DEF IInv, RunProgress, RunOK, Ended
<1>3. landed \subseteq Runs
  BY DEF IInv, TypeOK
<1>4. GatedReviewIsQueued'
  BY <1>1, <1>2 DEF IInv, GatedReviewIsQueued
<1>5. PostedIsOnGitHub'
  BY <1>1, <1>2, <1>3 DEF IInv, PostedIsOnGitHub
<1> QED
  BY <1>4, <1>5

\* What the jobs have answered stays true when no row is written.
LEMMA ResultsStay ==
    ASSUME IInv, UNCHANGED <<store, result>>,
           \A u \in Runs : run[u].pc # "idle" => run'[u].review = run[u].review
    PROVE  JobResultIsTrue'
<1>1. UNCHANGED <<verdict, errorEvent, result>>
  BY DEF store
<1>2. \A u \in Runs : verdict[u] # "none" => run[u].pc # "idle"
  BY DEF IInv, RunProgress, RunOK, Ended
<1> QED
  BY <1>1, <1>2 DEF IInv, JobResultIsTrue

\* A run begins for a review.
LEMMA BeginInv ==
    ASSUME IInv, NEW t \in Runs, NEW r \in Reviews, NEW p \in Workers \cup Servers,
           NEW location \in {"submitted", "graph"},
           run[t].pc = "idle", Begin(t, r, p, location), UNCHANGED <<store, result>>
    PROVE  /\ RunProgress' /\ GatedReviewIsQueued' /\ PostedIsOnGitHub' /\ JobResultIsTrue'
           /\ \A u \in Runs \ {t} : run'[u] = run[u]
           /\ run'[t].pc = location /\ run'[t].review = r /\ run'[t].origin = p
<1> USE DEF IInv, store
<1>1. \A u \in Runs \ {t} : run'[u] = run[u]
  BY DEF Begin, TypeOK
<1>2. run'[t] = [IdleRun EXCEPT !.pc = location, !.review = r, !.origin = p]
  BY DEF Begin, TypeOK
<1>3. RunOK(t)'
  <2>1. RunOK(t)
    BY DEF RunProgress
  <2>2. /\ \A i \in 1..MaxFindings : <<t, i>> \notin rows
        /\ hitl[t] = "none" /\ verdict[t] = "none" /\ t \notin landed
    BY <2>1 DEF RunOK, Ended
  <2> QED
    BY <1>2, <2>2 DEF RunOK, IdleRun, Ended
<1>4. ASSUME NEW u \in Runs \ {t} PROVE RunOK(u)'
  <2>1. RunOK(u) /\ run'[u] = run[u]
    BY <1>1 DEF RunProgress
  <2> QED
    BY <2>1, Undisturbed DEF Settled
<1>5. RunProgress'
  BY <1>3, <1>4 DEF RunProgress
<1>6. GatedReviewIsQueued' /\ PostedIsOnGitHub'
  BY <1>1, RowsStay
<1>7. JobResultIsTrue'
  BY <1>1, ResultsStay
<1> QED
  BY <1>1, <1>2, <1>5, <1>6, <1>7 DEF IdleRun

\* A worker takes a job from the queue: nobody else has the review in hand.
LEMMA TakeJobInv ==
    ASSUME IInv, NEW w \in Workers, NEW r \in Reviews, NEW t \in JobRuns, TakeJob(w, r, t)
    PROVE  IInv'
<1>1. t \in Runs /\ job[r] = "queued" /\ run[t].pc = "idle"
  BY DEF Runs, TakeJob
<1>2. TypeOK'
  BY <1>1, StartType DEF IInv
<1>3. /\ RunProgress' /\ GatedReviewIsQueued' /\ PostedIsOnGitHub' /\ JobResultIsTrue'
      /\ \A u \in Runs \ {t} : run'[u] = run[u]
      /\ run'[t].pc = "submitted" /\ run'[t].review = r /\ run'[t].origin = w
  BY <1>1, BeginInv DEF TakeJob
<1>4. /\ job'[r] = "running" /\ attempt'[r] = t
      /\ \A q \in Reviews \ {r} : job'[q] = job[q] /\ attempt'[q] = attempt[q]
  BY DEF IInv, TypeOK, TakeJob
<1>5. \A u \in Runs : ~(Alive(u) /\ run[u].origin \in Workers /\ run[u].review = r)
  BY <1>1 DEF IInv, LiveRunsAreAwaited
<1>6. JobProgress'
  <2> SUFFICES ASSUME NEW q \in Reviews, job'[q] = "running" PROVE Awaits(q, attempt[q])'
    BY DEF JobProgress
  <2>1. CASE q = r
    BY <1>3, <1>4, <2>1 DEF Awaits, Alive
  <2>2. CASE q # r
    <3>1. Awaits(q, attempt[q]) /\ attempt'[q] = attempt[q]
      BY <1>4, <2>2 DEF IInv, JobProgress
    <3>2. attempt[q] \in Runs \ {t}
      BY <1>1, <3>1 DEF Awaits, Runs, Alive, InThread
    <3> QED
      BY <1>3, <3>1, <3>2 DEF Awaits, Alive
  <2> QED
    BY <2>1, <2>2
<1>7. LiveRunsAreAwaited'
  <2> SUFFICES ASSUME NEW u \in Runs, Alive(u)', run'[u].origin \in Workers
               PROVE  \/ job'[run'[u].review] = "done"
                      \/ job'[run'[u].review] = "running" /\ attempt'[run'[u].review] = u
    BY DEF LiveRunsAreAwaited
  <2>1. CASE u = t
    BY <1>3, <1>4, <2>1
  <2>2. CASE u # t
    <3>1. run'[u] = run[u] /\ Alive(u)
      BY <1>3, <2>2 DEF Alive
    <3>2. run[u].review \in Reviews \ {r}
      BY <1>5, <3>1 DEF Alive, InThread, IInv, RunProgress, RunOK
    <3> QED
      BY <1>4, <3>1, <3>2 DEF IInv, LiveRunsAreAwaited
  <2> QED
    BY <2>1, <2>2
<1>8. OneWorkerRunPerReview'
  BY <1>3, <1>5 DEF IInv, OneWorkerRunPerReview, Alive
<1> QED
  BY <1>2, <1>3, <1>6, <1>7, <1>8 DEF IInv

\* A manual run is no concern of the jobs.
LEMMA ManualRunInv ==
    ASSUME IInv, NEW s \in Servers, NEW r \in Reviews, NEW t \in ManualRuns, ManualRun(s, r, t)
    PROVE  IInv'
<1>1. t \in Runs /\ run[t].pc = "idle" /\ s \notin Workers /\ UNCHANGED <<job, attempt>>
  BY RunsAssumption DEF Runs, ManualRun, jobVars
<1>2. TypeOK'
  BY <1>1, StartType DEF IInv
<1>3. /\ RunProgress' /\ GatedReviewIsQueued' /\ PostedIsOnGitHub' /\ JobResultIsTrue'
      /\ \A u \in Runs \ {t} : run'[u] = run[u]
      /\ run'[t].pc = "graph" /\ run'[t].review = r /\ run'[t].origin = s
  BY <1>1, BeginInv DEF ManualRun, jobVars
<1>4. JobProgress'
  <2> SUFFICES ASSUME NEW q \in Reviews, job'[q] = "running" PROVE Awaits(q, attempt[q])'
    BY DEF JobProgress
  <2>1. Awaits(q, attempt[q]) /\ attempt'[q] = attempt[q]
    BY <1>1 DEF IInv, JobProgress
  <2>2. attempt[q] \in Runs \ {t}
    BY <1>1, <2>1 DEF Awaits, Runs, Alive, InThread
  <2> QED
    BY <1>3, <2>1, <2>2 DEF Awaits, Alive
<1>5. LiveRunsAreAwaited'
  BY <1>1, <1>3 DEF IInv, LiveRunsAreAwaited, Alive
<1>6. OneWorkerRunPerReview'
  BY <1>1, <1>3 DEF IInv, OneWorkerRunPerReview, Alive
<1> QED
  BY <1>2, <1>3, <1>4, <1>5, <1>6 DEF IInv

\* The job of a review ends, and with it only what is known of that job.
LEMMA CloseInv ==
    ASSUME IInv, NEW r \in Reviews, NEW outcome \in Results, Close(r, outcome),
           \A u \in Runs :
               /\ run'[u].review = run[u].review /\ run'[u].origin = run[u].origin
               /\ \/ run'[u].pc = run[u].pc
                  \/ u = attempt[r] /\ job[r] = "running" /\ run'[u].pc = "cancelled"
    PROVE  JobProgress' /\ LiveRunsAreAwaited' /\ OneWorkerRunPerReview'
<1>1. /\ job'[r] = "done"
      /\ \A q \in Reviews \ {r} : job'[q] = job[q] /\ attempt'[q] = attempt[q]
  BY DEF IInv, TypeOK, Close
<1>2. JobProgress'
  <2> SUFFICES ASSUME NEW q \in Reviews, job'[q] = "running" PROVE Awaits(q, attempt[q])'
    BY DEF JobProgress
  <2>1. q # r /\ attempt'[q] = attempt[q] /\ Awaits(q, attempt[q])
    BY <1>1 DEF IInv, JobProgress
  <2>2. attempt[q] \in Runs /\ run[attempt[q]].review = q
    BY <2>1 DEF Awaits, Runs
  <2>3. CASE attempt[q] # attempt[r]
    BY <2>1, <2>2, <2>3 DEF Awaits, Alive
  <2>4. CASE attempt[q] = attempt[r]
    <3>1. job[r] # "running"
      BY <2>1, <2>2, <2>4 DEF IInv, JobProgress, Awaits
    <3>2. run'[attempt[q]].pc = run[attempt[q]].pc
      BY <2>2, <2>4, <3>1
    <3> QED
      BY <2>1, <2>2, <3>2 DEF Awaits, Alive
  <2> QED
    BY <2>3, <2>4
<1>3. LiveRunsAreAwaited'
  <2> SUFFICES ASSUME NEW u \in Runs, Alive(u)', run'[u].origin \in Workers
               PROVE  \/ job'[run'[u].review] = "done"
                      \/ job'[run'[u].review] = "running" /\ attempt'[run'[u].review] = u
    BY DEF LiveRunsAreAwaited
  <2>1. Alive(u) /\ run[u].origin \in Workers
    BY DEF Alive, InThread
  <2>2. run'[u].review = run[u].review /\ run[u].review \in Reviews
    BY <2>1 DEF Alive, InThread, IInv, RunProgress, RunOK
  <2> QED
    BY <1>1, <2>1, <2>2 DEF IInv, LiveRunsAreAwaited
<1>4. OneWorkerRunPerReview'
  BY DEF IInv, OneWorkerRunPerReview, Alive, InThread
<1> QED
  BY <1>2, <1>3, <1>4

\* A coroutine closes its job with the result of the run it awaited.
LEMMA CoroutineInv == ASSUME IInv, NEW r \in Reviews, CoroutineStep(r) PROVE IInv'
<1>1. TypeOK'
  BY CoroutineType DEF IInv
<1>2. UNCHANGED <<run, rows, hitl, verdict, status, landed>>
  BY DEF CoroutineStep, JobExhausted, JobReturns, AnchorFailure, AnchorRaises, store
<1>3. PICK outcome \in Results : Close(r, outcome)
  BY DEF CoroutineStep, JobExhausted, JobReturns, AnchorFailure, AnchorRaises, Results
<1>4. JobProgress' /\ LiveRunsAreAwaited' /\ OneWorkerRunPerReview'
  BY <1>2, <1>3, CloseInv
<1>5. RunProgress' /\ GatedReviewIsQueued' /\ PostedIsOnGitHub'
  BY <1>2 DEF IInv, RunProgress, RunOK, Written, Settled, GatedReviewIsQueued, PostedIsOnGitHub
<1>6. JobResultIsTrue'
  <2>1. \A q \in Reviews \ {r} : result'[q] = result[q] /\ (errorEvent[q] => errorEvent'[q])
    BY <1>3 DEF IInv, TypeOK, Close, CoroutineStep, JobExhausted, JobReturns, AnchorFailure,
                AnchorRaises, store
  <2>2. result'[r] = "ok" => \E t \in Runs : run[t].review = r /\ verdict[t] # "none"
    <3> SUFFICES ASSUME result'[r] = "ok"
                 PROVE  \E t \in Runs : run[t].review = r /\ verdict[t] # "none"
      OBVIOUS
    <3>1. JobReturns(r)
      BY DEF IInv, TypeOK, Close, CoroutineStep, JobExhausted, JobReturns, AnchorFailure, AnchorRaises
    <3>2. Awaits(r, attempt[r]) /\ run[attempt[r]].pc = "returned"
      BY <3>1 DEF JobReturns, IInv, JobProgress
    <3>3. attempt[r] \in Runs /\ run[attempt[r]].review = r
      BY <3>2 DEF Awaits, Runs
    <3> QED
      BY <3>2, <3>3 DEF IInv, RunProgress, RunOK
  <2>3. result'[r] = "error" => errorEvent'[r]
    BY DEF IInv, TypeOK, Close, CoroutineStep, JobExhausted, JobReturns, AnchorFailure, AnchorRaises
  <2> QED
    BY <1>2, <2>1, <2>2, <2>3 DEF IInv, JobResultIsTrue
<1> QED
  BY <1>1, <1>4, <1>5, <1>6 DEF IInv

\* A timeout closes the job and leaves a started thread behind.
LEMMA TimeoutInv == ASSUME IInv, NEW r \in Reviews, JobTimesOut(r) PROVE IInv'
<1>1. run \in [Runs -> RunRecord] /\ UNCHANGED store /\ Awaits(r, attempt[r])
  BY DEF IInv, TypeOK, JobTimesOut, JobProgress
<1>2. TypeOK'
  BY CoroutineType DEF IInv
<1>3. \A u \in Runs : IF u = attempt[r] /\ run[u].pc = "submitted"
                       THEN run'[u] = [run[u] EXCEPT !.pc = "cancelled"] ELSE run'[u] = run[u]
  BY <1>1 DEF JobTimesOut, RunRecord
<1>4. \A u \in Runs :
         /\ run'[u].review = run[u].review /\ run'[u].origin = run[u].origin
         /\ \/ run'[u].pc = run[u].pc
            \/ u = attempt[r] /\ run[u].pc = "submitted" /\ run'[u].pc = "cancelled"
  <2> TAKE u \in Runs
  <2>1. CASE u = attempt[r] /\ run[u].pc = "submitted"
    <3>1. run[u] \in RunRecord /\ run'[u] = [run[u] EXCEPT !.pc = "cancelled"]
      BY <1>1, <1>3, <2>1
    <3> QED
      BY <2>1, <3>1 DEF RunRecord
  <2>2. CASE ~(u = attempt[r] /\ run[u].pc = "submitted")
    BY <1>3, <2>2
  <2> QED
    BY <2>1, <2>2
<1>5. JobProgress' /\ LiveRunsAreAwaited' /\ OneWorkerRunPerReview'
  BY <1>1, <1>4, CloseInv DEF JobTimesOut, Results
<1>6. GatedReviewIsQueued' /\ PostedIsOnGitHub'
  BY <1>1, <1>4, RowsStay
<1>7. ASSUME NEW u \in Runs PROVE RunOK(u)'
  <2>1. RunOK(u) /\ run[u] \in RunRecord /\ UNCHANGED <<rows, hitl, verdict, landed, status>>
    BY <1>1 DEF IInv, RunProgress, store
  <2>2. CASE run'[u] = run[u]
    BY <2>1, <2>2, Undisturbed DEF Settled
  <2>3. CASE run[u].pc = "submitted" /\ run'[u] = [run[u] EXCEPT !.pc = "cancelled"]
    BY <2>1, <2>3 DEF RunOK, Ended, RunRecord
  <2> QED
    BY <1>3, <2>2, <2>3
<1>8. JobResultIsTrue'
  <2>1. \A q \in Reviews : result'[q] = result[q] \/ result'[q] = "timeout"
    BY DEF IInv, TypeOK, JobTimesOut, Close
  <2> QED
    BY <1>1, <1>4, <2>1 DEF IInv, JobResultIsTrue, store
<1> QED
  BY <1>2, <1>5, <1>6, <1>7, <1>8 DEF IInv, RunProgress

\* A process dies with its runs.
LEMMA KillInv ==
    ASSUME IInv, NEW p, KillRunsOf(p), UNCHANGED <<store, result>>
    PROVE  /\ RunProgress' /\ GatedReviewIsQueued' /\ PostedIsOnGitHub' /\ JobResultIsTrue'
           /\ \A u \in Runs : /\ run'[u].review = run[u].review /\ run'[u].origin = run[u].origin
                              /\ IF run[u].origin = p /\ Alive(u) THEN run'[u].pc = "killed"
                                                                  ELSE run'[u] = run[u]
<1>1. \A u \in Runs : run'[u] = IF run[u].origin = p /\ Alive(u) THEN Remains(u, "killed") ELSE run[u]
  BY DEF KillRunsOf
<1>2. \A u \in Runs : /\ run'[u].review = run[u].review /\ run'[u].origin = run[u].origin
                      /\ IF run[u].origin = p /\ Alive(u) THEN run'[u].pc = "killed"
                                                           ELSE run'[u] = run[u]
  BY <1>1 DEF Remains, IdleRun
<1>3. ASSUME NEW u \in Runs PROVE RunOK(u)'
  <2>1. RunOK(u) /\ TypeOK /\ UNCHANGED <<rows, hitl, verdict, landed, status>>
    BY DEF IInv, RunProgress, store
  <2>2. CASE run'[u] = run[u]
    BY <2>1, <2>2, Undisturbed DEF Settled
  <2>3. CASE Alive(u) /\ run'[u] = Remains(u, "killed")
    BY <2>1, <2>3, MayEnd
  <2> QED
    BY <1>1, <2>2, <2>3
<1>4. GatedReviewIsQueued' /\ PostedIsOnGitHub'
  BY <1>2, RowsStay DEF Alive, InThread
<1>5. JobResultIsTrue'
  BY <1>2, ResultsStay
<1> QED
  BY <1>2, <1>3, <1>4, <1>5 DEF RunProgress

\* A worker dies: the jobs it was running are free to be taken again.
LEMMA WorkerCrashInv == ASSUME IInv, NEW w \in Workers, WorkerCrash(w) PROVE IInv'
<1>1. TypeOK'
  BY CrashType DEF IInv
<1>2. /\ RunProgress' /\ GatedReviewIsQueued' /\ PostedIsOnGitHub' /\ JobResultIsTrue'
      /\ \A u \in Runs : /\ run'[u].review = run[u].review /\ run'[u].origin = run[u].origin
                         /\ IF run[u].origin = w /\ Alive(u) THEN run'[u].pc = "killed"
                                                             ELSE run'[u] = run[u]
  BY KillInv DEF WorkerCrash
<1>3. \A q \in Reviews : IF job[q] = "running" /\ run[attempt[q]].origin = w
                          THEN job'[q] = "queued"
                          ELSE job'[q] = job[q] /\ attempt'[q] = attempt[q]
  BY DEF WorkerCrash, RunningOn
<1>4. JobProgress'
  <2> SUFFICES ASSUME NEW q \in Reviews, job'[q] = "running" PROVE Awaits(q, attempt[q])'
    BY DEF JobProgress
  <2>1. /\ Awaits(q, attempt[q]) /\ attempt'[q] = attempt[q]
        /\ run[attempt[q]].origin # w
    BY <1>3 DEF IInv, JobProgress
  <2>2. run'[attempt[q]] = run[attempt[q]]
    BY <1>2, <2>1 DEF Awaits, Runs
  <2> QED
    BY <2>1, <2>2 DEF Awaits, Alive
<1>5. \A u \in Runs : Alive(u)' => Alive(u) /\ run'[u] = run[u] /\ run[u].origin # w
  BY <1>2 DEF Alive, InThread
<1>6. LiveRunsAreAwaited'
  <2> SUFFICES ASSUME NEW u \in Runs, Alive(u)', run'[u].origin \in Workers
               PROVE  \/ job'[run'[u].review] = "done"
                      \/ job'[run'[u].review] = "running" /\ attempt'[run'[u].review] = u
    BY DEF LiveRunsAreAwaited
  <2>1. Alive(u) /\ run'[u] = run[u] /\ run[u].origin # w
    BY <1>5 DEF Alive
  <2>2. run[u].review \in Reviews
    BY <2>1 DEF Alive, InThread, IInv, RunProgress, RunOK
  <2> QED
    BY <1>3, <2>1, <2>2 DEF IInv, LiveRunsAreAwaited
<1>7. OneWorkerRunPerReview'
  BY <1>2, <1>5 DEF IInv, OneWorkerRunPerReview, Alive
<1> QED
  BY <1>1, <1>2, <1>4, <1>6, <1>7 DEF IInv

\* An API process dies: its runs are no concern of the jobs.
LEMMA ApiKillInv ==
    ASSUME IInv, NEW s \in Servers, KillRunsOf(s), UNCHANGED <<store, jobVars>>, TypeOK'
    PROVE  IInv'
<1>1. s \notin Workers /\ UNCHANGED <<job, attempt, result>>
  BY RunsAssumption DEF jobVars
<1>2. /\ RunProgress' /\ GatedReviewIsQueued' /\ PostedIsOnGitHub' /\ JobResultIsTrue'
      /\ \A u \in Runs : /\ run'[u].review = run[u].review /\ run'[u].origin = run[u].origin
                         /\ IF run[u].origin = s /\ Alive(u) THEN run'[u].pc = "killed"
                                                             ELSE run'[u] = run[u]
  BY <1>1, KillInv
<1>3. JobProgress'
  <2> SUFFICES ASSUME NEW q \in Reviews, job'[q] = "running" PROVE Awaits(q, attempt[q])'
    BY DEF JobProgress
  <2>1. Awaits(q, attempt[q]) /\ attempt'[q] = attempt[q]
    BY <1>1 DEF IInv, JobProgress
  <2>2. run'[attempt[q]] = run[attempt[q]]
    BY <1>1, <1>2, <2>1 DEF Awaits, Runs
  <2> QED
    BY <2>1, <2>2 DEF Awaits, Alive
<1>4. LiveRunsAreAwaited' /\ OneWorkerRunPerReview'
  BY <1>1, <1>2 DEF IInv, LiveRunsAreAwaited, OneWorkerRunPerReview, Alive, InThread
<1> QED
  BY <1>2, <1>3, <1>4 DEF IInv
-----------------------------------------------------------------------------
\* Nothing has run yet, whatever has been claimed and published.
LEMMA NothingRunInv ==
    ASSUME NothingRun, status \in [Reviews -> {"none", "pending"}],
           job \in [Reviews -> {"none", "queued"}],
           errorEvent \in [Reviews -> BOOLEAN], busy \in [Servers -> BOOLEAN]
    PROVE  IInv
<1>1. TypeOK
  BY InitialRun, RunsAssumption, Bounds
  DEF NothingRun, TypeOK, Statuses, JobStates, Results, Decisions, Reasons
<1>2. \A t \in Runs : /\ run[t] = IdleRun /\ hitl[t] = "none" /\ verdict[t] = "none"
                      /\ t \notin landed
  BY DEF NothingRun
<1>3. rows = {}
  BY DEF NothingRun
<1>4. RunProgress
  <2> SUFFICES ASSUME NEW t \in Runs PROVE RunOK(t)
    BY DEF RunProgress
  <2>1. run[t] = IdleRun
    BY <1>2
  <2>2. run[t].pc = "idle" /\ run[t].next = 1 /\ run[t].posted = FALSE
    BY <2>1 DEF IdleRun
  <2> QED
    BY <1>2, <1>3, <2>1, <2>2 DEF RunOK
<1>5. \A t \in Runs : ~Alive(t)
  BY <1>2 DEF Alive, InThread, IdleRun
<1>6. LiveRunsAreAwaited /\ OneWorkerRunPerReview
  BY <1>5 DEF LiveRunsAreAwaited, OneWorkerRunPerReview
<1>7. JobProgress /\ GatedReviewIsQueued /\ PostedIsOnGitHub
  BY DEF JobProgress, GatedReviewIsQueued, PostedIsOnGitHub
<1>8. JobResultIsTrue
  BY DEF NothingRun, JobResultIsTrue
<1> QED
  BY <1>1, <1>4, <1>6, <1>7, <1>8 DEF IInv

\* The invariant is inductive: every step keeps it.
LEMMA StepInv == ASSUME IInv, [Next]_vars PROVE IInv'
<1>1. ASSUME NEW s \in Servers, ApiCrash(s) PROVE IInv'
  BY <1>1, CrashType, ApiKillInv DEF ApiCrash, IInv
<1>2. CASE UNCHANGED vars
  BY <1>2 DEF vars, IInv, TypeOK, RunProgress, RunOK, Written, Settled, JobProgress, Awaits, Alive,
              LiveRunsAreAwaited, OneWorkerRunPerReview, GatedReviewIsQueued, JobResultIsTrue,
              PostedIsOnGitHub
<1> QED
  BY <1>1, <1>2, TakeJobInv, CoroutineInv, TimeoutInv, WorkerCrashInv, ManualRunInv, RunStepInv
  DEF Next

\* Every reachable state of the runs satisfies the inductive invariant.
THEOREM RunsInvariant == Spec => []IInv
<1>1. Init => IInv
  BY NothingRunInv DEF Init
<1>2. IInv /\ [Next]_vars => IInv'
  BY StepInv
<1> QED
  BY <1>1, <1>2, PTL DEF Spec

\* A decision event is the last word of its run.
LEMMA IInvBacksVerdicts == ASSUME IInv PROVE VerdictIsBacked
BY DEF IInv, RunProgress, RunOK, Written, Settled, Gated, VerdictIsBacked

\* Types, the human queue and the job results agree with the rows, whatever crashes,
\* times out or fails (arq_worker.py:pipeline_job, router.py:run_review_pipeline).
THEOREM RunsConsistent == Spec => []RunIsConsistent
BY RunsInvariant, PTL DEF IInv, RunIsConsistent

\* No decision event is emitted before everything it announces is durable.
THEOREM VerdictsBacked == Spec => []VerdictIsBacked
BY RunsInvariant, IInvBacksVerdicts, PTL

\* A review is never in the hands of two worker runs, however often its job is retried
\* and although a timeout leaves a thread behind.
THEOREM OneWorkerRun == Spec => []OneWorkerRunPerReview
BY RunsInvariant, PTL DEF IInv

\* The status "posted" is only ever written by a run whose comment GitHub has taken.
THEOREM PostedIsTrue == Spec => []PostedIsOnGitHub
BY RunsInvariant, PTL DEF IInv
-----------------------------------------------------------------------------
(* The refinement of RunLedger. *)

\* A step that moves run t, and t alone, to another stage.
LEMMA Moves ==
    ASSUME NEW t \in Runs, \A u \in Runs \ {t} : run'[u] = run[u]
    PROVE  Ledger!Advance(t, StageOf(run'[t].pc))
BY DEF Ledger!Advance

\* What the ledger sees of runs that keep their review and their findings.
LEMMA SameWork ==
    ASSUME \A u \in Runs : run'[u].review = run[u].review /\ run'[u].findings = run[u].findings
    PROVE  /\ UNCHANGED [t \in Runs |-> run[t].review]
           /\ UNCHANGED [t \in Runs |-> Len(run[t].findings)]
OBVIOUS

\* The status as the ledger sees it.
Seen == [r \in Reviews |-> IF status[r] = "none" THEN "pending" ELSE status[r]]

\* A run that the ledger sees begin.
LEMMA LedgerBegins ==
    ASSUME TypeOK, NEW t \in Runs, NEW r \in Reviews, NEW p, NEW location \in {"submitted", "graph"},
           run[t] = IdleRun, Begin(t, r, p, location), UNCHANGED store
    PROVE  Ledger!Begin(t, r)
<1> USE DEF TypeOK, Begin, IdleRun
<1>1. /\ run'[t].pc = location /\ run'[t].review = r /\ run'[t].findings = run[t].findings
      /\ \A u \in Runs \ {t} : run'[u] = run[u]
  OBVIOUS
<1>2. Ledger!Advance(t, "analyse")
  <2>1. StageOf(run'[t].pc) = "analyse"
    BY <1>1 DEF StageOf
  <2> QED
    BY <1>1, <2>1, Moves
<1>3. [u \in Runs |-> run'[u].review] = [[u \in Runs |-> run[u].review] EXCEPT ![t] = r]
  BY <1>1
<1>4. UNCHANGED [u \in Runs |-> Len(run[u].findings)]
  BY <1>1
<1>5. UNCHANGED <<rows, Seen, {u \in Runs : hitl[u] # "none"}, {u \in Runs : verdict[u] # "none"}>>
  BY DEF store, Seen
<1>6. StageOf(run[t].pc) = "idle"
  BY DEF StageOf, Ended
<1> QED
  BY <1>2, <1>3, <1>4, <1>5, <1>6 DEF Ledger!Begin, Seen

\* Runs that end before their time: the ledger sees them aborted, or nothing.
LEMMA LedgerAborts ==
    ASSUME NEW S \in SUBSET Runs, UNCHANGED <<rows, status, hitl, verdict>>,
           \A u \in S : Alive(u) /\ run'[u].pc \in Ended
                        /\ run'[u].review = run[u].review /\ run'[u].findings = run[u].findings,
           \A u \in Runs \ S : run'[u] = run[u]
    PROVE  Ledger!Abort(S) \/ UNCHANGED Ledger!ledger
<1>1. /\ UNCHANGED [t \in Runs |-> run[t].review]
      /\ UNCHANGED [t \in Runs |-> Len(run[t].findings)]
  BY SameWork
<1>2. UNCHANGED <<Seen, {t \in Runs : hitl[t] # "none"}, {t \in Runs : verdict[t] # "none"}>>
  BY DEF Seen
<1>3. \A u \in S : StageOf(run'[u].pc) = "ended" /\ StageOf(run[u].pc) \notin {"idle", "ended"}
  BY DEF StageOf, Ended, Alive, InThread
<1>4. CASE S = {}
  BY <1>1, <1>2, <1>4 DEF Ledger!ledger, Seen
<1>5. CASE S # {}
  BY <1>1, <1>2, <1>3, <1>5 DEF Ledger!Abort, Seen
<1> QED
  BY <1>4, <1>5

\* One step of a run, as the ledger sees it.
LEMMA LedgerSeesRunStep ==
    ASSUME IInv, NEW t \in Runs, RunStep(t)
    PROVE  Ledger!LedgerStep(t) \/ Ledger!Abort({t}) \/ UNCHANGED Ledger!ledger
<1> DEFINE queued == {u \in Runs : hitl[u] # "none"}
           announced == {u \in Runs : verdict[u] # "none"}
<1>1. /\ run \in [Runs -> RunRecord] /\ status \in [Reviews -> Statuses]
      /\ hitl \in [Runs -> Reasons \cup {"none"}] /\ verdict \in [Runs -> Decisions \cup {"none"}]
      /\ RunOK(t) /\ RunFrame(t)
  BY RunStepFrame DEF IInv, TypeOK, RunProgress
<1>2. /\ \A u \in Runs \ {t} : run'[u] = run[u] /\ hitl'[u] = hitl[u] /\ verdict'[u] = verdict[u]
      /\ run'[t].review = run[t].review
      /\ run[t].pc # "idle" /\ run[t].review \in Reviews
  BY <1>1 DEF RunFrame, Alive, InThread, RunOK
<1>3. Ledger!Advance(t, StageOf(run'[t].pc)) /\ UNCHANGED [u \in Runs |-> run[u].review]
  BY <1>2, Moves
<1>4. run'[t].findings = run[t].findings => UNCHANGED [u \in Runs |-> Len(run[u].findings)]
  BY <1>2
<1>5. /\ hitl'[t] = hitl[t] => UNCHANGED queued
      /\ verdict'[t] = verdict[t] => UNCHANGED announced
      /\ UNCHANGED status => UNCHANGED Seen
  BY <1>2 DEF Seen
<1> HIDE DEF queued, announced
<1>6. CASE StartThread(t) \/ PostReview(t) \/ PostFails(t)
  <2>1. /\ run'[t].findings = run[t].findings /\ UNCHANGED <<rows, status, hitl, verdict>>
        /\ \/ run[t].pc = "submitted" /\ run'[t].pc = "graph"
           \/ run[t].pc = "post" /\ run'[t].pc = "persist"
    <3>1. CASE StartThread(t)
      BY <1>1, <3>1 DEF StartThread, store, RunRecord
    <3>2. CASE PostReview(t)
      BY <1>1, <3>2 DEF PostReview, RunRecord
    <3>3. CASE PostFails(t)
      BY <1>1, <3>3 DEF PostFails, RunRecord
    <3> QED
      BY <1>6, <3>1, <3>2, <3>3
  <2>2. StageOf(run'[t].pc) = StageOf(run[t].pc)
    BY <2>1 DEF StageOf
  <2>3. UNCHANGED [u \in Runs |-> StageOf(run[u].pc)]
    BY <1>2, <2>2
  <2> QED
    BY <1>3, <1>4, <1>5, <2>1, <2>3 DEF Ledger!ledger, queued, announced, Seen
<1>7. CASE CompleteGraph(t)
  <2>1. PICK findings \in FindingLists :
          /\ run[t].pc = "graph" /\ UNCHANGED <<rows, status, hitl, verdict>>
          /\ run'[t].pc \in {"post", "persist"} /\ run'[t].findings = findings
    BY <1>1, <1>7 DEF CompleteGraph, store, RunRecord
  <2>2. Len(findings) \in 0..MaxFindings
    BY FindingListsAreSequences
  <2>3. [u \in Runs |-> Len(run'[u].findings)]
            = [[u \in Runs |-> Len(run[u].findings)] EXCEPT ![t] = Len(findings)]
    BY <1>2, <2>1
  <2>4. StageOf(run'[t].pc) = "insert" /\ StageOf(run[t].pc) = "analyse"
    BY <2>1 DEF StageOf
  <2>5. Ledger!CompleteGraph(t)
    BY <1>3, <1>5, <2>1, <2>2, <2>3, <2>4 DEF Ledger!CompleteGraph, queued, announced, Seen
  <2> QED
    BY <2>5 DEF Ledger!LedgerStep
<1>8. CASE InsertFinding(t)
  <2>1. /\ run[t].pc = "persist" /\ run'[t].pc = "persist" /\ run[t].next <= Len(run[t].findings)
        /\ rows' = rows \cup {<<t, run[t].next>>} /\ run'[t].findings = run[t].findings
        /\ UNCHANGED <<status, hitl, verdict>>
    BY <1>1, <1>8 DEF InsertFinding, RunRecord
  <2>2. run[t].next \in 1..Len(run[t].findings) /\ <<t, run[t].next>> \notin rows
    BY <1>1, <2>1, FindingListsAreSequences, Bounds DEF RunOK, RunRecord
  <2>3. StageOf(run[t].pc) = "insert" /\ UNCHANGED [u \in Runs |-> StageOf(run[u].pc)]
    BY <1>2, <2>1 DEF StageOf
  <2>4. Ledger!InsertFinding(t)
    BY <1>3, <1>4, <1>5, <2>1, <2>2, <2>3 DEF Ledger!InsertFinding, queued, announced, Seen
  <2> QED
    BY <2>4 DEF Ledger!LedgerStep
<1>9. CASE UpdateStatus(t)
  <2>1. /\ run[t].pc = "persist" /\ run[t].next > Len(run[t].findings)
        /\ status' = [status EXCEPT ![run[t].review] = StatusOf(t)]
        /\ run'[t].pc = IF run[t].decision = "auto_post" THEN "verdict" ELSE "hitl"
        /\ run'[t].findings = run[t].findings /\ UNCHANGED <<rows, hitl, verdict>>
    BY <1>1, <1>9 DEF UpdateStatus, RunRecord
  <2>2. \A i \in 1..Len(run[t].findings) : <<t, i>> \in rows
    BY <1>1, <2>1, FindingListsAreSequences, Bounds DEF RunOK, RunRecord
  <2>3. /\ StatusOf(t) \in Ledger!Settled
        /\ StageOf(run'[t].pc) = IF StatusOf(t) \in Ledger!Gated THEN "queue" ELSE "announce"
        /\ StageOf(run[t].pc) = "insert"
    BY <2>1 DEF StatusOf, StageOf, Ledger!Settled, Ledger!Gated
  <2>5. Seen' = [Seen EXCEPT ![run[t].review] = StatusOf(t)]
    BY <1>1, <2>1 DEF Seen, StatusOf
  <2>4. Ledger!Settle(t)
    BY <1>2, <1>3, <1>4, <1>5, <2>1, <2>2, <2>3, <2>5 DEF Ledger!Settle, queued, announced, Seen
  <2> QED
    BY <2>4 DEF Ledger!LedgerStep
<1>10. CASE EnqueueHitl(t)
  <2>1. /\ run[t].pc = "hitl" /\ run'[t].pc = "verdict" /\ hitl'[t] = ReasonOf(t)
        /\ run'[t].findings = run[t].findings /\ UNCHANGED <<rows, status, verdict>>
    BY <1>1, <1>10 DEF EnqueueHitl
  <2>2. queued' = queued \cup {t}
    BY <1>2, <2>1 DEF queued, ReasonOf
  <2>3. StageOf(run[t].pc) = "queue" /\ StageOf(run'[t].pc) = "announce"
    BY <2>1 DEF StageOf
  <2>4. Ledger!Enqueue(t)
    BY <1>3, <1>4, <1>5, <2>1, <2>2, <2>3 DEF Ledger!Enqueue, queued, announced, Seen
  <2> QED
    BY <2>4 DEF Ledger!LedgerStep
<1>11. ASSUME EmitDecision(t) \/ StatementFails(t), verdict' = [verdict EXCEPT ![t] = run[t].decision],
              run[t].pc = "verdict"
       PROVE  Ledger!Announce(t)
  <2>1. /\ run'[t].pc \in Ended /\ run'[t].findings = run[t].findings
        /\ UNCHANGED <<rows, status, hitl>>
    <3>1. CASE EmitDecision(t)
      BY <1>1, <3>1 DEF EmitDecision, Leave, Remains, IdleRun, Ended
    <3>2. CASE StatementFails(t)
      BY <1>1, <3>2 DEF StatementFails, Leave, Remains, IdleRun, Ended
    <3> QED
      BY <1>11, <3>1, <3>2
  <2>2. announced' = announced \cup {t}
    BY <1>1, <1>2, <1>11 DEF announced, RunOK, Decisions
  <2>3. StageOf(run[t].pc) = "announce" /\ StageOf(run'[t].pc) = "ended"
    BY <1>11, <2>1 DEF StageOf, Ended
  <2> QED
    BY <1>3, <1>4, <1>5, <2>1, <2>2, <2>3 DEF Ledger!Announce, queued, announced, Seen
<1>12. CASE EmitDecision(t)
  BY <1>11, <1>12 DEF EmitDecision, Ledger!LedgerStep
<1>13. CASE StatementFails(t) /\ UNCHANGED verdict
  <2>1. /\ Alive(t) /\ run'[t].pc \in Ended /\ run'[t].findings = run[t].findings
        /\ UNCHANGED <<rows, status, hitl, verdict>>
    BY <1>1, <1>13 DEF StatementFails, Leave, Remains, IdleRun, Ended, RunFrame
  <2> QED
    BY <1>2, <2>1, LedgerAborts
<1>14. StatementFails(t) => \/ UNCHANGED verdict
                            \/ verdict' = [verdict EXCEPT ![t] = run[t].decision] /\ run[t].pc = "verdict"
  BY DEF StatementFails
<1> QED
  BY <1>6, <1>7, <1>8, <1>9, <1>10, <1>11, <1>12, <1>13, <1>14 DEF RunStep, Ledger!LedgerStep

\* The runs that die with a process end before their time.
LEMMA LedgerSeesDeath ==
    ASSUME NEW p, KillRunsOf(p), UNCHANGED store
    PROVE  \E S \in SUBSET Runs : Ledger!Abort(S) \/ UNCHANGED Ledger!ledger
<1> DEFINE S == {u \in Runs : run[u].origin = p /\ Alive(u)}
<1>1. \A u \in Runs : IF u \in S THEN run'[u] = Remains(u, "killed") ELSE run'[u] = run[u]
  BY DEF KillRunsOf
<1>2. \A u \in S : /\ Alive(u) /\ run'[u].pc \in Ended
                   /\ run'[u].review = run[u].review /\ run'[u].findings = run[u].findings
  BY <1>1 DEF Remains, IdleRun, Ended
<1>3. UNCHANGED <<rows, status, hitl, verdict>>
  BY DEF store
<1>4. S \in SUBSET Runs
  OBVIOUS
<1> HIDE DEF S
<1> QED
  BY <1>1, <1>2, <1>3, <1>4, LedgerAborts

\* What the ledger sees of any step of the runs.
LEMMA LedgerSeesStep ==
    ASSUME IInv, [Next]_vars
    PROVE  [Ledger!LedgerNext]_(Ledger!ledger)
<1>1. ASSUME NEW w \in Workers, NEW r \in Reviews, NEW t \in JobRuns, TakeJob(w, r, t)
      PROVE  t \in Runs /\ Ledger!Begin(t, r)
  <2>1. t \in Runs /\ TypeOK /\ run[t] = IdleRun
    BY <1>1 DEF Runs, IInv, RunProgress, RunOK, TakeJob
  <2> QED
    BY <1>1, <2>1, LedgerBegins DEF TakeJob
<1>2. ASSUME NEW s \in Servers, NEW r \in Reviews, NEW t \in ManualRuns, ManualRun(s, r, t)
      PROVE  t \in Runs /\ Ledger!Begin(t, r)
  <2>1. t \in Runs /\ TypeOK /\ run[t] = IdleRun
    BY <1>2 DEF Runs, IInv, RunProgress, RunOK, ManualRun
  <2> QED
    BY <1>2, <2>1, LedgerBegins DEF ManualRun
<1>3. ASSUME NEW r \in Reviews, CoroutineStep(r) PROVE UNCHANGED Ledger!ledger
  BY <1>3 DEF CoroutineStep, JobExhausted, JobReturns, AnchorFailure, AnchorRaises, store,
              Ledger!ledger
<1>4. ASSUME NEW r \in Reviews, JobTimesOut(r)
      PROVE  \E S \in SUBSET Runs : Ledger!Abort(S) \/ UNCHANGED Ledger!ledger
  <2> DEFINE S == {u \in Runs : u = attempt[r] /\ run[u].pc = "submitted"}
  <2>1. \A u \in Runs : IF u \in S THEN run'[u] = [run[u] EXCEPT !.pc = "cancelled"]
                                    ELSE run'[u] = run[u]
    BY <1>4 DEF JobTimesOut, IInv, TypeOK, RunRecord
  <2>2. \A u \in S : /\ Alive(u) /\ run'[u].pc \in Ended
                     /\ run'[u].review = run[u].review /\ run'[u].findings = run[u].findings
    <3> TAKE u \in S
    <3>1. run[u].pc = "submitted" /\ run[u] \in RunRecord
      BY DEF IInv, TypeOK
    <3>2. run'[u] = [run[u] EXCEPT !.pc = "cancelled"]
      BY <2>1
    <3> QED
      BY <3>1, <3>2 DEF RunRecord, Alive, Ended
  <2>3. UNCHANGED <<rows, status, hitl, verdict>>
    BY <1>4 DEF JobTimesOut, store
  <2>4. S \in SUBSET Runs
    OBVIOUS
  <2> HIDE DEF S
  <2> QED
    BY <2>1, <2>2, <2>3, <2>4, LedgerAborts
<1>5. ASSUME NEW p, KillRunsOf(p), UNCHANGED store
      PROVE  \E S \in SUBSET Runs : Ledger!Abort(S) \/ UNCHANGED Ledger!ledger
  BY <1>5, LedgerSeesDeath
<1>6. ASSUME NEW t \in Runs, RunStep(t)
      PROVE  Ledger!LedgerStep(t) \/ Ledger!Abort({t}) \/ UNCHANGED Ledger!ledger
  BY <1>6, LedgerSeesRunStep
<1>7. CASE UNCHANGED vars
  BY <1>7 DEF vars, Ledger!ledger
<1> QED
  BY <1>1, <1>2, <1>3, <1>4, <1>5, <1>6, <1>7
  DEF Next, WorkerCrash, ApiCrash, Ledger!LedgerNext

\* Before anything has run, the ledger is empty.
LEMMA LedgerStarts ==
    ASSUME NothingRun, \A r \in Reviews : status[r] \in {"none", "pending"}
    PROVE  Ledger!LedgerInit
<1>1. \A t \in Runs : run[t].review = NoReview /\ run[t].pc = "idle" /\ run[t].findings = <<>>
  BY DEF NothingRun, IdleRun
<1>2. \A t \in Runs : Len(run[t].findings) = 0 /\ StageOf(run[t].pc) = "idle"
  BY <1>1 DEF StageOf, Ended
<1> QED
  BY <1>1, <1>2 DEF NothingRun, Ledger!LedgerInit

\* The runs implement the ledger: each writes its rows in that order and none twice,
\* whatever starts, kills, times out or repeats it.
THEOREM RunsImplementLedger == Spec => ImplementsLedger
<1>1. Init => Ledger!LedgerInit
  BY LedgerStarts DEF Init
<1>2. IInv /\ [Next]_vars => [Ledger!LedgerNext]_(Ledger!ledger)
  BY LedgerSeesStep
<1> QED
  BY <1>1, <1>2, RunsInvariant, PTL DEF Spec, ImplementsLedger, Ledger!LedgerSpec
=============================================================================
