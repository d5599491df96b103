---------------------------- MODULE ReviewSystem ----------------------------
(***************************************************************************)
(* The whole path of a review: webhook ingress (DeliveryIntake) and the    *)
(* runs of the pipeline (ReviewRuns) over the state they share             *)
(* (ReviewStore).  A manual run keeps its API process from serving         *)
(* webhooks, and an API process dies with both.                            *)
(***************************************************************************)
EXTENDS ReviewRuns, DeliveryIntake

ingressVars == <<pc, home, delivery, reply, redisUp>>
runVars == <<tries, attempt, result, run, rows, hitl, verdict, landed, faults>>
systemVars == <<status, job, errorEvent, busy, ingressVars, runVars>>

SystemInit == IntakeInit /\ NothingRun

IngressStep ==
    /\ \/ \E r \in Requests, d \in Deliveries : Arrive(r, d)
       \/ \E r \in Requests : HandlerStep(r)
       \/ RedisFlips
    /\ UNCHANGED runVars

PipelineStep ==
    /\ \/ \E w \in Workers, r \in Reviews, t \in JobRuns : TakeJob(w, r, t)
       \/ \E r \in Reviews : CoroutineStep(r) \/ JobTimesOut(r)
       \/ \E w \in Workers : WorkerCrash(w)
       \/ \E s \in Servers, r \in Reviews, t \in ManualRuns : ManualRun(s, r, t)
       \/ \E t \in Runs : RunStep(t)
    /\ UNCHANGED ingressVars

\* An API process dies with its requests and its manual run.
ApiProcessCrash(s) ==
    /\ GoesWrong("crash", MaxCrashes)
    /\ LoseRequestsOf(s)
    /\ KillRunsOf(s)
    /\ busy' = [busy EXCEPT ![s] = FALSE]
    /\ UNCHANGED <<store, jobVars, redisUp>>

SystemNext == IngressStep \/ PipelineStep \/ \E s \in Servers : ApiProcessCrash(s)

SystemSpec == SystemInit /\ [][SystemNext]_systemVars

\* The fairness of the two parts.
SystemFairness ==
    /\ \A r \in Requests : WF_systemVars(HandlerStep(r) /\ UNCHANGED runVars)
    /\ \A r \in Reviews : WF_systemVars((\E w \in Workers, t \in JobRuns : TakeJob(w, r, t))
                                        /\ UNCHANGED ingressVars)
    /\ \A r \in Reviews : WF_systemVars(CoroutineStep(r) /\ UNCHANGED ingressVars)
    /\ \A t \in Runs : WF_systemVars(RunStep(t) /\ UNCHANGED ingressVars)

SystemFairSpec == SystemSpec /\ SystemFairness
-----------------------------------------------------------------------------
\* Whatever is redelivered, crashes or times out, two workers never process the
\* same delivery at the same time.
DeliveryNotDoubleProcessed ==
    \A t, u \in Runs :
        /\ Alive(t) /\ Alive(u)
        /\ {run[t].origin, run[u].origin} \subseteq Workers
        /\ delivery[run[t].review] = delivery[run[u].review]
        => t = u

\* A run only ever works on a review whose row is durable, so every row it inserts
\* finds the review it refers to.
RunHasRecord ==
    \A t \in Runs : run[t].pc # "idle" => status[run[t].review] # "none"

\* An event loop executes one thing at a time: a handler or a manual run.
LoopIsExclusive ==
    \A s \in Servers :
        \A r \in Requests, t \in Runs :
            ~ /\ home[r] = s /\ pc[r] \in OnLoop
              /\ run[t].origin = s /\ Alive(t)

\* Types, and the two structural promises of the composition.
SystemIsConsistent == IntakeTypeOK /\ TypeOK /\ RunHasRecord /\ LoopIsExclusive

\* Every request gets its answer, also when a manual run holds the event loop of its
\* process for as long as the pipeline takes; and an accepted delivery leads to a decided
\* review, or to an error event that says it was not queued or did not run. Only a worker
\* that dies in every try, and an event that cannot be written, leave neither.
AcceptedIsResolved ==
    /\ EveryRequestEnds
    /\ \A r \in Requests :
          reply[r] \in {"queued", "unqueued"}
              ~> (status[r] # "pending" \/ errorEvent[r] \/ result[r] \in {"exhausted", "raised"})
=============================================================================
