--------------------------- MODULE DeliveryIntake ---------------------------
(***************************************************************************)
(* POST /webhook/github: screening, the idempotency check, the claim, the  *)
(* hand-over to the job queue and the answer                               *)
(* (webhook_receiver/router.py, reliability/idempotency.py and             *)
(* job_queue/arq_worker.py:enqueue_review).                                *)
(*                                                                         *)
(* A handler runs without interruption between two awaits: busy[s] says    *)
(* that the event loop of API process s is inside such a stretch.  Every   *)
(* SQL statement commits on its own, so other processes interleave between *)
(* any two of them.  The review id a claim draws is a fresh uuid4; it is   *)
(* named here by the request that draws it.                                *)
(***************************************************************************)
EXTENDS ReviewStore

CONSTANTS Deliveries,        \* (repo, pr_number, X-GitHub-Delivery) keys
          NoDelivery,
          SecretConfigured   \* GITHUB_WEBHOOK_SECRET is set

\* HTTP requests, first attempts and redeliveries, named by the review id they draw.
Requests == Reviews

ASSUME IntakeAssumption ==
    /\ NoDelivery \notin Deliveries
    /\ SecretConfigured \in BOOLEAN
    /\ Servers # {}

VARIABLES pc,          \* where the handler of each request stands
          home,        \* the API process that received it
          delivery,    \* the delivery key it carries
          reply,       \* what was answered
          redisUp

handlerVars == <<pc, home, delivery, reply>>
intakeVars == <<pc, home, delivery, reply, status, job, errorEvent, busy, redisUp>>

Locations == {"idle", "body", "check", "claim", "enqueue", "published", "emit", "done"}
\* 500: parse_webhook raises what is no PrReviewError.
Rejections == IF SecretConfigured THEN {"401", "pong", "400", "500"} ELSE {"503"}
Acknowledgements == {"duplicate", "queued", "unqueued"}   \* 200 and the two forms of 202
Replies == {"none", "401", "pong", "400", "503", "500", "lost"} \cup Acknowledgements

\* Where a handler runs synchronously, holding its process's event loop.
OnLoop == {"check", "claim", "emit"}

IntakeTypeOK ==
    /\ pc \in [Requests -> Locations]
    /\ home \in [Requests -> Servers]
    /\ delivery \in [Requests -> Deliveries \cup {NoDelivery}]
    /\ reply \in [Requests -> Replies]
    /\ status \in [Requests -> Statuses]
    /\ job \in [Requests -> JobStates]
    /\ errorEvent \in [Requests -> BOOLEAN]
    /\ busy \in [Servers -> BOOLEAN]
    /\ redisUp \in BOOLEAN

IntakeInit ==
    /\ pc = [r \in Requests |-> "idle"]
    /\ home \in [Requests -> Servers]
    /\ delivery = [r \in Requests |-> NoDelivery]
    /\ reply = [r \in Requests |-> "none"]
    /\ status = [r \in Requests |-> "none"]
    /\ job = [r \in Requests |-> "none"]
    /\ errorEvent = [r \in Requests |-> FALSE]
    /\ busy = [s \in Servers |-> FALSE]
    /\ redisUp = TRUE
-----------------------------------------------------------------------------
\* is_duplicate_delivery: the SELECT that looks for a row of the delivery.
IsDuplicateDelivery(d) == \E q \in Requests : status[q] # "none" /\ delivery[q] = d

\* A fault to compare Taken with: no UNIQUE constraint.
NeverTaken(d) == FALSE

\* UNIQUE (repo, pr_number, delivery_uuid): an INSERT of the delivery would violate it.
Taken(d) == \E q \in Requests : status[q] # "none" /\ delivery[q] = d

Goto(r, location) == pc' = [pc EXCEPT ![r] = location]

\* The handler returns (or raises) while it holds the event loop.
Finish(r, answer) ==
    /\ Goto(r, "done")
    /\ reply' = [reply EXCEPT ![r] = answer]
    /\ busy' = [busy EXCEPT ![home[r]] = FALSE]

Arrive(r, d) ==
    /\ pc[r] = "idle"
    /\ Goto(r, "body")
    /\ delivery' = [delivery EXCEPT ![r] = d]
    /\ UNCHANGED <<home, reply, status, job, errorEvent, busy, redisUp>>

\* No secret, a bad signature, a ping or an unusable payload: answered at once.
Reject(r) ==
    /\ pc[r] = "body"
    /\ ~busy[home[r]]
    /\ Goto(r, "done")
    /\ \E answer \in Rejections : reply' = [reply EXCEPT ![r] = answer]
    /\ UNCHANGED <<home, delivery, status, job, errorEvent, busy, redisUp>>

Admit(r) ==
    /\ pc[r] = "body"
    /\ SecretConfigured
    /\ ~busy[home[r]]
    /\ Goto(r, "check")
    /\ busy' = [busy EXCEPT ![home[r]] = TRUE]
    /\ UNCHANGED <<home, delivery, reply, status, job, errorEvent, redisUp>>

Check(r) ==
    /\ pc[r] = "check"
    /\ \/ IsDuplicateDelivery(delivery[r]) /\ Finish(r, "duplicate")
       \/ ~IsDuplicateDelivery(delivery[r]) /\ Goto(r, "claim") /\ UNCHANGED <<reply, busy>>
    /\ UNCHANGED <<home, delivery, status, job, errorEvent, redisUp>>

\* A fault to compare Claim with: the INSERT overwrites a claim that is there.
ClaimUpserting(r) ==
    /\ pc[r] = "claim"
    /\ status' = [status EXCEPT ![r] = "pending"]
    /\ Goto(r, "enqueue")
    /\ busy' = [busy EXCEPT ![home[r]] = FALSE]
    /\ UNCHANGED <<home, delivery, reply, job, errorEvent, redisUp>>

\* The INSERT succeeds; the handler goes on to await enqueue_review.
Claim(r) ==
    /\ pc[r] = "claim"
    /\ ~Taken(delivery[r])
    /\ status' = [status EXCEPT ![r] = "pending"]
    /\ Goto(r, "enqueue")
    /\ busy' = [busy EXCEPT ![home[r]] = FALSE]
    /\ UNCHANGED <<home, delivery, reply, job, errorEvent, redisUp>>

\* IdempotencyError: another process claimed between the SELECT and the INSERT.
ClaimRefused(r) ==
    /\ pc[r] = "claim"
    /\ Taken(delivery[r])
    /\ Finish(r, "duplicate")
    /\ UNCHANGED <<home, delivery, status, job, errorEvent, redisUp>>

\* The INSERT commits and the connection breaks before its result arrives.
ClaimUnacknowledged(r) ==
    /\ pc[r] = "claim"
    /\ ~Taken(delivery[r])
    /\ status' = [status EXCEPT ![r] = "pending"]
    /\ Finish(r, "500")
    /\ UNCHANGED <<home, delivery, job, errorEvent, redisUp>>

\* get_connection or a statement raises: nothing is written, the answer is 500.
StoreFails(r) ==
    /\ pc[r] \in OnLoop
    /\ Finish(r, "500")
    /\ UNCHANGED <<home, delivery, status, job, errorEvent, redisUp>>

\* pool.enqueue_job takes effect in Redis, under a random job id.
Publish(r) ==
    /\ pc[r] = "enqueue"
    /\ redisUp
    /\ job' = [job EXCEPT ![r] = "queued"]
    /\ Goto(r, "published")
    /\ UNCHANGED <<home, delivery, reply, status, errorEvent, busy, redisUp>>

EnqueueReturns(r) ==
    /\ pc[r] = "published"
    /\ ~busy[home[r]]
    /\ Goto(r, "done")
    /\ reply' = [reply EXCEPT ![r] = "queued"]
    /\ UNCHANGED <<home, delivery, status, job, errorEvent, busy, redisUp>>

\* A fault to compare EnqueueFails with: the publication is retried until its outcome is certain.
RetryUntilCertain(r) ==
    /\ pc[r] \in {"enqueue", "published"}
    /\ ~busy[home[r]]
    /\ Goto(r, "enqueue")
    /\ UNCHANGED <<home, delivery, reply, status, job, errorEvent, busy, redisUp>>

\* Any outage, before or after the publication took effect, is the builtin
\* ConnectionError; the handler goes on to emit the error event.
EnqueueFails(r) ==
    /\ pc[r] \in {"enqueue", "published"}
    /\ ~busy[home[r]]
    /\ Goto(r, "emit")
    /\ busy' = [busy EXCEPT ![home[r]] = TRUE]
    /\ UNCHANGED <<home, delivery, reply, status, job, errorEvent, redisUp>>

\* An exception outside the normalised classes escapes the handler.
EnqueueRaises(r) ==
    /\ pc[r] \in {"enqueue", "published"}
    /\ ~busy[home[r]]
    /\ Goto(r, "done")
    /\ reply' = [reply EXCEPT ![r] = "500"]
    /\ UNCHANGED <<home, delivery, status, job, errorEvent, busy, redisUp>>

\* A fault to compare EmitQueueError with: the answer goes out before the error event.
AnswerWithoutTrace(r) ==
    /\ pc[r] = "emit"
    /\ Finish(r, "unqueued")
    /\ UNCHANGED <<home, delivery, status, job, errorEvent, redisUp>>

EmitQueueError(r) ==
    /\ pc[r] = "emit"
    /\ errorEvent' = [errorEvent EXCEPT ![r] = TRUE]
    /\ Finish(r, "unqueued")
    /\ UNCHANGED <<home, delivery, status, job, redisUp>>

RedisFlips ==
    /\ redisUp' = ~redisUp
    /\ UNCHANGED <<handlerVars, status, job, errorEvent, busy>>

InFlight(r) == pc[r] \notin {"idle", "done"}

LoseRequestsOf(s) ==
    /\ pc' = [r \in Requests |-> IF home[r] = s /\ InFlight(r) THEN "done" ELSE pc[r]]
    /\ reply' = [r \in Requests |-> IF home[r] = s /\ InFlight(r) THEN "lost" ELSE reply[r]]
    /\ UNCHANGED <<home, delivery>>

\* The API process dies with every request it is serving, and is started again.
ServerCrash(s) ==
    /\ \E r \in Requests : home[r] = s /\ InFlight(r)
    /\ LoseRequestsOf(s)
    /\ busy' = [busy EXCEPT ![s] = FALSE]
    /\ UNCHANGED <<status, job, errorEvent, redisUp>>
-----------------------------------------------------------------------------
HandlerStep(r) ==
    \/ Reject(r) \/ Admit(r) \/ Check(r)
    \/ Claim(r) \/ ClaimRefused(r) \/ ClaimUnacknowledged(r) \/ StoreFails(r)
    \/ Publish(r) \/ EnqueueReturns(r) \/ EnqueueFails(r) \/ EnqueueRaises(r)
    \/ EmitQueueError(r)

IntakeNext ==
    \/ \E r \in Requests, d \in Deliveries : Arrive(r, d)
    \/ \E r \in Requests : HandlerStep(r)
    \/ RedisFlips
    \/ \E s \in Servers : ServerCrash(s)

IntakeSpec == IntakeInit /\ [][IntakeNext]_intakeVars

\* The event loop resumes a ready handler, and every statement and Redis call
\* returns or fails: both have connection timeouts.
IntakeFairness == \A r \in Requests : WF_intakeVars(HandlerStep(r))
IntakeFairSpec == IntakeSpec /\ IntakeFairness
-----------------------------------------------------------------------------
Claimed(r) == status[r] # "none"

\* A delivery never gets two reviews, whichever processes its redeliveries race
\* through: the claim-once rule of reliability/idempotency.py.
OneReviewPerDelivery ==
    \A q, r \in Requests :
        Claimed(q) /\ Claimed(r) /\ delivery[q] = delivery[r] => q = r

\* GitHub is told "accepted" or "duplicate" only when a review of that delivery is
\* durable, so an acknowledged delivery need never be sent again.
AcknowledgedIsClaimed ==
    \A r \in Requests : reply[r] \in Acknowledgements =>
        \E q \in Requests : Claimed(q) /\ delivery[q] = delivery[r]

\* "queued": true is said only of a job that was published, and a job is published
\* only for a review whose row is committed (a worker may take it at once).
QueueAgreesWithRecords ==
    \A r \in Requests :
        /\ reply[r] = "queued" => job[r] # "none"
        /\ job[r] # "none" => Claimed(r)

\* A claimed review that has neither a job nor an error event was left by a handler
\* that died or answered 500: it is never behind a 202.
StrandedIsVisible ==
    \A r \in Requests :
        Claimed(r) /\ pc[r] = "done" /\ job[r] = "none" /\ ~errorEvent[r]
            => reply[r] \in {"500", "lost"}

\* What the handler promises, whatever races, is redelivered, fails or dies: one review
\* for a delivery, an answer that is true of the store and of the queue, and no review
\* left behind by a handler that acknowledged it.
PromisesAreKept ==
    OneReviewPerDelivery /\ AcknowledgedIsClaimed /\ QueueAgreesWithRecords /\ StrandedIsVisible

\* Every request is answered or lost with its process, also while Redis is down for good.
EveryRequestEnds == \A r \in Requests : pc[r] = "body" ~> pc[r] = "done"

claims == {<<delivery[r], r>> : r \in {q \in Requests : Claimed(q)}}
acked == {delivery[r] : r \in {q \in Requests : reply[q] \in Acknowledgements}}
enqueued == {r \in Requests : job[r] # "none"}

Ownership == INSTANCE DeliveryLedger

\* The handler keeps the promises of DeliveryLedger: ownership is exclusive and for
\* ever, acknowledgement and publication only ever follow it.
ImplementsOwnership == Ownership!LedgerSpec
=============================================================================
