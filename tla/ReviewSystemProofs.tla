------------------------- MODULE ReviewSystemProofs -------------------------
(***************************************************************************)
(* Webhook ingress by itself, and with the runs of the pipeline, for any   *)
(* number of processes, workers, deliveries and reviews: the invariants of *)
(* the handler and its refinement of DeliveryLedger; that ingress and the  *)
(* pipeline keep each other's invariants; that a process's event loop is   *)
(* never in two hands, and no delivery is processed by two workers at      *)
(* once.                                                                   *)
(***************************************************************************)
EXTENDS ReviewSystem, ReviewRunsProofs

(* Ingress by itself. *)

\* What a handler's location says of the durable state.  A review id that has not
\* been drawn has no row; from the claim on it has one; the delivery key of a
\* request changes only while nothing is recorded under it.
HandlerProgress ==
    \A r \in Requests :
        /\ pc[r] \in {"idle", "body", "check", "claim"} => ~Claimed(r)
        /\ pc[r] \in {"enqueue", "published", "emit"} => Claimed(r)
        /\ pc[r] = "published" => job[r] # "none"
        /\ pc[r] = "enqueue" => job[r] = "none"
        /\ pc[r] # "done" => reply[r] = "none"

\* The inductive invariant of the handler.
IntakeInv ==
    /\ IntakeTypeOK
    /\ HandlerProgress
    /\ OneReviewPerDelivery
    /\ AcknowledgedIsClaimed
    /\ QueueAgreesWithRecords
    /\ StrandedIsVisible
-----------------------------------------------------------------------------
\* The steps of ingress, crashes apart, keep the types.
LEMMA IngressType ==
    ASSUME IntakeTypeOK,
           \/ \E r \in Requests, d \in Deliveries : Arrive(r, d)
           \/ \E r \in Requests : HandlerStep(r)
           \/ RedisFlips
    PROVE  IntakeTypeOK'
<1> USE DEF IntakeTypeOK, Locations, Replies, Acknowledgements, Statuses, JobStates, Goto, Finish
<1>1. ASSUME NEW r \in Requests, NEW d \in Deliveries, Arrive(r, d) PROVE IntakeTypeOK'
  BY <1>1 DEF Arrive
<1>2. ASSUME NEW r \in Requests, Reject(r) PROVE IntakeTypeOK'
  BY <1>2 DEF Reject, Rejections
<1>3. ASSUME NEW r \in Requests, Admit(r) \/ Check(r) PROVE IntakeTypeOK'
  BY <1>3 DEF Admit, Check
<1>4. ASSUME NEW r \in Requests,
             Claim(r) \/ ClaimRefused(r) \/ ClaimUnacknowledged(r) \/ StoreFails(r)
      PROVE IntakeTypeOK'
  BY <1>4 DEF Claim, ClaimRefused, ClaimUnacknowledged, StoreFails
<1>5. ASSUME NEW r \in Requests, Publish(r) \/ EnqueueReturns(r) PROVE IntakeTypeOK'
  BY <1>5 DEF Publish, EnqueueReturns
<1>6. ASSUME NEW r \in Requests,
             EnqueueFails(r) \/ EnqueueRaises(r) \/ EmitQueueError(r)
      PROVE IntakeTypeOK'
  BY <1>6 DEF EnqueueFails, EnqueueRaises, EmitQueueError
<1>7. CASE RedisFlips
  BY <1>7 DEF RedisFlips, handlerVars
<1> QED
  BY <1>1, <1>2, <1>3, <1>4, <1>5, <1>6, <1>7 DEF HandlerStep

\* So does the death of a process.
LEMMA LossType ==
    ASSUME IntakeTypeOK, NEW s \in Servers, LoseRequestsOf(s), busy' = [busy EXCEPT ![s] = FALSE],
           UNCHANGED <<status, job, errorEvent, redisUp>>
    PROVE  IntakeTypeOK'
BY DEF IntakeTypeOK, LoseRequestsOf, Locations, Replies, Acknowledgements

\* The variables of the handler only ever hold the values the code gives them.
THEOREM TypeCorrect == IntakeSpec => []IntakeTypeOK
<1>1. IntakeInit => IntakeTypeOK
  BY IntakeAssumption
  DEF IntakeInit, IntakeTypeOK, Locations, Replies, Acknowledgements, Statuses, JobStates
<1>2. IntakeTypeOK /\ [IntakeNext]_intakeVars => IntakeTypeOK'
  <2>1. ASSUME IntakeTypeOK, NEW s \in Servers, ServerCrash(s) PROVE IntakeTypeOK'
    BY <2>1, LossType DEF ServerCrash
  <2>2. ASSUME IntakeTypeOK, UNCHANGED intakeVars PROVE IntakeTypeOK'
    BY <2>2 DEF intakeVars, IntakeTypeOK
  <2> QED
    BY <2>1, <2>2, IngressType DEF IntakeNext
<1> QED
  BY <1>1, <1>2, PTL DEF IntakeSpec
-----------------------------------------------------------------------------
\* Nothing has been received yet.
LEMMA IntakeStarts == IntakeInit => IntakeInv
<1> SUFFICES ASSUME IntakeInit PROVE IntakeInv
  OBVIOUS
<1>1. IntakeTypeOK
  BY IntakeAssumption
  DEF IntakeInit, IntakeTypeOK, Locations, Replies, Acknowledgements, Statuses, JobStates
<1>2. \A r \in Requests : /\ pc[r] = "idle" /\ reply[r] = "none"
                          /\ status[r] = "none" /\ job[r] = "none"
  BY DEF IntakeInit
<1> QED
  BY <1>1, <1>2 DEF IntakeInv, HandlerProgress, OneReviewPerDelivery, AcknowledgedIsClaimed, Claimed,
                    Acknowledgements, QueueAgreesWithRecords, StrandedIsVisible

\* One step of ingress keeps its invariant.
LEMMA IngressInv ==
    ASSUME IntakeInv, IntakeTypeOK',
           \/ \E r \in Requests, d \in Deliveries : Arrive(r, d)
           \/ \E r \in Requests : HandlerStep(r)
           \/ RedisFlips
    PROVE  IntakeInv'
<1> USE DEF IntakeInv, IntakeTypeOK, HandlerProgress, OneReviewPerDelivery, AcknowledgedIsClaimed,
            Acknowledgements, QueueAgreesWithRecords, StrandedIsVisible, Claimed, Goto, Finish
<1>1. ASSUME NEW r \in Requests, NEW d \in Deliveries, Arrive(r, d) PROVE IntakeInv'
  BY <1>1 DEF Arrive
<1>2. ASSUME NEW r \in Requests, Reject(r) PROVE IntakeInv'
  BY <1>2 DEF Reject, Rejections
<1>3. ASSUME NEW r \in Requests, Admit(r) PROVE IntakeInv'
  BY <1>3 DEF Admit
<1>4. ASSUME NEW r \in Requests, Check(r) PROVE IntakeInv'
  BY <1>4 DEF Check, IsDuplicateDelivery
<1>5. ASSUME NEW r \in Requests, Claim(r) PROVE IntakeInv'
  BY <1>5 DEF Claim, Taken
<1>6. ASSUME NEW r \in Requests, ClaimRefused(r) PROVE IntakeInv'
  BY <1>6 DEF ClaimRefused, Taken
<1>7. ASSUME NEW r \in Requests, ClaimUnacknowledged(r) PROVE IntakeInv'
  BY <1>7 DEF ClaimUnacknowledged, Taken
<1>8. ASSUME NEW r \in Requests, StoreFails(r) PROVE IntakeInv'
  BY <1>8 DEF StoreFails, OnLoop
<1>9. ASSUME NEW r \in Requests, Publish(r) PROVE IntakeInv'
  BY <1>9 DEF Publish
<1>10. ASSUME NEW r \in Requests, EnqueueReturns(r) PROVE IntakeInv'
  BY <1>10 DEF EnqueueReturns
<1>11. ASSUME NEW r \in Requests, EnqueueFails(r) PROVE IntakeInv'
  BY <1>11 DEF EnqueueFails
<1>12. ASSUME NEW r \in Requests, EnqueueRaises(r) PROVE IntakeInv'
  BY <1>12 DEF EnqueueRaises
<1>13. ASSUME NEW r \in Requests, EmitQueueError(r) PROVE IntakeInv'
  BY <1>13 DEF EmitQueueError
<1>14. CASE RedisFlips
  BY <1>14 DEF RedisFlips, handlerVars
<1> QED
  BY <1>1, <1>2, <1>3, <1>4, <1>5, <1>6, <1>7, <1>8, <1>9, <1>10, <1>11, <1>12, <1>13, <1>14
  DEF HandlerStep

\* The requests of a process are lost, the store and the queue are not.
LEMMA LossInv ==
    ASSUME IntakeInv, IntakeTypeOK', NEW s \in Servers, LoseRequestsOf(s),
           UNCHANGED <<status, job, errorEvent>>
    PROVE  IntakeInv'
BY DEF IntakeInv, IntakeTypeOK, HandlerProgress, OneReviewPerDelivery, AcknowledgedIsClaimed, InFlight,
       Acknowledgements, QueueAgreesWithRecords, StrandedIsVisible, Claimed, LoseRequestsOf

\* What others do to the shared state: they settle claimed reviews, run published jobs
\* and add error events.
Respects ==
    /\ UNCHANGED handlerVars
    /\ \A r \in Requests : /\ Claimed(r)' <=> Claimed(r)
                           /\ job'[r] = "none" <=> job[r] = "none"
                           /\ errorEvent[r] => errorEvent'[r]

\* The handler's invariant relies on no more than that.
LEMMA RespectedInv ==
    ASSUME IntakeInv, Respects, IntakeTypeOK'
    PROVE  IntakeInv'
BY DEF Respects, handlerVars, IntakeInv, HandlerProgress, OneReviewPerDelivery, AcknowledgedIsClaimed,
       Acknowledgements, QueueAgreesWithRecords, StrandedIsVisible, Claimed

\* Every reachable state of the handler satisfies the inductive invariant.
THEOREM InvariantHolds == IntakeSpec => []IntakeInv
<1>1. IntakeInv /\ IntakeTypeOK' /\ [IntakeNext]_intakeVars => IntakeInv'
  <2>1. ASSUME IntakeInv, IntakeTypeOK', NEW s \in Servers, ServerCrash(s) PROVE IntakeInv'
    BY <2>1, LossInv DEF ServerCrash
  <2>2. ASSUME IntakeInv, IntakeTypeOK', UNCHANGED intakeVars PROVE IntakeInv'
    BY <2>2, RespectedInv DEF intakeVars, handlerVars, Respects, Claimed
  <2> QED
    BY <2>1, <2>2, IngressInv DEF IntakeNext
<1> QED
  BY IntakeStarts, <1>1, TypeCorrect, PTL DEF IntakeSpec

\* Claim-once: no interleaving of processes gives a delivery a second review.
THEOREM ClaimOnce == IntakeSpec => []OneReviewPerDelivery
BY InvariantHolds, PTL DEF IntakeInv

\* No delivery is acknowledged before a review of it is durable.
THEOREM AckAfterClaim == IntakeSpec => []AcknowledgedIsClaimed
BY InvariantHolds, PTL DEF IntakeInv

\* The queue never runs ahead of the records, nor the answer ahead of the queue.
THEOREM QueueAfterClaim == IntakeSpec => []QueueAgreesWithRecords
BY InvariantHolds, PTL DEF IntakeInv

\* A 202 never hides a review that nobody was told to run.
THEOREM NoSilentStranding == IntakeSpec => []StrandedIsVisible
BY InvariantHolds, PTL DEF IntakeInv

\* The promises of the handler (router.py:87-144) together.
THEOREM PromisesKept == IntakeSpec => []PromisesAreKept
BY ClaimOnce, AckAfterClaim, QueueAfterClaim, NoSilentStranding, PTL DEF PromisesAreKept
-----------------------------------------------------------------------------
\* Steps of the handler that touch neither records, acknowledgements nor the queue
\* are stutters of the ledger.
LEMMA LedgerUntouched ==
    ASSUME UNCHANGED <<delivery, status, job>>,
           \A r \in Requests : reply'[r] \in Acknowledgements <=> reply[r] \in Acknowledgements
    PROVE  UNCHANGED <<claims, acked, enqueued>>
BY DEF claims, acked, enqueued, Claimed

\* A handler that answers "accepted" or "duplicate" acknowledges its delivery.
LEMMA AnswerAcknowledges ==
    ASSUME IntakeTypeOK, NEW r \in Requests, NEW answer \in Acknowledgements,
           reply' = [reply EXCEPT ![r] = answer],
           pc[r] # "done", HandlerProgress,
           UNCHANGED <<delivery, status, job>>,
           \E q \in Requests : Claimed(q) /\ delivery[q] = delivery[r],
           delivery[r] \in Deliveries
    PROVE  Ownership!Acknowledge(delivery[r])
<1>1. acked' = acked \cup {delivery[r]}
  BY DEF acked, IntakeTypeOK, HandlerProgress, Acknowledgements
<1>2. UNCHANGED <<claims, enqueued>>
  BY DEF claims, enqueued, Claimed
<1>3. Ownership!Owned(delivery[r])
  BY DEF Ownership!Owned, claims, Requests
<1> QED
  BY <1>1, <1>2, <1>3 DEF Ownership!Acknowledge

\* A handler past its first await carries the delivery key it parsed.
Carries == \A r \in Requests : pc[r] # "idle" => delivery[r] \in Deliveries

\* Every step of ingress keeps that.
LEMMA CarriesStep ==
    ASSUME IntakeTypeOK, Carries,
           \/ \E r \in Requests, d \in Deliveries : Arrive(r, d)
           \/ \E r \in Requests : HandlerStep(r)
           \/ RedisFlips
    PROVE  Carries'
BY DEF IntakeTypeOK, Carries, HandlerStep, Goto, Finish, Arrive, Reject, Admit, Check,
       Claim, ClaimRefused, ClaimUnacknowledged, StoreFails, OnLoop, Publish, EnqueueReturns,
       EnqueueFails, EnqueueRaises, EmitQueueError, RedisFlips, handlerVars

\* So does the death of a process.
LEMMA CarriesLoss ==
    ASSUME Carries, NEW s \in Servers, LoseRequestsOf(s)
    PROVE  Carries'
BY DEF Carries, LoseRequestsOf, InFlight

\* And so does every step of the handler by itself.
LEMMA CarriesInvariant == IntakeSpec => []Carries
<1>1. IntakeInit => Carries
  BY DEF IntakeInit, Carries
<1>2. IntakeTypeOK /\ Carries /\ [IntakeNext]_intakeVars => Carries'
  BY CarriesStep, CarriesLoss DEF IntakeNext, ServerCrash, intakeVars, Carries
<1> QED
  BY <1>1, <1>2, TypeCorrect, PTL DEF IntakeSpec

\* The INSERT makes the delivery owned by the review it inserted, and by no other.
LEMMA InsertOwns ==
    ASSUME IntakeInv, Carries, NEW r \in Requests, pc[r] = "claim", ~Taken(delivery[r]),
           status' = [status EXCEPT ![r] = "pending"],
           UNCHANGED <<delivery, job>>,
           \A q \in Requests : reply'[q] \in Acknowledgements <=> reply[q] \in Acknowledgements
    PROVE  Ownership!Own(delivery[r], r) /\ delivery[r] \in Deliveries
<1> USE DEF IntakeInv, IntakeTypeOK, Claimed
<1>1. delivery[r] \in Deliveries /\ ~Claimed(r)
  BY DEF Carries, HandlerProgress
<1>2. claims' = claims \cup {<<delivery[r], r>>}
  BY <1>1 DEF claims
<1>3. ~Ownership!Owned(delivery[r])
  BY DEF Ownership!Owned, claims, Taken
<1>4. ~Ownership!Owner(r)
  BY <1>1 DEF Ownership!Owner, claims
<1>5. UNCHANGED <<acked, enqueued>>
  BY DEF acked, enqueued
<1> QED
  BY <1>1, <1>2, <1>3, <1>4, <1>5 DEF Ownership!Own

\* The ledger records nothing.
Stutter == UNCHANGED <<claims, acked, enqueued>>

\* Every step of ingress is a step of the ledger, or none.
LEMMA IngressOwns ==
    ASSUME IntakeInv, Carries,
           \/ \E r \in Requests, d \in Deliveries : Arrive(r, d)
           \/ \E r \in Requests : HandlerStep(r)
           \/ RedisFlips
    PROVE  [Ownership!LedgerNext]_(Ownership!ledgerVars)
<1> DEFINE SameAnswers == \A r \in Requests :
               reply'[r] \in Acknowledgements <=> reply[r] \in Acknowledgements
<1> USE DEF IntakeInv, Acknowledgements, Stutter
<1>1. ASSUME NEW r \in Requests, NEW d \in Deliveries, Arrive(r, d) PROVE Stutter
  <2>1. ~Claimed(r) /\ reply[r] = "none"
    BY <1>1 DEF Arrive, HandlerProgress
  <2>2. \A q \in Requests : q # r => delivery'[q] = delivery[q]
    BY <1>1 DEF Arrive, IntakeTypeOK
  <2> QED
    BY <1>1, <2>1, <2>2 DEF Arrive, claims, acked, enqueued, Claimed
<1>2. ASSUME NEW r \in Requests, Reject(r) \/ Admit(r) \/ StoreFails(r)
      PROVE  Stutter
  <2>1. SameAnswers
    BY <1>2 DEF Reject, Admit, StoreFails, Finish, OnLoop, Rejections, IntakeTypeOK, HandlerProgress
  <2> QED
    BY <1>2, <2>1, LedgerUntouched DEF Reject, Admit, StoreFails
<1>3. ASSUME NEW r \in Requests, Check(r)
      PROVE  Stutter \/ (delivery[r] \in Deliveries /\ Ownership!Acknowledge(delivery[r]))
  <2>1. CASE IsDuplicateDelivery(delivery[r]) /\ Finish(r, "duplicate")
    <3>1. Ownership!Acknowledge(delivery[r]) /\ delivery[r] \in Deliveries
      BY <1>3, <2>1, AnswerAcknowledges
         DEF Check, Finish, IsDuplicateDelivery, Claimed, Carries
    <3> QED
      BY <3>1
  <2>2. CASE UNCHANGED <<reply, busy>>
    BY <1>3, <2>2, LedgerUntouched DEF Check
  <2> QED
    BY <1>3, <2>1, <2>2 DEF Check
<1>4. ASSUME NEW r \in Requests, Claim(r) \/ ClaimUnacknowledged(r)
      PROVE  delivery[r] \in Deliveries /\ Ownership!Own(delivery[r], r)
  <2>1. SameAnswers
    BY <1>4 DEF Claim, ClaimUnacknowledged, Finish, IntakeTypeOK, HandlerProgress
  <2> QED
    BY <1>4, <2>1, InsertOwns DEF Claim, ClaimUnacknowledged
<1>5. ASSUME NEW r \in Requests, ClaimRefused(r)
      PROVE  delivery[r] \in Deliveries /\ Ownership!Acknowledge(delivery[r])
  BY <1>5, AnswerAcknowledges DEF ClaimRefused, Finish, Taken, Claimed, Carries
<1>6. ASSUME NEW r \in Requests, Publish(r) PROVE Ownership!Enqueue(r)
  <2>1. Claimed(r) /\ job[r] = "none" /\ delivery[r] \in Deliveries
    BY <1>6 DEF Publish, HandlerProgress, Carries
  <2>2. Ownership!Owner(r) /\ r \notin enqueued
    BY <2>1 DEF Ownership!Owner, claims, enqueued
  <2>3. enqueued' = enqueued \cup {r}
    BY <1>6 DEF Publish, enqueued, IntakeTypeOK
  <2>4. UNCHANGED <<claims, acked>>
    BY <1>6 DEF Publish, claims, acked, Claimed
  <2> QED
    BY <2>2, <2>3, <2>4 DEF Ownership!Enqueue
<1>7. ASSUME NEW r \in Requests, EnqueueReturns(r) \/ EmitQueueError(r)
      PROVE  delivery[r] \in Deliveries /\ Ownership!Acknowledge(delivery[r])
  BY <1>7, AnswerAcknowledges
     DEF EnqueueReturns, EmitQueueError, Finish, HandlerProgress, Carries
<1>8. ASSUME NEW r \in Requests, EnqueueFails(r) \/ EnqueueRaises(r) PROVE Stutter
  <2>1. SameAnswers
    BY <1>8 DEF EnqueueFails, EnqueueRaises, IntakeTypeOK, HandlerProgress
  <2> QED
    BY <1>8, <2>1, LedgerUntouched DEF EnqueueFails, EnqueueRaises
<1>9. ASSUME RedisFlips PROVE Stutter
  BY <1>9 DEF RedisFlips, handlerVars, claims, acked, enqueued, Claimed
<1>10. Stutter => [Ownership!LedgerNext]_(Ownership!ledgerVars)
  BY DEF Ownership!ledgerVars
<1> QED
  BY <1>1, <1>2, <1>3, <1>4, <1>5, <1>6, <1>7, <1>8, <1>9, <1>10
  DEF HandlerStep, Ownership!LedgerNext, Requests

\* The death of a process is no step of the ledger: it answers nobody.
LEMMA LossOwns ==
    ASSUME IntakeInv, NEW s \in Servers, LoseRequestsOf(s), UNCHANGED <<status, job, errorEvent>>
    PROVE  Stutter
<1>1. \A r \in Requests : reply'[r] \in Acknowledgements <=> reply[r] \in Acknowledgements
  BY DEF LoseRequestsOf, InFlight, IntakeInv, IntakeTypeOK, HandlerProgress, Acknowledgements
<1> QED
  BY <1>1, LedgerUntouched DEF LoseRequestsOf, Stutter

\* Nor is what others do to the shared state.
LEMMA RespectOwns == ASSUME Respects PROVE Stutter
BY DEF Respects, Stutter, handlerVars, claims, acked, enqueued

\* Nobody owns anything at first.
LEMMA OwnershipStarts == IntakeInit => Ownership!LedgerInit
BY DEF IntakeInit, Ownership!LedgerInit, claims, acked, enqueued, Claimed, Acknowledgements

\* The webhook handler implements the ledger: exclusive, permanent ownership, with
\* acknowledgement and publication only after it.
THEOREM HandlerImplementsLedger == IntakeSpec => ImplementsOwnership
<1>1. IntakeInv /\ Carries /\ [IntakeNext]_intakeVars => [Ownership!LedgerNext]_(Ownership!ledgerVars)
  <2> SUFFICES ASSUME IntakeInv, Carries, [IntakeNext]_intakeVars
               PROVE  [Ownership!LedgerNext]_(Ownership!ledgerVars)
    OBVIOUS
  <2>1. ASSUME NEW s \in Servers, ServerCrash(s) PROVE Stutter
    BY <2>1, LossOwns DEF ServerCrash
  <2>2. ASSUME UNCHANGED intakeVars PROVE Stutter
    BY <2>2, RespectOwns DEF intakeVars, handlerVars, Respects, Claimed
  <2>3. Stutter => UNCHANGED Ownership!ledgerVars
    BY DEF Ownership!ledgerVars, Stutter
  <2> QED
    BY <2>1, <2>2, <2>3, IngressOwns DEF IntakeNext
<1> QED
  BY OwnershipStarts, <1>1, InvariantHolds, CarriesInvariant, PTL
  DEF IntakeSpec, ImplementsOwnership, Ownership!LedgerSpec
-----------------------------------------------------------------------------
(* Ingress and the pipeline together. *)

\* What holds the event loop of process s.
HandlerOn(r, s) == home[r] = s /\ pc[r] \in OnLoop
RunOn(t, s) == run[t].origin = s /\ Alive(t)

\* The loop is marked busy for whatever holds it, and one thing holds it at a time.
LoopOK(s) ==
    /\ \A r \in Requests : HandlerOn(r, s) => busy[s]
    /\ \A t \in Runs : RunOn(t, s) => busy[s]
    /\ \A q, r \in Requests : HandlerOn(q, s) /\ HandlerOn(r, s) => q = r
    /\ \A t, u \in Runs : RunOn(t, s) /\ RunOn(u, s) => t = u
    /\ \A r \in Requests, t \in Runs : ~(HandlerOn(r, s) /\ RunOn(t, s))

LoopsOK == \A s \in Servers : LoopOK(s)

\* The inductive invariant of the composition.
SystemInv ==
    /\ IInv
    /\ IntakeInv
    /\ Carries
    /\ RunHasRecord
    /\ LoopsOK
-----------------------------------------------------------------------------
(* What ingress does to the runs. *)

\* It records reviews that have no row, publishes jobs that were not, and adds
\* error events.
Offers ==
    /\ UNCHANGED runVars
    /\ \A r \in Reviews :
          /\ status'[r] = status[r] \/ (status[r] = "none" /\ status'[r] = "pending")
          /\ job'[r] = job[r] \/ (job[r] = "none" /\ job'[r] = "queued")
          /\ errorEvent[r] => errorEvent'[r]

\* No step of ingress does more than that.
LEMMA IngressOffers == ASSUME IntakeInv, IngressStep PROVE Offers
<1> USE DEF Requests, Offers, IngressStep
<1>1. ASSUME NEW r \in Requests, HandlerStep(r) PROVE Offers
  <2> USE DEF IntakeInv, IntakeTypeOK, HandlerProgress, Claimed
  <2>1. CASE Claim(r) \/ ClaimUnacknowledged(r)
    BY <2>1 DEF Claim, ClaimUnacknowledged
  <2>2. CASE Publish(r)
    BY <2>2 DEF Publish
  <2>3. CASE EmitQueueError(r)
    BY <2>3 DEF EmitQueueError
  <2>4. CASE Reject(r) \/ Admit(r) \/ Check(r) \/ ClaimRefused(r) \/ StoreFails(r)
    BY <2>4 DEF Reject, Admit, Check, ClaimRefused, StoreFails
  <2>5. CASE EnqueueReturns(r) \/ EnqueueFails(r) \/ EnqueueRaises(r)
    BY <2>5 DEF EnqueueReturns, EnqueueFails, EnqueueRaises
  <2> QED
    BY <1>1, <2>1, <2>2, <2>3, <2>4, <2>5 DEF HandlerStep
<1>2. ASSUME NEW r \in Requests, NEW d \in Deliveries, Arrive(r, d) PROVE Offers
  BY <1>2 DEF Arrive
<1>3. ASSUME RedisFlips PROVE Offers
  BY <1>3 DEF RedisFlips
<1> QED
  BY <1>1, <1>2, <1>3

\* Ingress keeps the types of the runs.
LEMMA OffersType == ASSUME TypeOK, IntakeTypeOK', UNCHANGED runVars PROVE TypeOK'
BY DEF TypeOK, IntakeTypeOK, Requests, runVars

\* Ingress keeps the invariant of the runs: nothing they rely on is taken back.
LEMMA OffersInv == ASSUME IInv, Offers, TypeOK' PROVE IInv'
<1>1. UNCHANGED <<run, rows, hitl, verdict, landed, attempt, result>>
  BY DEF Offers, runVars
<1>2. RunProgress'
  <2> SUFFICES ASSUME NEW t \in Runs PROVE RunOK(t)'
    BY DEF RunProgress
  <2>1. RunOK(t)
    BY DEF IInv, RunProgress
  <2>2. run[t].review \in Reviews /\ Settled(run[t].review) => Settled(run[t].review)'
    BY <1>1 DEF Offers, Settled
  <2> QED
    BY <1>1, <2>1, <2>2 DEF RunOK, Written, Ended
<1>3. JobProgress'
  BY <1>1 DEF IInv, JobProgress, Awaits, Alive, Offers
<1>4. LiveRunsAreAwaited'
  BY <1>1 DEF IInv, RunProgress, RunOK, LiveRunsAreAwaited, Alive, InThread, Offers
<1>5. OneWorkerRunPerReview' /\ GatedReviewIsQueued'
  BY <1>1 DEF IInv, OneWorkerRunPerReview, GatedReviewIsQueued, Alive, Offers
<1>6. JobResultIsTrue' /\ PostedIsOnGitHub'
  BY <1>1 DEF IInv, JobResultIsTrue, PostedIsOnGitHub, Offers
<1> QED
  BY <1>2, <1>3, <1>4, <1>5, <1>6 DEF IInv
-----------------------------------------------------------------------------
(* What the runs do to ingress. *)

\* Every step of the pipeline keeps the invariant of the runs.
LEMMA PipelineInv == ASSUME IInv, PipelineStep PROVE IInv'
BY TakeJobInv, CoroutineInv, TimeoutInv, WorkerCrashInv, ManualRunInv, RunStepInv DEF PipelineStep

\* And the types of the handlers.
LEMMA PipelineType == ASSUME IntakeTypeOK, TypeOK', UNCHANGED ingressVars PROVE IntakeTypeOK'
BY DEF TypeOK, IntakeTypeOK, Requests, ingressVars

\* A run step writes the status of a review that has a row, and nothing else that
\* ingress reads.
LEMMA RunRespects ==
    ASSUME IInv, RunHasRecord, NEW t \in Runs, RunStep(t), UNCHANGED ingressVars
    PROVE  Respects
<1>1. RunFrame(t)
  BY RunStepFrame DEF IInv, RunProgress
<1>2. UNCHANGED <<handlerVars, job, errorEvent>>
  BY <1>1 DEF RunFrame, ingressVars, handlerVars
<1>3. UNCHANGED status \/ UpdateStatus(t)
  BY DEF RunStep, StartThread, CompleteGraph, PostReview, PostFails, InsertFinding, EnqueueHitl,
         EmitDecision, StatementFails, store
<1>4. ASSUME UpdateStatus(t), NEW r \in Reviews PROVE Claimed(r)' <=> Claimed(r)
  <2>1. status' = [status EXCEPT ![run[t].review] = StatusOf(t)] /\ run[t].pc # "idle"
    BY <1>4 DEF UpdateStatus
  <2>2. StatusOf(t) # "none" /\ Claimed(run[t].review)
    BY <2>1 DEF StatusOf, RunHasRecord, Claimed
  <2> QED
    BY <2>1, <2>2 DEF Claimed, IInv, TypeOK
<1> QED
  BY <1>2, <1>3, <1>4 DEF Respects, Claimed, Requests

\* Jobs move on, and are never unpublished.
LEMMA JobRespects ==
    ASSUME IInv, UNCHANGED ingressVars,
           \/ \E w \in Workers, r \in Reviews, t \in JobRuns : TakeJob(w, r, t)
           \/ \E r \in Reviews : CoroutineStep(r) \/ JobTimesOut(r)
           \/ \E w \in Workers : WorkerCrash(w)
           \/ \E s \in Servers, r \in Reviews, t \in ManualRuns : ManualRun(s, r, t)
    PROVE  Respects
<1> USE DEF Respects, Claimed, Requests, ingressVars, handlerVars, store, jobVars, IInv, TypeOK
<1>1. ASSUME NEW w \in Workers, NEW r \in Reviews, NEW t \in JobRuns, TakeJob(w, r, t)
      PROVE  Respects
  BY <1>1 DEF TakeJob
<1>2. ASSUME NEW r \in Reviews, CoroutineStep(r) PROVE Respects
  BY <1>2 DEF CoroutineStep, JobExhausted, JobReturns, AnchorFailure, AnchorRaises, Close
<1>3. ASSUME NEW r \in Reviews, JobTimesOut(r) PROVE Respects
  BY <1>3 DEF JobTimesOut, Close
<1>4. ASSUME NEW w \in Workers, WorkerCrash(w) PROVE Respects
  BY <1>4 DEF WorkerCrash, RunningOn
<1>5. ASSUME NEW s \in Servers, NEW r \in Reviews, NEW t \in ManualRuns, ManualRun(s, r, t)
      PROVE  Respects
  BY <1>5 DEF ManualRun
<1> QED
  BY <1>1, <1>2, <1>3, <1>4, <1>5

\* The pipeline keeps to what ingress expects of it.
LEMMA PipelineRespects == ASSUME IInv, RunHasRecord, PipelineStep PROVE Respects
BY RunRespects, JobRespects DEF PipelineStep
-----------------------------------------------------------------------------
(* A run never loses the row of its review. *)

\* A step that begins no run keeps every run's record.
LEMMA RecordKept ==
    ASSUME RunHasRecord, \A r \in Reviews : Claimed(r) => Claimed(r)', RunProgress,
           \A t \in Runs : run'[t].pc # "idle" => /\ run[t].pc # "idle"
                                                  /\ run'[t].review = run[t].review
    PROVE  RunHasRecord'
BY DEF RunHasRecord, RunProgress, RunOK, Claimed

\* A step that begins one finds the row: the job was published after the claim, and a
\* manual run looks for it.
LEMMA RecordFound ==
    ASSUME IInv, RunHasRecord, UNCHANGED status, NEW t \in Runs, NEW r \in Reviews, Claimed(r),
           NEW p, NEW location, Begin(t, r, p, location)
    PROVE  RunHasRecord'
BY DEF RunHasRecord, Claimed, Begin, IdleRun, IInv, TypeOK

\* So every step of the pipeline leaves each run with the row of its review.
LEMMA PipelineRecord ==
    ASSUME IInv, IntakeInv, RunHasRecord, PipelineStep
    PROVE  RunHasRecord'
<1>1. \A r \in Reviews : Claimed(r) => Claimed(r)'
  BY PipelineRespects DEF Respects, Requests
<1>2. RunProgress /\ run \in [Runs -> RunRecord]
  BY DEF IInv, TypeOK
<1>3. ASSUME NEW w \in Workers, NEW r \in Reviews, NEW t \in JobRuns, TakeJob(w, r, t)
      PROVE  RunHasRecord'
  <2>1. Claimed(r) /\ t \in Runs /\ UNCHANGED status
    BY <1>3 DEF IntakeInv, QueueAgreesWithRecords, Requests, Runs, TakeJob, store
  <2> QED
    BY <1>3, <2>1, RecordFound DEF TakeJob
<1>4. ASSUME NEW s \in Servers, NEW r \in Reviews, NEW t \in ManualRuns, ManualRun(s, r, t)
      PROVE  RunHasRecord'
  <2>1. Claimed(r) /\ t \in Runs /\ UNCHANGED status
    BY <1>4 DEF Claimed, Runs, ManualRun, store
  <2> QED
    BY <1>4, <2>1, RecordFound DEF ManualRun
<1>5. ASSUME NEW r \in Reviews, CoroutineStep(r) PROVE RunHasRecord'
  BY <1>1, <1>2, <1>5, RecordKept DEF CoroutineStep, JobExhausted, JobReturns, AnchorFailure, AnchorRaises
<1>6. ASSUME NEW r \in Reviews, JobTimesOut(r) PROVE RunHasRecord'
  <2>1. \A u \in Runs : run'[u].pc # "idle" => run[u].pc # "idle" /\ run'[u].review = run[u].review
    BY <1>2, <1>6 DEF JobTimesOut, RunRecord
  <2> QED
    BY <1>1, <1>2, <2>1, RecordKept
<1>7. ASSUME NEW w \in Workers, WorkerCrash(w) PROVE RunHasRecord'
  <2>1. \A u \in Runs : run'[u].pc # "idle" => run[u].pc # "idle" /\ run'[u].review = run[u].review
    BY <1>7, KillInv DEF WorkerCrash, Alive, InThread
  <2> QED
    BY <1>1, <1>2, <2>1, RecordKept
<1>8. ASSUME NEW t \in Runs, RunStep(t) PROVE RunHasRecord'
  <2>1. RunFrame(t)
    BY <1>2, <1>8, RunStepFrame DEF IInv, RunProgress
  <2>2. \A u \in Runs : run'[u].pc # "idle" => run[u].pc # "idle" /\ run'[u].review = run[u].review
    BY <2>1 DEF RunFrame, Alive, InThread
  <2> QED
    BY <1>1, <1>2, <2>2, RecordKept
<1> QED
  BY <1>3, <1>4, <1>5, <1>6, <1>7, <1>8 DEF PipelineStep
-----------------------------------------------------------------------------
(* The event loops. *)

\* Nothing new holds the loop of s.
Shrinks(s) ==
    /\ \A r \in Requests : HandlerOn(r, s)' => HandlerOn(r, s)
    /\ \A t \in Runs : RunOn(t, s)' => RunOn(t, s)

\* A loop that is left alone.
LEMMA LoopKept ==
    ASSUME NEW s \in Servers, LoopOK(s), Shrinks(s), busy'[s] = busy[s]
    PROVE  LoopOK(s)'
BY DEF LoopOK, Shrinks

\* What held the loop lets go of it: nothing else held it.
LEMMA LoopGiven ==
    ASSUME NEW s \in Servers, LoopOK(s), Shrinks(s),
           \/ \E r \in Requests : HandlerOn(r, s) /\ ~HandlerOn(r, s)'
           \/ \E t \in Runs : RunOn(t, s) /\ ~RunOn(t, s)'
    PROVE  LoopOK(s)'
<1>1. (\A r \in Requests : ~HandlerOn(r, s)') /\ (\A t \in Runs : ~RunOn(t, s)')
  BY DEF LoopOK, Shrinks
<1> QED
  BY <1>1 DEF LoopOK

\* A handler takes a loop that is free.
LEMMA LoopTakenByHandler ==
    ASSUME NEW s \in Servers, LoopOK(s), ~busy[s], busy'[s], NEW r \in Requests,
           \A q \in Requests \ {r} : HandlerOn(q, s)' => HandlerOn(q, s),
           \A t \in Runs : RunOn(t, s)' => RunOn(t, s)
    PROVE  LoopOK(s)'
BY DEF LoopOK

\* So does a manual run.
LEMMA LoopTakenByRun ==
    ASSUME NEW s \in Servers, LoopOK(s), ~busy[s], busy'[s], NEW t \in Runs,
           \A u \in Runs \ {t} : RunOn(u, s)' => RunOn(u, s),
           \A r \in Requests : HandlerOn(r, s)' => HandlerOn(r, s)
    PROVE  LoopOK(s)'
BY DEF LoopOK

\* A step of a handler takes its loop, keeps what it has, or gives it back.
LEMMA HandlerLoop ==
    ASSUME IntakeTypeOK, LoopsOK, NEW r \in Requests, HandlerStep(r), UNCHANGED run
    PROVE  LoopsOK'
<1> SUFFICES ASSUME NEW s \in Servers PROVE LoopOK(s)'
  BY DEF LoopsOK
<1>1. LoopOK(s) /\ \A t \in Runs : RunOn(t, s)' => RunOn(t, s)
  BY DEF LoopsOK, RunOn, Alive
<1>2. /\ pc \in [Requests -> Locations] /\ busy \in [Servers -> BOOLEAN] /\ home[r] \in Servers
      /\ UNCHANGED home
  BY DEF IntakeTypeOK, HandlerStep, Reject, Admit, Check, Claim, ClaimRefused, ClaimUnacknowledged,
         StoreFails, Publish, EnqueueReturns, EnqueueFails, EnqueueRaises, EmitQueueError
<1>3. \A q \in Requests \ {r} : pc'[q] = pc[q]
  BY <1>2 DEF HandlerStep, Reject, Admit, Check, Claim, ClaimRefused, ClaimUnacknowledged,
         StoreFails, Publish, EnqueueReturns, EnqueueFails, EnqueueRaises, EmitQueueError, Goto, Finish
<1>4. \A q \in Requests \ {r} : HandlerOn(q, s)' => HandlerOn(q, s)
  BY <1>2, <1>3 DEF HandlerOn
<1>5. CASE Admit(r) \/ EnqueueFails(r)
  <2>1. ~busy[home[r]] /\ busy' = [busy EXCEPT ![home[r]] = TRUE]
    BY <1>5 DEF Admit, EnqueueFails
  <2>2. CASE s = home[r]
    BY <1>1, <1>2, <1>4, <2>1, <2>2, LoopTakenByHandler
  <2>3. CASE s # home[r]
    BY <1>1, <1>2, <1>4, <2>1, <2>3, LoopKept DEF Shrinks, HandlerOn
  <2> QED
    BY <2>2, <2>3
<1>6. ASSUME UNCHANGED busy, pc[r] \in OnLoop \/ pc'[r] \notin OnLoop PROVE LoopOK(s)'
  BY <1>1, <1>2, <1>4, <1>6, LoopKept DEF Shrinks, HandlerOn
<1>7. ASSUME pc[r] \in OnLoop, pc'[r] \notin OnLoop, busy' = [busy EXCEPT ![home[r]] = FALSE]
      PROVE  LoopOK(s)'
  <2>1. Shrinks(s)
    BY <1>1, <1>4, <1>7 DEF Shrinks, HandlerOn
  <2>2. CASE s = home[r]
    BY <1>1, <1>2, <1>7, <2>1, <2>2, LoopGiven DEF HandlerOn
  <2>3. CASE s # home[r]
    BY <1>1, <1>2, <1>7, <2>1, <2>3, LoopKept
  <2> QED
    BY <2>2, <2>3
<1>8. CASE Reject(r) \/ Publish(r) \/ EnqueueReturns(r) \/ EnqueueRaises(r)
  BY <1>2, <1>6, <1>8 DEF Reject, Publish, EnqueueReturns, EnqueueRaises, Goto, OnLoop
<1>9. CASE Check(r)
  BY <1>2, <1>6, <1>7, <1>9 DEF Check, Finish, Goto, OnLoop
<1>10. CASE Claim(r) \/ ClaimRefused(r) \/ ClaimUnacknowledged(r) \/ StoreFails(r) \/ EmitQueueError(r)
  BY <1>2, <1>7, <1>10
  DEF Claim, ClaimRefused, ClaimUnacknowledged, StoreFails, EmitQueueError, Finish, Goto, OnLoop
<1> QED
  BY <1>5, <1>8, <1>9, <1>10 DEF HandlerStep

\* A step of ingress keeps the loops in order.
LEMMA IngressLoop ==
    ASSUME IntakeTypeOK, LoopsOK, IngressStep
    PROVE  LoopsOK'
<1>1. UNCHANGED run
  BY DEF IngressStep, runVars
<1>2. ASSUME NEW r \in Requests, NEW d \in Deliveries, Arrive(r, d) PROVE LoopsOK'
  <2>1. UNCHANGED <<home, busy, run>> /\ \A q \in Requests : pc'[q] \in OnLoop => pc[q] \in OnLoop
    BY <1>1, <1>2 DEF Arrive, Goto, OnLoop, IntakeTypeOK
  <2> QED
    BY <2>1, LoopKept DEF LoopsOK, Shrinks, HandlerOn, RunOn, Alive
<1>3. ASSUME RedisFlips PROVE LoopsOK'
  BY <1>1, <1>3, LoopKept DEF RedisFlips, handlerVars, LoopsOK, Shrinks, HandlerOn, RunOn, Alive
<1> QED
  BY <1>1, <1>2, <1>3, HandlerLoop DEF IngressStep

\* A manual run takes the loop of its process, and gives it back when it ends; the
\* runs of the workers hold none.
LEMMA PipelineLoop ==
    ASSUME IInv, LoopsOK, PipelineStep
    PROVE  LoopsOK'
<1> SUFFICES ASSUME NEW s \in Servers PROVE LoopOK(s)'
  BY DEF LoopsOK
<1>1. /\ LoopOK(s) /\ s \notin Workers
      /\ run \in [Runs -> RunRecord] /\ busy \in [Servers -> BOOLEAN]
  BY RunsAssumption DEF LoopsOK, IInv, TypeOK
<1>2. \A r \in Requests : HandlerOn(r, s)' => HandlerOn(r, s)
  BY DEF PipelineStep, ingressVars, HandlerOn
<1>3. ASSUME busy'[s] = busy[s],
             \A t \in Runs : RunOn(t, s)' => RunOn(t, s)
      PROVE  LoopOK(s)'
  BY <1>1, <1>2, <1>3, LoopKept DEF Shrinks
<1>4. ASSUME NEW w \in Workers, NEW r \in Reviews, NEW t \in JobRuns, TakeJob(w, r, t)
      PROVE  LoopOK(s)'
  <2>1. /\ t \in Runs /\ run'[t].origin = w /\ UNCHANGED busy
        /\ \A u \in Runs \ {t} : run'[u] = run[u]
    BY <1>1, <1>4 DEF Runs, TakeJob, Begin, IdleRun
  <2> QED
    BY <1>1, <1>3, <2>1 DEF RunOn, Alive
<1>5. ASSUME NEW q \in Servers, NEW r \in Reviews, NEW t \in ManualRuns, ManualRun(q, r, t)
      PROVE  LoopOK(s)'
  <2>1. /\ t \in Runs /\ run'[t].origin = q /\ ~busy[q] /\ busy' = [busy EXCEPT ![q] = TRUE]
        /\ \A u \in Runs \ {t} : run'[u] = run[u]
    BY <1>1, <1>5 DEF Runs, ManualRun, Begin, IdleRun
  <2>2. \A u \in Runs \ {t} : RunOn(u, s)' => RunOn(u, s)
    BY <2>1 DEF RunOn, Alive
  <2>3. CASE s = q
    BY <1>1, <1>2, <2>1, <2>2, <2>3, LoopTakenByRun
  <2>4. CASE s # q
    BY <1>1, <1>3, <2>1, <2>2, <2>4 DEF RunOn
  <2> QED
    BY <2>3, <2>4
<1>6. ASSUME NEW r \in Reviews, CoroutineStep(r) PROVE LoopOK(s)'
  BY <1>3, <1>6 DEF CoroutineStep, JobExhausted, JobReturns, AnchorFailure, AnchorRaises, RunOn, Alive
<1>7. ASSUME NEW r \in Reviews, JobTimesOut(r) PROVE LoopOK(s)'
  <2>1. \A u \in Runs : run'[u].origin = run[u].origin /\ (Alive(u)' => Alive(u))
    BY <1>1, <1>7 DEF JobTimesOut, RunRecord, Alive, InThread
  <2> QED
    BY <1>3, <1>7, <2>1 DEF JobTimesOut, RunOn
<1>8. ASSUME NEW w \in Workers, WorkerCrash(w) PROVE LoopOK(s)'
  <2>1. \A u \in Runs : run'[u].origin = run[u].origin /\ (Alive(u)' => Alive(u))
    BY <1>8, KillInv DEF WorkerCrash, Alive, InThread
  <2> QED
    BY <1>3, <1>8, <2>1 DEF WorkerCrash, RunOn
<1>9. ASSUME NEW t \in Runs, RunStep(t) PROVE LoopOK(s)'
  <2>1. RunFrame(t)
    BY <1>9, RunStepFrame DEF IInv, RunProgress
  <2>2. /\ \A u \in Runs \ {t} : run'[u] = run[u]
        /\ run'[t].origin = run[t].origin /\ Alive(t)
    BY <2>1 DEF RunFrame
  <2>3. \A u \in Runs : RunOn(u, s)' => RunOn(u, s)
    BY <2>2 DEF RunOn, Alive
  <2>4. \/ UNCHANGED busy
        \/ /\ busy' = IF Manual(t) THEN [busy EXCEPT ![run[t].origin] = FALSE] ELSE busy
           /\ run'[t].pc \in Ended
    <3>1. ASSUME NEW location \in {"returned", "raised"}, Leave(t, location)
          PROVE  run'[t].pc \in Ended
      BY <1>1, <3>1 DEF Leave, Remains, IdleRun, Ended
    <3> QED
      BY <1>9, <3>1 DEF RunStep, StartThread, CompleteGraph, PostReview, PostFails, InsertFinding,
                        UpdateStatus, EnqueueHitl, EmitDecision, StatementFails, Leave
  <2>5. CASE busy'[s] = busy[s]
    BY <1>3, <2>3, <2>5
  <2>6. CASE run[t].origin = s /\ run'[t].pc \in Ended
    <3>1. RunOn(t, s) /\ ~RunOn(t, s)'
      BY <2>2, <2>6 DEF RunOn, Alive, InThread, Ended
    <3> QED
      BY <1>1, <1>2, <2>3, <3>1, LoopGiven DEF Shrinks
  <2> QED
    BY <1>1, <2>4, <2>5, <2>6 DEF Manual
<1> QED
  BY <1>4, <1>5, <1>6, <1>7, <1>8, <1>9 DEF PipelineStep

\* A process dies: whatever held its loop is gone, and the other loops are not touched.
LEMMA CrashLoop ==
    ASSUME IInv, IntakeTypeOK, LoopsOK, NEW s \in Servers, LoseRequestsOf(s), KillRunsOf(s),
           UNCHANGED <<store, jobVars>>, busy' = [busy EXCEPT ![s] = FALSE]
    PROVE  LoopsOK'
<1> SUFFICES ASSUME NEW q \in Servers PROVE LoopOK(q)'
  BY DEF LoopsOK
<1>1. LoopOK(q) /\ busy \in [Servers -> BOOLEAN]
  BY DEF LoopsOK, IntakeTypeOK
<1>2. \A r \in Requests : HandlerOn(r, q)' => HandlerOn(r, q) /\ q # s
  BY DEF LoseRequestsOf, HandlerOn, InFlight, OnLoop
<1>3. \A t \in Runs : RunOn(t, q)' => RunOn(t, q) /\ q # s
  BY KillInv DEF RunOn, Alive, InThread, jobVars
<1>4. CASE q = s
  BY <1>2, <1>3, <1>4 DEF LoopOK
<1>5. CASE q # s
  BY <1>1, <1>2, <1>3, <1>5, LoopKept DEF Shrinks
<1> QED
  BY <1>4, <1>5
-----------------------------------------------------------------------------
(* The composition. *)

\* Nothing has been received and nothing runs.
LEMMA SystemStarts == SystemInit => SystemInv
<1> SUFFICES ASSUME SystemInit PROVE SystemInv
  OBVIOUS
<1>1. IntakeInv /\ Carries
  BY IntakeStarts DEF SystemInit, IntakeInit, Carries
<1>2. IInv
  BY NothingRunInv DEF SystemInit, IntakeInit, Requests
<1>3. \A t \in Runs : run[t].pc = "idle"
  BY DEF SystemInit, NothingRun, IdleRun
<1>4. RunHasRecord
  BY <1>3 DEF RunHasRecord
<1>5. LoopsOK
  BY <1>3 DEF SystemInit, IntakeInit, LoopsOK, LoopOK, HandlerOn, RunOn, Alive, InThread, OnLoop
<1> QED
  BY <1>1, <1>2, <1>4, <1>5 DEF SystemInv

\* Ingress keeps the invariant of the composition.
LEMMA IngressKeeps == ASSUME SystemInv, IngressStep PROVE SystemInv'
<1> USE DEF SystemInv
<1>1. IntakeTypeOK'
  BY IngressType DEF IngressStep, IntakeInv
<1>2. IntakeInv' /\ Carries'
  BY <1>1, IngressInv, CarriesStep DEF IngressStep, IntakeInv
<1>3. Offers
  BY IngressOffers
<1>4. IInv'
  BY <1>1, <1>3, OffersType, OffersInv DEF IInv, IngressStep
<1>5. RunHasRecord'
  BY <1>3, RecordKept DEF Offers, runVars, Claimed, IInv
<1>6. LoopsOK'
  BY IngressLoop DEF IntakeInv
<1> QED
  BY <1>2, <1>4, <1>5, <1>6

\* The pipeline keeps it.
LEMMA PipelineKeeps == ASSUME SystemInv, PipelineStep PROVE SystemInv'
<1> USE DEF SystemInv
<1>1. IInv'
  BY PipelineInv
<1>2. IntakeTypeOK'
  BY <1>1, PipelineType DEF IInv, IntakeInv, PipelineStep
<1>3. IntakeInv'
  BY <1>2, RespectedInv, PipelineRespects
<1>4. Carries'
  BY DEF PipelineStep, ingressVars, Carries
<1> QED
  BY <1>1, <1>3, <1>4, PipelineRecord, PipelineLoop

\* The death of an API process keeps it.
LEMMA CrashKeeps == ASSUME SystemInv, NEW s \in Servers, ApiProcessCrash(s) PROVE SystemInv'
<1> USE DEF SystemInv, ApiProcessCrash
<1>1. UNCHANGED <<status, job, errorEvent>>
  BY DEF store, jobVars
<1>2. TypeOK'
  BY KillType, RunsAssumption DEF IInv, TypeOK, GoesWrong, store, jobVars
<1>3. IInv'
  BY <1>2, ApiKillInv
<1>4. IntakeInv' /\ Carries'
  BY <1>1, LossType, LossInv, CarriesLoss DEF IntakeInv
<1>5. RunHasRecord'
  <2>1. \A t \in Runs : run'[t].pc # "idle" => run[t].pc # "idle" /\ run'[t].review = run[t].review
    BY KillInv DEF jobVars, Alive, InThread
  <2> QED
    BY <1>1, <2>1, RecordKept DEF IInv, Claimed
<1>6. LoopsOK'
  BY CrashLoop DEF IntakeInv
<1> QED
  BY <1>3, <1>4, <1>5, <1>6

\* A stutter keeps it.
LEMMA StutterKeeps == ASSUME SystemInv, UNCHANGED systemVars PROVE SystemInv'
<1> USE DEF SystemInv, systemVars, ingressVars, runVars
<1>1. Offers /\ Respects
  BY DEF Offers, Respects, handlerVars, Claimed
<1>2. TypeOK' /\ IntakeTypeOK'
  BY DEF IInv, IntakeInv, TypeOK, IntakeTypeOK
<1>3. IInv' /\ IntakeInv'
  BY <1>1, <1>2, OffersInv, RespectedInv
<1>4. Carries' /\ RunHasRecord' /\ LoopsOK'
  BY DEF Carries, RunHasRecord, LoopsOK, LoopOK, HandlerOn, RunOn, Alive
<1> QED
  BY <1>3, <1>4

\* Every reachable state of the composition satisfies its inductive invariant.
THEOREM SystemInvariant == SystemSpec => []SystemInv
<1>1. SystemInv /\ [SystemNext]_systemVars => SystemInv'
  BY IngressKeeps, PipelineKeeps, CrashKeeps, StutterKeeps DEF SystemNext
<1> QED
  BY SystemStarts, <1>1, PTL DEF SystemSpec

\* A run always finds the row of its review, and an event loop executes one thing at a
\* time, be it a webhook handler or a manual run (main.py:run_review is synchronous).
THEOREM SystemConsistent == SystemSpec => []SystemIsConsistent
<1>1. SystemInv => SystemIsConsistent
  BY DEF SystemInv, IInv, IntakeInv, LoopsOK, LoopOK, HandlerOn, RunOn, SystemIsConsistent, LoopIsExclusive
<1> QED
  BY <1>1, SystemInvariant, PTL

\* No delivery is in the hands of two workers: it has one review, and a review has one
\* worker run.
THEOREM NotDoubleProcessed == SystemSpec => []DeliveryNotDoubleProcessed
<1>1. ASSUME SystemInv PROVE DeliveryNotDoubleProcessed
  <2> SUFFICES ASSUME NEW t \in Runs, NEW u \in Runs, Alive(t), Alive(u),
                      {run[t].origin, run[u].origin} \subseteq Workers,
                      delivery[run[t].review] = delivery[run[u].review]
               PROVE  t = u
    BY DEF DeliveryNotDoubleProcessed
  <2>1. /\ run[t].review \in Reviews /\ Claimed(run[t].review)
        /\ run[u].review \in Reviews /\ Claimed(run[u].review)
    BY <1>1 DEF SystemInv, IInv, RunProgress, RunOK, RunHasRecord, Claimed, Alive, InThread
  <2>2. run[t].review = run[u].review
    BY <1>1, <2>1 DEF SystemInv, IntakeInv, OneReviewPerDelivery, Requests
  <2> QED
    BY <1>1, <2>2 DEF SystemInv, IInv, OneWorkerRunPerReview
<1> QED
  BY <1>1, SystemInvariant, PTL

\* The promises of the webhook handler survive the pipeline that works on the same rows.
THEOREM SystemKeepsPromises == SystemSpec => []PromisesAreKept
<1>1. SystemInv => PromisesAreKept
  BY DEF SystemInv, IntakeInv, PromisesAreKept
<1> QED
  BY <1>1, SystemInvariant, PTL

\* A decision event is the last word of its run, also while ingress claims and publishes.
THEOREM SystemBacksVerdicts == SystemSpec => []VerdictIsBacked
<1>1. SystemInv => VerdictIsBacked
  BY IInvBacksVerdicts DEF SystemInv
<1> QED
  BY <1>1, SystemInvariant, PTL

\* The whole path implements the ledger of deliveries: exclusive, permanent ownership,
\* acknowledgement and publication only after it.
THEOREM SystemKeepsOwnership == SystemSpec => ImplementsOwnership
<1>1. SystemInit => Ownership!LedgerInit
  BY OwnershipStarts DEF SystemInit
<1>2. ASSUME SystemInv, [SystemNext]_systemVars
      PROVE  [Ownership!LedgerNext]_(Ownership!ledgerVars)
  <2>1. Stutter => UNCHANGED Ownership!ledgerVars
    BY DEF Ownership!ledgerVars, Stutter
  <2>2. ASSUME IngressStep PROVE [Ownership!LedgerNext]_(Ownership!ledgerVars)
    BY <1>2, <2>2, IngressOwns DEF SystemInv, IngressStep
  <2>3. ASSUME PipelineStep PROVE Stutter
    BY <1>2, <2>3, PipelineRespects, RespectOwns DEF SystemInv
  <2>4. ASSUME NEW s \in Servers, ApiProcessCrash(s) PROVE Stutter
    BY <1>2, <2>4, LossOwns DEF SystemInv, ApiProcessCrash, store, jobVars
  <2>5. ASSUME UNCHANGED systemVars PROVE Stutter
    BY <2>5, RespectOwns DEF systemVars, ingressVars, handlerVars, Respects, Claimed
  <2> QED
    BY <1>2, <2>1, <2>2, <2>3, <2>4, <2>5 DEF SystemNext
<1> QED
  BY <1>1, <1>2, SystemInvariant, PTL DEF SystemSpec, ImplementsOwnership, Ownership!LedgerSpec

\* To those who read the store, the whole path is the ledger of runs too: ingress only
\* adds rows that nothing has settled, and a process takes its runs with it as they are.
THEOREM SystemImplementsLedger == SystemSpec => ImplementsLedger
<1>1. SystemInit => Ledger!LedgerInit
  <2> SUFFICES ASSUME SystemInit PROVE Ledger!LedgerInit
    OBVIOUS
  <2>1. NothingRun /\ \A r \in Reviews : status[r] = "none"
    BY DEF SystemInit, IntakeInit, Requests
  <2> QED
    BY <2>1, LedgerStarts
<1>2. ASSUME SystemInv, [SystemNext]_systemVars
      PROVE  [Ledger!LedgerNext]_(Ledger!ledger)
  <2>1. ASSUME IngressStep PROVE UNCHANGED Ledger!ledger
    <3>1. Offers
      BY <1>2, <2>1, IngressOffers DEF SystemInv
    <3>2. UNCHANGED Seen
      BY <3>1 DEF Offers, Seen
    <3> QED
      BY <3>1, <3>2 DEF Offers, runVars, Ledger!ledger, Seen
  <2>2. ASSUME PipelineStep PROVE [Ledger!LedgerNext]_(Ledger!ledger)
    BY <1>2, <2>2, LedgerSeesStep DEF SystemInv, PipelineStep, Next
  <2>3. ASSUME NEW s \in Servers, ApiProcessCrash(s) PROVE [Ledger!LedgerNext]_(Ledger!ledger)
    BY <2>3, LedgerSeesDeath DEF ApiProcessCrash, Ledger!LedgerNext
  <2>4. ASSUME UNCHANGED systemVars PROVE UNCHANGED Ledger!ledger
    BY <2>4 DEF systemVars, runVars, Ledger!ledger
  <2> QED
    BY <1>2, <2>1, <2>2, <2>3, <2>4 DEF SystemNext
<1> QED
  BY <1>1, <1>2, SystemInvariant, PTL DEF SystemSpec, ImplementsLedger, Ledger!LedgerSpec
=============================================================================
