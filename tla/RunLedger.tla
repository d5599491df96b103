----------------------------- MODULE RunLedger -----------------------------
(***************************************************************************)
(* What runs of the review pipeline leave in the durable store, as those   *)
(* who read it may rely on: the order in which one call of                 *)
(* run_review_pipeline (webhook_receiver/router.py) writes its findings,   *)
(* the status of its review, its row in the human queue and its decision   *)
(* event.  A run may end between any two of them.  Who starts runs, and    *)
(* how often, is left open; ReviewRuns implements this specification.      *)
(***************************************************************************)
EXTENDS Naturals, FiniteSets

CONSTANTS Reviews, Runs, NoReview,
          MaxFindings   \* findings of one run (bound)

ASSUME LedgerAssumption == NoReview \notin Reviews /\ MaxFindings \in Nat

VARIABLES review,      \* the review a run works on
          stage,       \* the next thing a run writes
          size,        \* how many findings it has
          rows,        \* finding_records: <<run, position of the finding>>
          status,      \* pr_review_records.status
          hitl,        \* runs with a hitl_reviews row
          announced    \* runs with a decision event

ledger == <<review, stage, size, rows, status, hitl, announced>>

Stages == {"idle", "analyse", "insert", "queue", "announce", "ended"}
Gated == {"queued", "escalated"}
Settled == {"posted", "completed"} \cup Gated

LedgerTypeOK ==
    /\ review \in [Runs -> Reviews \cup {NoReview}]
    /\ stage \in [Runs -> Stages]
    /\ size \in [Runs -> 0..MaxFindings]
    /\ rows \subseteq Runs \X (1..MaxFindings)
    /\ status \in [Reviews -> {"pending"} \cup Settled]
    /\ hitl \subseteq Runs
    /\ announced \subseteq Runs

LedgerInit ==
    /\ review = [t \in Runs |-> NoReview]
    /\ stage = [t \in Runs |-> "idle"]
    /\ size = [t \in Runs |-> 0]
    /\ rows = {}
    /\ status = [r \in Reviews |-> "pending"]
    /\ hitl = {}
    /\ announced = {}
-----------------------------------------------------------------------------
Advance(t, location) == stage' = [stage EXCEPT ![t] = location]

Begin(t, r) ==
    /\ stage[t] = "idle"
    /\ Advance(t, "analyse")
    /\ review' = [review EXCEPT ![t] = r]
    /\ UNCHANGED <<size, rows, status, hitl, announced>>

CompleteGraph(t) ==
    /\ stage[t] = "analyse"
    /\ Advance(t, "insert")
    /\ \E n \in 0..MaxFindings : size' = [size EXCEPT ![t] = n]
    /\ UNCHANGED <<review, rows, status, hitl, announced>>

InsertFinding(t) ==
    /\ stage[t] = "insert"
    /\ \E i \in 1..size[t] : <<t, i>> \notin rows /\ rows' = rows \cup {<<t, i>>}
    /\ UNCHANGED <<review, stage, size, status, hitl, announced>>

\* update_review_status, after the last finding.
Settle(t) ==
    /\ stage[t] = "insert"
    /\ \A i \in 1..size[t] : <<t, i>> \in rows
    /\ \E s \in Settled :
         /\ status' = [status EXCEPT ![review[t]] = s]
         /\ Advance(t, IF s \in Gated THEN "queue" ELSE "announce")
    /\ UNCHANGED <<review, size, rows, hitl, announced>>

Enqueue(t) ==
    /\ stage[t] = "queue"
    /\ hitl' = hitl \cup {t}
    /\ Advance(t, "announce")
    /\ UNCHANGED <<review, size, rows, status, announced>>

Announce(t) ==
    /\ stage[t] = "announce"
    /\ announced' = announced \cup {t}
    /\ Advance(t, "ended")
    /\ UNCHANGED <<review, size, rows, status, hitl>>

\* Runs end early: a statement raised, or the process died with all of them.
Abort(S) ==
    /\ S # {}
    /\ \A t \in S : stage[t] \notin {"idle", "ended"}
    /\ stage' = [t \in Runs |-> IF t \in S THEN "ended" ELSE stage[t]]
    /\ UNCHANGED <<review, size, rows, status, hitl, announced>>

LedgerStep(t) ==
    \/ CompleteGraph(t) \/ InsertFinding(t) \/ Settle(t) \/ Enqueue(t) \/ Announce(t)

LedgerNext ==
    \/ \E t \in Runs, r \in Reviews : Begin(t, r)
    \/ \E t \in Runs : LedgerStep(t)
    \/ \E S \in SUBSET Runs : Abort(S)

LedgerSpec == LedgerInit /\ [][LedgerNext]_ledger
-----------------------------------------------------------------------------
Findings(t) == {t} \X (1..size[t])

\* A review that no longer is pending has the findings of the run that settled it, and a
\* decision event means that everything its run had to write is there: no reader of the
\* store alone can be told of a verdict whose grounds are missing.
StatusIsBacked ==
    /\ \A r \in Reviews : status[r] # "pending" =>
          \E t \in Runs : review[t] = r /\ Findings(t) \subseteq rows
    /\ \A t \in announced : Findings(t) \subseteq rows /\ status[review[t]] # "pending"
=============================================================================
