----------------------------- MODULE DriftWatch ------------------------------
(* Drift detection over two windows of the event log (observability/drift.py), *)
(* and the routing advice drawn from the cost drift it reports                 *)
(* (economics/routing_advisor.py, tools/model_router.py).                      *)
(* A window is the sequence of the reviews in it, each with what it wrote:     *)
(* cost, llm.call events and their latency, error events, finding rows. A      *)
(* review lies in one window. Metrics are fractions <<numerator, denominator>>.*)
EXTENDS Integers, Sequences, Functions

CONSTANTS
  Windows,      \* the windows to compare: sequences of reviews
  Threshold,    \* threshold_pct, in percent
  Floors,       \* values of min_baseline_reviews
  CostMetric, LatencyMetric, CallsMetric, ErrorsMetric, FindingsMetric

VARIABLES
  watch,        \* "idle", "reported" or "advised"
  baseline, window, floor,
  report,       \* metric -> [delta, drifted]; delta in hundredths of a percent
  advice        \* the advisor's answer

driftVars == <<watch, baseline, window, floor, report, advice>>

Metrics == {CostMetric, LatencyMetric, CallsMetric, ErrorsMetric, FindingsMetric}
Quantities == {"cost", "events", "calls", "latency", "errors", "findings"}
Null == <<>>
NoDelta == [delta |-> Null, drifted |-> FALSE]
NoAdvice == [pressure |-> "none", model |-> "default"]

ASSUME DriftAssumption ==
  /\ Windows \subseteq Seq([Quantities -> Nat])
  /\ Threshold \in Nat /\ Floors \subseteq Nat
  /\ ErrorsMetric \notin {CostMetric, LatencyMetric, CallsMetric, FindingsMetric}
  /\ FindingsMetric \notin {CostMetric, LatencyMetric, CallsMetric}
  /\ CostMetric \notin {LatencyMetric, CallsMetric} /\ LatencyMetric # CallsMetric

-------------------------------------------------------------------------------
(* SUM of a column over the window, and COUNT of the reviews that have any.    *)
Each(w, q) == [i \in 1 .. Len(w) |-> w[i][q]]
Marks(w, q) == [i \in 1 .. Len(w) |-> IF w[i][q] > 0 THEN 1 ELSE 0]
Amount(w, q) == SumFunction(Each(w, q))
Having(w, q) == SumFunction(Marks(w, q))

(* NULLIF(..., 0) and AVG over no rows yield NULL. *)
Ratio(n, d) == IF d = 0 THEN Null ELSE <<n, d>>

\* A fault to compare Value with: the cost is not divided by the reviews.
ValueOfTotals(m, w) ==
  CASE m = CostMetric -> Ratio(Amount(w, "cost"), 1)
    [] m = LatencyMetric -> Ratio(Amount(w, "latency"), Amount(w, "calls"))
    [] m = CallsMetric -> Ratio(Amount(w, "calls"), Having(w, "calls"))
    [] m = ErrorsMetric -> <<Amount(w, "errors"), 1>>
    [] m = FindingsMetric -> Ratio(Amount(w, "findings"), Len(w))

Value(m, w) ==
  CASE m = CostMetric -> Ratio(Amount(w, "cost"), Having(w, "events"))
    [] m = LatencyMetric -> Ratio(Amount(w, "latency"), Amount(w, "calls"))
    [] m = CallsMetric -> Ratio(Amount(w, "calls"), Having(w, "calls"))
    [] m = ErrorsMetric -> <<Amount(w, "errors"), 1>>
    [] m = FindingsMetric -> Ratio(Amount(w, "findings"), Len(w))

(* The change against the baseline, as a fraction of hundredths of a percent. *)
Change(w, b) == <<(w[1] * b[2] - b[1] * w[2]) * 10000, b[1] * w[2]>>

Bad(m, change) ==
  IF m = FindingsMetric THEN change[1] < -(Threshold * 100) * change[2]
                        ELSE change[1] > Threshold * 100 * change[2]

(* round(x, 2): to the nearest hundredth, ties to the even one. *)
Round(x) ==
  LET q == x[1] \div x[2]
      twice == 2 * (x[1] % x[2])
  IN IF twice > x[2] \/ (twice = x[2] /\ q % 2 = 1) THEN q + 1 ELSE q

(* compute_delta. *)
Delta(m, w, b) ==
  IF w = Null \/ b = Null \/ (b # Null /\ b[1] <= 0)
    THEN NoDelta
    ELSE [delta |-> <<Round(Change(w, b))>>, drifted |-> Bad(m, Change(w, b))]

(* detect_drift: too few reviews in the baseline silence every metric. *)
Detect(b, w, least) ==
  [m \in Metrics |->
     IF Len(b) < least THEN NoDelta
     ELSE Delta(m, Value(m, w), Value(m, b))]

Drifted == {m \in DOMAIN report : report[m].drifted}

(* suggest_model for a step whose cheaper tier is known or not, on the delta   *)
(* the report shows.                                                           *)
Suggest(delta, current, cheaper) ==
  IF delta <= Threshold * 100 THEN [pressure |-> "none", model |-> current]
  ELSE IF cheaper \in {"unknown", current}
         THEN [pressure |-> "high", model |-> current]
         ELSE [pressure |-> "high", model |-> cheaper]

-------------------------------------------------------------------------------
DriftInit ==
  /\ watch = "idle" /\ baseline = <<>> /\ window = <<>> /\ floor = 0
  /\ report = [m \in Metrics |-> NoDelta]
  /\ advice = NoAdvice

DriftIdle == watch = "idle"

DetectDrift(b, w, least) ==
  /\ watch = "idle"
  /\ baseline' = b /\ window' = w /\ floor' = least
  /\ report' = Detect(b, w, least)
  /\ watch' = "reported"
  /\ UNCHANGED advice

(* The operator asks for advice with the cost delta of the report: for a step  *)
(* that runs the default model, the default's cheaper tier being the default   *)
(* itself; for one that MODEL_<STEP> moved to a dearer model; or for one       *)
(* without a cheaper tier.                                                     *)
Advise(current, cheaper) ==
  /\ watch = "reported" /\ report[CostMetric].delta # Null
  /\ advice' = Suggest(report[CostMetric].delta[1], current, cheaper)
  /\ watch' = "advised"
  /\ UNCHANGED <<baseline, window, floor, report>>

DriftNext ==
  \/ \E b, w \in Windows, least \in Floors : DetectDrift(b, w, least)
  \/ \E current \in {"default", "dearer"}, cheaper \in {"default", "unknown"} :
       Advise(current, cheaper)

DriftSpec == DriftInit /\ [][DriftNext]_driftVars

-------------------------------------------------------------------------------
DriftTypeOK ==
  /\ watch \in {"idle", "reported", "advised"}
  /\ DOMAIN report = Metrics
  /\ \A m \in Metrics : Len(report[m].delta) <= 1 /\ report[m].drifted \in BOOLEAN
  /\ advice.pressure \in {"none", "high"}

(* More of the same work is not drift: a window that repeats the baseline,     *)
(* whole, any number of times, flags nothing but the error count, which is not *)
(* taken per review; and against a baseline without errors not even that.      *)
Repeats(b, w) ==
  /\ b # <<>> /\ Len(w) % Len(b) = 0 /\ w # <<>>
  /\ \A i \in DOMAIN w : w[i] = b[((i - 1) % Len(b)) + 1]

TrafficIsNotDrift ==
  Repeats(baseline, window) =>
    Drifted \subseteq (IF Amount(baseline, "errors") = 0 THEN {}
                       ELSE {ErrorsMetric})

(* The advisor sees pressure exactly when the report flags the cost, except    *)
(* for a drift so close to the threshold that its rounded delta equals it; and *)
(* it proposes another model only under pressure.                              *)
AdviceFollowsReport ==
  watch = "advised" =>
    /\ advice.pressure = "high" => CostMetric \in Drifted
    /\ (CostMetric \in Drifted /\ advice.pressure = "none") =>
         report[CostMetric].delta[1] = Threshold * 100

(* A flag rests on evidence on both sides: enough baseline reviews, a baseline *)
(* above zero, and work in the window. So an outage, a window in which nothing *)
(* ran, is never reported as drift.                                            *)
FlagNeedsEvidence ==
  \A m \in Drifted :
    /\ Len(baseline) >= floor
    /\ Value(m, baseline) # Null /\ Value(m, baseline)[1] > 0
    /\ window # <<>>

\* What the drift report flags, and what is advised on it.
DriftIsSound == DriftTypeOK /\ TrafficIsNotDrift /\ AdviceFollowsReport /\ FlagNeedsEvidence
==============================================================================
