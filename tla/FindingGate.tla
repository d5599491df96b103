----------------------------- MODULE FindingGate -----------------------------
(***************************************************************************)
(* The pure part of the orchestrator: aggregate and decide                 *)
(* (orchestrator/nodes.py).                                                *)
(*                                                                         *)
(* A finding is [agent, at, severity, confidence]: "at" stands for its     *)
(* (file_path, line_start) and confidence is in percent.  agent_results is *)
(* a sequence of [error, findings], in the order langgraph joins them; a   *)
(* finding is named by its position in it, <<result, index>>.              *)
(***************************************************************************)
EXTENDS Integers, Sequences, FiniteSets, Functions

CONSTANT Agents

AutoPostThreshold == 80   \* overall >= 0.8
AgreementBoost == 2       \* 0.02 per agent beyond the first

\* all_findings: where the findings of the agents that did not fail are, and their order.
AllFindings(results) ==
    UNION {{i} \X DOMAIN results[i].findings : i \in {j \in DOMAIN results : ~results[j].error}}
Precedes(p, q) == p[1] < q[1] \/ (p[1] = q[1] /\ p[2] <= q[2])

Finding(results, p) == results[p[1]].findings[p[2]]

GroupAt(results, at) == {p \in AllFindings(results) : Finding(results, p).at = at}

\* The first of the findings of a set.
First(S) == CHOOSE p \in S : \A q \in S : Precedes(p, q)

\* A fault to compare Best with: the last finding of a place, not the best.
LastOfGroup(results, group) ==
    Finding(results, CHOOSE p \in group : \A q \in group : Precedes(q, p))

\* max(group, key=confidence): the first of the findings of highest confidence.
Best(results, group) ==
    Finding(results, First({p \in group : \A q \in group :
        Finding(results, q).confidence <= Finding(results, p).confidence}))

AgentsOf(results, group) == {Finding(results, p).agent : p \in group}

\* A fault to compare Entry with: findings are counted where agents should be.
CountFindings(results, group) ==
    [finding |-> Best(results, group),
     agreedBy |-> IF Cardinality(group) = 1 THEN {} ELSE AgentsOf(results, group),
     agreement |-> Cardinality(group)]

\* A single finding is kept as it is; several are merged into the best one, with
\* the agents that reported the place.
Entry(results, group) ==
    IF Cardinality(group) = 1
    THEN [finding |-> Best(results, group), agreedBy |-> {}, agreement |-> 1]
    ELSE [finding |-> Best(results, group), agreedBy |-> AgentsOf(results, group),
          agreement |-> Cardinality(AgentsOf(results, group))]

\* aggregate: one entry per place.  Their order plays no part in the decision.
Merge(results) ==
    {Entry(results, GroupAt(results, Finding(results, p).at)) : p \in AllFindings(results)}

Total(merged) == SumFunction([e \in merged |-> e.finding.confidence])
Boost(merged) == SumFunction([e \in merged |-> AgreementBoost * (e.agreement - 1)])

HasCritical(merged) == \E e \in merged : e.finding.severity = "CRITICAL"

\* Average confidence plus boost against the threshold, both times the number of
\* entries.
Score(merged) == Total(merged) + Boost(merged) * Cardinality(merged)
Required(merged) == AutoPostThreshold * Cardinality(merged)

\* A fault to compare Decisions with: failed agents count as support.
DecideCountingErrors(merged, errors) ==
    IF merged = {} THEN {IF errors = Agents THEN "approval_queue" ELSE "auto_post"}
    ELSE IF HasCritical(merged) THEN {"escalate"}
    ELSE IF Score(merged) >= Required(merged) THEN {"auto_post"} ELSE {"approval_queue"}

\* decide.  The code computes in floating point: a score exactly at the threshold
\* may come out on either side of it, unless it is a lone finding's confidence.
Decisions(merged, errors) ==
    IF merged = {} THEN {IF errors # {} THEN "approval_queue" ELSE "auto_post"}
    ELSE IF HasCritical(merged) THEN {"escalate"}
    ELSE IF Score(merged) > Required(merged) THEN {"auto_post"}
    ELSE IF Score(merged) < Required(merged) THEN {"approval_queue"}
    ELSE IF \E e \in merged : merged = {e} /\ e.agreement = 1 THEN {"auto_post"}
    ELSE {"auto_post", "approval_queue"}
=============================================================================
