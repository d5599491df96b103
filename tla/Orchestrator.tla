---------------------------- MODULE Orchestrator ----------------------------
(***************************************************************************)
(* One invocation of the review graph (orchestrator/graph.py and           *)
(* nodes.py): the fan-out to the specialist agents, the join, aggregate    *)
(* and decide.  An agent that raises is turned into a result with an error *)
(* so that the join completes.                                             *)
(***************************************************************************)
EXTENDS FindingGate

CONSTANTS AgentOrder,     \* AGENT_NAMES: the order in which results are joined
          Places,         \* (file_path, line_start) pairs
          Severities,
          Confidences,    \* in percent
          MaxPerAgent     \* findings one agent reports (bound)

ASSUME OrchestratorAssumption ==
    /\ AgentOrder \in Seq(Agents)
    /\ Agents = {AgentOrder[i] : i \in DOMAIN AgentOrder}
    /\ Confidences \subseteq 0..100
    /\ MaxPerAgent \in Nat

VARIABLES stage,      \* the node of the graph that runs next
          waiting,    \* agents whose node has not returned
          returned,   \* their entries of agent_results
          merged,     \* merged_findings
          decision

vars == <<stage, waiting, returned, merged, decision>>

FindingsOf(a) == [agent : {a}, at : Places, severity : Severities, confidence : Confidences]
Reports(a) == UNION {[1..n -> FindingsOf(a)] : n \in 0..MaxPerAgent}
Failed == [error |-> TRUE, findings |-> <<>>]
Nothing == [error |-> FALSE, findings |-> <<>>]

Errors == {a \in Agents : returned[a].error}   \* errors
Joined == [i \in DOMAIN AgentOrder |-> returned[AgentOrder[i]]]   \* agent_results
Reported == {Finding(Joined, p) : p \in AllFindings(Joined)}

TypeOK ==
    /\ stage \in {"fan_out", "aggregate", "decide", "end"}
    /\ waiting \subseteq Agents
    /\ \A a \in Agents : /\ returned[a].error \in BOOLEAN
                         /\ returned[a].findings \in Reports(a)
    /\ \A e \in merged : /\ e.finding \in UNION {FindingsOf(a) : a \in Agents}
                         /\ e.agreement \in 1..Cardinality(Agents)
    /\ decision \in {"none", "auto_post", "approval_queue", "escalate"}

Init ==
    /\ stage = "fan_out"
    /\ waiting = Agents
    /\ returned = [a \in Agents |-> Nothing]
    /\ merged = {}
    /\ decision = "none"

\* run_agent returns the findings of the agent.
AgentReports(a) ==
    /\ stage = "fan_out"
    /\ a \in waiting
    /\ waiting' = waiting \ {a}
    /\ \E findings \in Reports(a) :
         returned' = [returned EXCEPT ![a] = [error |-> FALSE, findings |-> findings]]
    /\ UNCHANGED <<stage, merged, decision>>

\* run_agent catches whatever the agent raises.
AgentFails(a) ==
    /\ stage = "fan_out"
    /\ a \in waiting
    /\ waiting' = waiting \ {a}
    /\ returned' = [returned EXCEPT ![a] = Failed]
    /\ UNCHANGED <<stage, merged, decision>>

\* The four edges into aggregate: the superstep ends when every agent has returned.
Join ==
    /\ stage = "fan_out"
    /\ waiting = {}
    /\ stage' = "aggregate"
    /\ UNCHANGED <<waiting, returned, merged, decision>>

Aggregate ==
    /\ stage = "aggregate"
    /\ merged' = Merge(Joined)
    /\ stage' = "decide"
    /\ UNCHANGED <<waiting, returned, decision>>

Decide ==
    /\ stage = "decide"
    /\ decision' \in Decisions(merged, Errors)
    /\ stage' = "end"
    /\ UNCHANGED <<waiting, returned, merged>>

Next ==
    \/ \E a \in Agents : AgentReports(a) \/ AgentFails(a)
    \/ Join \/ Aggregate \/ Decide

Spec == Init /\ [][Next]_vars
-----------------------------------------------------------------------------
\* Merging loses no place, invents none and leaves one entry for each, whose
\* confidence nobody who reported the place exceeds; "agreed by" names exactly the
\* agents that reported it.
MergeIsFaithful ==
    stage \in {"decide", "end"} =>
        /\ {e.finding.at : e \in merged} = {f.at : f \in Reported}
        /\ \A d, e \in merged : d.finding.at = e.finding.at => d = e
        /\ \A e \in merged, f \in Reported :
             f.at = e.finding.at =>
                 /\ f.confidence <= e.finding.confidence
                 /\ e.agreement > 1 => f.agent \in e.agreedBy
        /\ \A e \in merged : e.agreement > 1 =>
             \A a \in e.agreedBy : \E f \in Reported : f.agent = a /\ f.at = e.finding.at

\* An agent cannot talk a review into auto_post by repeating itself: a boost comes
\* only from another agent at the same place.
BoostNeedsAnotherAgent ==
    stage = "end" =>
        \A e \in merged : e.agreement > 1 =>
            \E f, g \in Reported :
                f.at = e.finding.at /\ g.at = e.finding.at /\ f.agent # g.agent

\* What decide looks at is what the agents reported.
MergeIsSound == TypeOK /\ MergeIsFaithful /\ BoostNeedsAnotherAgent

\* A run in which agents failed and the rest found nothing is not a clean review.
EmptyFailureGoesToHuman ==
    stage = "end" /\ merged = {} /\ Errors # {} => decision = "approval_queue"

\* Support never hurts: one more agent reporting an already reported place, no more
\* severely than what is there, does not turn a clear auto_post into anything else.
SupportNeverHurts ==
    stage = "end" /\ Decisions(merged, Errors) = {"auto_post"} =>
        \A e \in merged, a \in Agents, c \in Confidences :
            LET echo == [agent |-> a, at |-> e.finding.at,
                         severity |-> e.finding.severity, confidence |-> c]
                more == Append(Joined, [error |-> FALSE, findings |-> <<echo>>])
            IN  Decisions(Merge(more), Errors) = {"auto_post"}

\* Any CRITICAL finding that an agent reports escalates the review (INV-5).
CriticalEscalates ==
    stage = "end" /\ (\E f \in Reported : f.severity = "CRITICAL")
        => decision = "escalate"
=============================================================================
