----------------------------- MODULE AgentCalls -----------------------------
(***************************************************************************)
(* The specialist agents of one review, each in a thread of the graph:     *)
(* run_agent (orchestrator/nodes.py) around review_with_events             *)
(* (agents/base_agent.py), with its span (observability/events.py), the    *)
(* injection guard and the retried LLM call (tools/llm_client.py).         *)
(*                                                                         *)
(* An agent writes its events one autocommitted INSERT at a time; an       *)
(* INSERT may raise, and may have been committed when it does.             *)
(***************************************************************************)
EXTENDS Naturals, SequencesExt

CONSTANTS Agents,
          Retries   \* of LlmClient.complete

ASSUME AgentsAssumption == Retries \in Nat \ {0}

VARIABLES hostile,    \* the injection guard detects a pattern in the diff
          pc,         \* where each agent stands
          raised,     \* an exception is on its way out of the span
          attempts,   \* calls of chat.completions.create
          charged,    \* those of them that the provider completed, and bills
          trace,      \* the agent's rows in agent_events
          result      \* its entry of agent_results

vars == <<hostile, pc, raised, attempts, charged, trace, result>>

Locations == {"start", "guard", "escalate", "call", "record", "parse", "close", "done", "killed"}
Events == {"span.start", "escalation", "llm.call", "span.end"}
Results == {"none", "findings", "error"}

TypeOK ==
    /\ hostile \in BOOLEAN
    /\ pc \in [Agents -> Locations]
    /\ raised \in [Agents -> BOOLEAN]
    /\ attempts \in [Agents -> 0..Retries]
    /\ charged \in [Agents -> 0..Retries]
    /\ trace \in [Agents -> SUBSET Events]
    /\ result \in [Agents -> Results]

Init ==
    /\ hostile \in BOOLEAN
    /\ pc = [a \in Agents |-> "start"]
    /\ raised = [a \in Agents |-> FALSE]
    /\ attempts = [a \in Agents |-> 0]
    /\ charged = [a \in Agents |-> 0]
    /\ trace = [a \in Agents |-> {}]
    /\ result = [a \in Agents |-> "none"]
-----------------------------------------------------------------------------
Goto(a, location) == pc' = [pc EXCEPT ![a] = location]

Emitted(a, event) == [trace EXCEPT ![a] = @ \cup {event}]
Emit(a, event) == trace' = Emitted(a, event)
EmitRaises(a, event) == trace' \in {trace, Emitted(a, event)}

\* The body of the span raises: on to span.end, with the exception.
Raise(a) ==
    /\ Goto(a, "close")
    /\ raised' = [raised EXCEPT ![a] = TRUE]

\* run_agent returns; it turns any exception into an error.
Return(a, what) ==
    /\ Goto(a, "done")
    /\ result' = [result EXCEPT ![a] = what]

OpenSpan(a) ==
    /\ pc[a] = "start"
    /\ Emit(a, "span.start")
    /\ Goto(a, "guard")
    /\ UNCHANGED <<hostile, raised, attempts, charged, result>>

\* The client cannot be made (no API key), or span.start raises: there is no span.
OpenSpanFails(a) ==
    /\ pc[a] = "start"
    /\ EmitRaises(a, "span.start")
    /\ Return(a, "error")
    /\ UNCHANGED <<hostile, raised, attempts, charged>>

\* A fault to compare Sanitize with: a hostile diff is only reported.
WarnOnly(a) ==
    /\ pc[a] = "guard"
    /\ Goto(a, "call")
    /\ IF hostile THEN Emit(a, "escalation") ELSE UNCHANGED trace
    /\ UNCHANGED <<hostile, raised, attempts, charged, result>>

\* sanitize_diff; a clean diff goes into the rendered prompt.
Sanitize(a) ==
    /\ pc[a] = "guard"
    /\ Goto(a, IF hostile THEN "escalate" ELSE "call")
    /\ UNCHANGED <<hostile, raised, attempts, charged, trace, result>>

\* A prompt file cannot be read.
RenderFails(a) ==
    /\ pc[a] = "guard"
    /\ ~hostile
    /\ Raise(a)
    /\ UNCHANGED <<hostile, attempts, charged, trace, result>>

\* InjectionDetected: the escalation event, and an exception in any case.
Escalate(a) ==
    /\ pc[a] = "escalate"
    /\ EmitRaises(a, "escalation")
    /\ Raise(a)
    /\ UNCHANGED <<hostile, attempts, charged, result>>

Send(a) == attempts' = [attempts EXCEPT ![a] = @ + 1]
Charge(a) == charged' = [charged EXCEPT ![a] = @ + 1]

Complete(a) ==
    /\ pc[a] = "call"
    /\ Send(a) /\ Charge(a)
    /\ Goto(a, "record")
    /\ UNCHANGED <<hostile, raised, trace, result>>

\* A fault to compare CallFails with: the retries are not bounded.
RetryForever(a) ==
    /\ pc[a] = "call"
    /\ attempts' = [attempts EXCEPT ![a] = IF @ + 1 < Retries THEN @ + 1 ELSE 0]
    /\ UNCHANGED <<hostile, pc, raised, charged, trace, result>>

\* The attempt raises, completed by the provider or not; the last one is LlmCallError.
CallFails(a) ==
    /\ pc[a] = "call"
    /\ Send(a)
    /\ Charge(a) \/ UNCHANGED charged
    /\ IF attempts[a] + 1 < Retries THEN UNCHANGED <<pc, raised>> ELSE Raise(a)
    /\ UNCHANGED <<hostile, trace, result>>

\* A fault to compare Record with: the findings go before the llm.call event.
RecordLater(a) ==
    /\ pc[a] = "record"
    /\ Goto(a, "parse")
    /\ UNCHANGED <<hostile, raised, attempts, charged, trace, result>>

Record(a) ==
    /\ pc[a] = "record"
    /\ Emit(a, "llm.call")
    /\ Goto(a, "parse")
    /\ UNCHANGED <<hostile, raised, attempts, charged, result>>

\* A fault to compare RecordFails with: a failure is answered while the agent goes on.
AnswerEarly(a) ==
    /\ pc[a] = "record"
    /\ Goto(a, "close")
    /\ result' = [result EXCEPT ![a] = "error"]
    /\ UNCHANGED <<hostile, raised, attempts, charged, trace>>

RecordFails(a) ==
    /\ pc[a] = "record"
    /\ EmitRaises(a, "llm.call")
    /\ Raise(a)
    /\ UNCHANGED <<hostile, attempts, charged, result>>

\* json.loads and _parse_findings.
Parse(a) ==
    /\ pc[a] = "parse"
    /\ Goto(a, "close")
    /\ UNCHANGED <<hostile, raised, attempts, charged, trace, result>>

ParseFails(a) ==
    /\ pc[a] = "parse"
    /\ Raise(a)
    /\ UNCHANGED <<hostile, attempts, charged, trace, result>>

\* span.end, and what the body left: findings or an exception.
CloseSpan(a) ==
    /\ pc[a] = "close"
    /\ Emit(a, "span.end")
    /\ Return(a, IF raised[a] THEN "error" ELSE "findings")
    /\ UNCHANGED <<hostile, raised, attempts, charged>>

\* span.end raises: whatever the body returned is lost.
CloseSpanFails(a) ==
    /\ pc[a] = "close"
    /\ EmitRaises(a, "span.end")
    /\ Return(a, "error")
    /\ UNCHANGED <<hostile, raised, attempts, charged>>

\* The process dies, with every agent that has not returned.
Crash ==
    /\ \E a \in Agents : pc[a] \notin {"done", "killed"}
    /\ pc' = [a \in Agents |-> IF pc[a] = "done" THEN "done" ELSE "killed"]
    /\ UNCHANGED <<hostile, raised, attempts, charged, trace, result>>
-----------------------------------------------------------------------------
AgentStep(a) ==
    \/ OpenSpan(a) \/ OpenSpanFails(a)
    \/ Sanitize(a) \/ RenderFails(a) \/ Escalate(a)
    \/ Complete(a) \/ CallFails(a)
    \/ Record(a) \/ RecordFails(a)
    \/ Parse(a) \/ ParseFails(a)
    \/ CloseSpan(a) \/ CloseSpanFails(a)

Next == (\E a \in Agents : AgentStep(a)) \/ Crash

Spec == Init /\ [][Next]_vars

\* The thread of an agent is scheduled, and what it waits for times out.
FairSpec == Spec /\ \A a \in Agents : WF_vars(AgentStep(a))
-----------------------------------------------------------------------------
\* The audit trail of an agent can be read as one span: nothing precedes its start,
\* an agent that escalated has not called the LLM, and no call is recorded that the
\* provider did not complete, whatever fails and wherever the process dies.
TraceIsSound ==
    \A a \in Agents :
        /\ trace[a] # {} => "span.start" \in trace[a]
        /\ ~ {"escalation", "llm.call"} \subseteq trace[a]
        /\ "llm.call" \in trace[a] => charged[a] > 0

\* Findings that enter the review can be explained: their span is complete and the
\* call that produced them is recorded.
FindingsAreTraced ==
    \A a \in Agents : result[a] = "findings" =>
        trace[a] = {"span.start", "llm.call", "span.end"}

\* The audit trail of the agents can be trusted.
AuditTrailIsTrue == TraceIsSound /\ FindingsAreTraced

\* A diff the guard rejects is never sent to the LLM, by any agent at any attempt, and
\* no agent reports findings on it: the review reaches decide with errors alone.
HostileDiffIsNotReviewed ==
    hostile => \A a \in Agents : attempts[a] = 0 /\ result[a] # "findings"

\* The join never waits for ever: every agent returns, or the process dies.
EveryAgentReturns == \A a \in Agents : <>(pc[a] \in {"done", "killed"})

\* To the graph an agent is what Orchestrator's fan-out says: it returns once, with
\* findings or with an error, and nothing else of it shows.
Fan == INSTANCE Orchestrator WITH
    AgentOrder <- SetToSeq(Agents), Places <- {}, Severities <- {}, Confidences <- {}, MaxPerAgent <- 0,
    stage <- "fan_out",
    waiting <- {a \in Agents : result[a] = "none"},
    returned <- [a \in Agents |-> [error |-> result[a] = "error", findings |-> <<>>]],
    merged <- {},
    decision <- "none"
ImplementsFanOut == Fan!Spec
=============================================================================
