--------------------------- MODULE AgentCallsProofs ---------------------------
(***************************************************************************)
(* Proofs about AgentCalls, for any set of agents and any number of        *)
(* retries: the invariants follow from where each agent stands.            *)
(***************************************************************************)
EXTENDS AgentCalls, TLAPS

\* What the location of an agent says of its trace, its attempts and its result.
Standing(a) ==
    /\ pc[a] = "start" => trace[a] = {}
    /\ pc[a] \in {"guard", "escalate", "call", "record"} => trace[a] = {"span.start"}
    /\ pc[a] = "parse" => trace[a] = {"span.start", "llm.call"}
    /\ pc[a] = "close" => /\ "span.start" \in trace[a]
                          /\ ~raised[a] => trace[a] = {"span.start", "llm.call"}
    /\ pc[a] \notin {"close", "done", "killed"} => ~raised[a]
    /\ pc[a] \in {"call", "record", "parse"} \/ (pc[a] = "close" /\ ~raised[a]) => ~hostile
    /\ pc[a] = "call" => attempts[a] < Retries
    /\ pc[a] = "record" => charged[a] > 0
    /\ pc[a] \in {"start", "guard"} => attempts[a] = 0
    /\ charged[a] <= attempts[a]
    /\ pc[a] # "done" => result[a] = "none"

IInv ==
    /\ TypeOK
    /\ \A a \in Agents : Standing(a)
    /\ TraceIsSound
    /\ FindingsAreTraced
    /\ HostileDiffIsNotReviewed

USE AgentsAssumption DEF Locations, Events, Results

\* Before an agent starts it has no trace, no attempt and no result.
LEMMA InitInv == Init => IInv
BY DEF Init, IInv, TypeOK, Standing, TraceIsSound, FindingsAreTraced, HostileDiffIsNotReviewed

\* One step of one agent leaves the others alone.
LEMMA AgentInv ==
    ASSUME IInv, NEW a \in Agents, AgentStep(a)
    PROVE  IInv'
<1> USE DEF IInv, TypeOK, Standing, TraceIsSound, FindingsAreTraced, HostileDiffIsNotReviewed,
            Goto, Emit, EmitRaises, Emitted, Raise, Return, Send, Charge
<1>1. CASE OpenSpan(a)       BY <1>1 DEF OpenSpan
<1>2. CASE OpenSpanFails(a)  BY <1>2 DEF OpenSpanFails
<1>3. CASE Sanitize(a)       BY <1>3 DEF Sanitize
<1>4. CASE RenderFails(a)    BY <1>4 DEF RenderFails
<1>5. CASE Escalate(a)       BY <1>5 DEF Escalate
<1>6. CASE Complete(a)       BY <1>6 DEF Complete
<1>7. CASE CallFails(a)
  <2>1. pc[a] = "call" /\ attempts[a] < Retries /\ charged[a] <= attempts[a]
      BY <1>7 DEF CallFails
  <2>2. attempts' = [attempts EXCEPT ![a] = attempts[a] + 1] /\ attempts[a] + 1 \in 0..Retries
      BY <1>7, <2>1 DEF CallFails
  <2>3. /\ charged' = [charged EXCEPT ![a] = charged'[a]]
        /\ charged'[a] \in {charged[a], charged[a] + 1}
    <3>1. CASE Charge(a) BY <3>1
    <3>2. CASE UNCHANGED charged BY <3>2
    <3> QED BY <1>7, <3>1, <3>2 DEF CallFails
  <2>4. UNCHANGED <<hostile, trace, result>>
      BY <1>7 DEF CallFails
  <2>5. CASE attempts[a] + 1 < Retries /\ UNCHANGED <<pc, raised>>
      BY <2>1, <2>2, <2>3, <2>4, <2>5
  <2>6. CASE Raise(a)
      BY <2>1, <2>2, <2>3, <2>4, <2>6
  <2> QED BY <1>7, <2>5, <2>6 DEF CallFails
<1>8. CASE Record(a)         BY <1>8 DEF Record
<1>9. CASE RecordFails(a)    BY <1>9 DEF RecordFails
<1>10. CASE Parse(a)         BY <1>10 DEF Parse
<1>11. CASE ParseFails(a)    BY <1>11 DEF ParseFails
<1>12. CASE CloseSpan(a)     BY <1>12 DEF CloseSpan
<1>13. CASE CloseSpanFails(a) BY <1>13 DEF CloseSpanFails
<1> QED BY <1>1, <1>2, <1>3, <1>4, <1>5, <1>6, <1>7, <1>8, <1>9, <1>10, <1>11, <1>12, <1>13
        DEF AgentStep

\* A step of an agent, the death of the process and a stutter keep the invariant.
LEMMA StepInv == IInv /\ [Next]_vars => IInv'
<1> SUFFICES ASSUME IInv, [Next]_vars PROVE IInv'
    OBVIOUS
<1>1. ASSUME NEW a \in Agents, AgentStep(a) PROVE IInv'
    BY <1>1, AgentInv
<1>2. CASE Crash
    BY <1>2 DEF Crash, IInv, TypeOK, Standing, TraceIsSound, FindingsAreTraced,
                HostileDiffIsNotReviewed
<1>3. CASE UNCHANGED vars
    BY <1>3 DEF vars, IInv, TypeOK, Standing, TraceIsSound, FindingsAreTraced,
                HostileDiffIsNotReviewed
<1> QED BY <1>1, <1>2, <1>3 DEF Next

\* The strengthened invariant, from which the others follow.
THEOREM InvariantHolds == Spec => []IInv
BY InitInv, StepInv, PTL DEF Spec

\* The state of the agents is well-typed; above all, no agent sends more than
\* Retries requests, however the attempts fail.
THEOREM TypeCorrect == Spec => []TypeOK
<1>1. IInv => TypeOK BY DEF IInv
<1> QED BY <1>1, InvariantHolds, PTL

\* The rows an agent leaves in agent_events tell a possible story, whatever INSERT
\* raises and wherever the process dies.
THEOREM TraceSound == Spec => []TraceIsSound
<1>1. IInv => TraceIsSound BY DEF IInv
<1> QED BY <1>1, InvariantHolds, PTL

\* Findings of an agent enter the review only with the complete trace of their call.
THEOREM FindingsTraced == Spec => []FindingsAreTraced
<1>1. IInv => FindingsAreTraced BY DEF IInv
<1> QED BY <1>1, InvariantHolds, PTL

\* The audit trail of review_with_events (base_agent.py:118-222) can be trusted.
THEOREM AuditTrailTrue == Spec => []AuditTrailIsTrue
BY TraceSound, FindingsTraced, PTL DEF AuditTrailIsTrue

\* A diff the injection guard rejects reaches the LLM through no agent.
THEOREM HostileDiffStays == Spec => []HostileDiffIsNotReviewed
<1>1. IInv => HostileDiffIsNotReviewed BY DEF IInv
<1> QED BY <1>1, InvariantHolds, PTL
-----------------------------------------------------------------------------
\* A step in which no agent returns cannot be seen from the fan-out.
LEMMA Unseen == result' = result => UNCHANGED Fan!vars
BY DEF Fan!vars

\* To return findings or an error is a step of the fan-out.
LEMMA ReturnIsStep ==
    ASSUME IInv, NEW a \in Agents, pc[a] # "done",
           NEW what \in {"findings", "error"}, Return(a, what)
    PROVE  Fan!AgentReports(a) \/ Fan!AgentFails(a)
<1>1. result[a] = "none" /\ result' = [result EXCEPT ![a] = what]
    BY DEF IInv, Standing, Return
<1>2. result \in [Agents -> Results]
    BY DEF IInv, TypeOK
<1>3. {b \in Agents : result'[b] = "none"} = {b \in Agents : result[b] = "none"} \ {a}
    BY <1>1, <1>2
<1>4. [b \in Agents |-> [error |-> result'[b] = "error", findings |-> <<>>]]
        = [[b \in Agents |-> [error |-> result[b] = "error", findings |-> <<>>]]
             EXCEPT ![a] = [error |-> what = "error", findings |-> <<>>]]
    BY <1>1, <1>2
<1>5. CASE what = "error"
  <2>1. [error |-> what = "error", findings |-> <<>>] = Fan!Failed
    BY <1>5 DEF Fan!Failed
  <2> QED BY <1>1, <1>3, <1>4, <2>1 DEF Fan!AgentFails
<1>6. CASE what = "findings"
  <2>1. <<>> \in Fan!Reports(a)
    BY DEF Fan!Reports, Fan!FindingsOf
  <2>2. (what = "error") = FALSE
    BY <1>6
  <2> QED BY <1>1, <1>3, <1>4, <2>1, <2>2 DEF Fan!AgentReports
<1> QED BY <1>5, <1>6

\* Every behaviour of the agents is one of the fan-out: each agent enters its results
\* once, and no failure inside it is seen as anything but an error.
THEOREM AgentsImplementFanOut == Spec => ImplementsFanOut
<1>1. Init => Fan!Init
    BY DEF Init, Fan!Init, Fan!Nothing
<1>2. IInv /\ [Next]_vars => [Fan!Next]_(Fan!vars)
  <2> SUFFICES ASSUME IInv, [Next]_vars PROVE [Fan!Next]_(Fan!vars)
      OBVIOUS
  <2>1. ASSUME NEW a \in Agents, AgentStep(a) PROVE [Fan!Next]_(Fan!vars)
    <3>1. CASE OpenSpanFails(a) \/ CloseSpan(a) \/ CloseSpanFails(a)
      <4>1. pc[a] # "done" /\ \E what \in {"findings", "error"} : Return(a, what)
          BY <3>1 DEF OpenSpanFails, CloseSpan, CloseSpanFails
      <4> QED BY <4>1, ReturnIsStep DEF Fan!Next
    <3>2. CASE OpenSpan(a) \/ Sanitize(a) \/ RenderFails(a) \/ Escalate(a) \/ Complete(a)
      BY <3>2, Unseen DEF OpenSpan, Sanitize, RenderFails, Escalate, Complete
    <3>3. CASE CallFails(a) \/ Record(a) \/ RecordFails(a) \/ Parse(a) \/ ParseFails(a)
      BY <3>3, Unseen DEF CallFails, Record, RecordFails, Parse, ParseFails
    <3> QED BY <2>1, <3>1, <3>2, <3>3 DEF AgentStep
  <2>2. CASE Crash \/ UNCHANGED vars
    BY <2>2, Unseen DEF Crash, vars
  <2> QED BY <2>1, <2>2 DEF Next
<1> QED BY <1>1, <1>2, InvariantHolds, PTL DEF Spec, ImplementsFanOut, Fan!Spec
=============================================================================
