------------------------------ MODULE MCDecisions ------------------------------
(* The review gate of the orchestrator, the release gate and the canary,       *)
(* hybrid retrieval, drift detection with its routing advice, and the budget   *)
(* guard. They share no state, so a behaviour runs one of them.                *)
EXTENDS MCOrchestrator, ReleaseGate, Retrieval, DriftWatch, BudgetGuard

GoldenShape == [loc : {"l1", "l2"}, category : {"c1", "c2"}, severity : {"s1", "s2"}]
Golden(f, a) == [loc |-> f.loc, category |-> f.category,
                 severity |-> f.severity, agent |-> a]
SeqsUpTo(S, n) == UNION {[1 .. m -> S] : m \in 0 .. n}

f11 == [loc |-> "l1", category |-> "c1", severity |-> "s1"]
f12 == [loc |-> "l1", category |-> "c1", severity |-> "s2"]
f21 == [loc |-> "l2", category |-> "c2", severity |-> "s1"]

PR(agents, expected) == [agents |-> agents, expected |-> expected]

(* Every golden PR of up to two expectations, alone; and a few sets of two.    *)
MCDatasets ==
  {<<>>}
  \cup {<<PR(<<"security">>, e)>> : e \in SeqsUpTo({Golden(f, AnyAgent) : f \in GoldenShape}, 2)}
  \cup {<<PR(<<"security", "docs">>, <<Golden(f11, "security"), Golden(f21, a)>>),
          PR(<<second>>, <<Golden(f12, a)>>)>> :
          a \in {"docs", "quality", AnyAgent}, second \in {"docs", "nobody"}}

Given(k, s) == [kind |-> k, findings |-> s]
MCFiles == {Given(k, <<>>) : k \in FileKinds}
           \cup {Given("list", s) : s \in SeqsUpTo(GoldenShape, 2)}
           \cup {Given("list", s) : s \in [1 .. 3 -> {f11, f12, f21}]}
MCAnswers == {<<>>, <<f11>>, <<f12, f11>>, <<f21>>}

Review(cost, events, calls, latency, errors, findings) ==
  [cost |-> cost, events |-> events, calls |-> calls, latency |-> latency,
   errors |-> errors, findings |-> findings]

(* A plain review; one that costs 20 % more; one 20.004 % more; a slow one with an error and  *)
(* no findings; one that failed before its first event.                        *)
MCReviews == {Review(25000, 3, 2, 20, 0, 2), Review(30000, 3, 2, 20, 0, 2),
              Review(30001, 3, 2, 20, 0, 2),
              Review(0, 2, 1, 40, 1, 0), Review(0, 0, 0, 0, 0, 0)}
MCWindows == SeqsUpTo(MCReviews, 2)

-------------------------------------------------------------------------------
GraphIdle == stage = "fan_out" /\ waiting = Agents
ToolsIdle == GateIdle /\ SearchIdle /\ DriftIdle /\ BudgetIdle
toolVars == <<gateVars, searchVars, driftVars, budgetVars>>
allVars == <<vars, toolVars>>

DecisionsInit == Init /\ GateInit /\ SearchInit /\ DriftInit /\ BudgetInit

DecisionsNext ==
  \/ ToolsIdle /\ Next /\ UNCHANGED toolVars
  \/ /\ GraphIdle /\ UNCHANGED vars
     /\ \/ SearchIdle /\ DriftIdle /\ BudgetIdle /\ GateNext
           /\ UNCHANGED <<searchVars, driftVars, budgetVars>>
        \/ GateIdle /\ DriftIdle /\ BudgetIdle /\ SearchNext
           /\ UNCHANGED <<gateVars, driftVars, budgetVars>>
        \/ GateIdle /\ SearchIdle /\ BudgetIdle /\ DriftNext
           /\ UNCHANGED <<gateVars, searchVars, budgetVars>>
        \/ GateIdle /\ SearchIdle /\ DriftIdle /\ BudgetNext
           /\ UNCHANGED <<gateVars, searchVars, driftVars>>

DecisionsSpec == DecisionsInit /\ [][DecisionsNext]_allVars
===============================================================================
