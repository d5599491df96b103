----------------------------- MODULE BudgetGuard -----------------------------
(* The daily cost cap (economics/budget.py) as agents in parallel would use    *)
(* it: each enters a guarded block, makes its LLM calls and writes the cost of *)
(* each call as an event. The guard reads the sum of the events when a block   *)
(* is entered, and when the caller asks again inside it.                       *)
EXTENDS Integers, FiniteSets

CONSTANTS
  Callers,       \* the agents that run at a time
  Cap,           \* daily_cap
  CallCost,      \* bound: the most one call costs
  CallsPerBlock, \* bound: calls of a block between two checks
  MaxBlocks      \* bound: blocks entered in the modelled day

ASSUME BudgetAssumption ==
  /\ IsFiniteSet(Callers) /\ Callers # {}
  /\ Cap \in Nat /\ MaxBlocks \in Nat
  /\ CallCost \in Nat \ {0} /\ CallsPerBlock \in Nat \ {0}

VARIABLES
  recorded,      \* SUM(cost_usd) of today's events
  left,          \* caller -> calls it may still make before the next check
  owed,          \* caller -> cost of a call made whose event is not written yet
  blocks         \* blocks entered

budgetVars == <<recorded, left, owed, blocks>>

BudgetInit ==
  /\ recorded = 0 /\ blocks = 0
  /\ left = [c \in Callers |-> 0] /\ owed = [c \in Callers |-> 0]

BudgetIdle == blocks = 0

\* A fault to compare Enter with: > instead of >=.
EnterAtCap(c) ==
  /\ left[c] = 0 /\ owed[c] = 0 /\ blocks < MaxBlocks
  /\ recorded <= Cap
  /\ left' = [left EXCEPT ![c] = CallsPerBlock]
  /\ blocks' = blocks + 1
  /\ UNCHANGED <<recorded, owed>>

(* __enter__ or assert_within_budget: the sum is read, and below the cap the   *)
(* caller goes on. (At the cap BudgetExceeded is raised and nothing changes.)  *)
Enter(c) ==
  /\ left[c] = 0 /\ owed[c] = 0 /\ blocks < MaxBlocks
  /\ recorded < Cap
  /\ left' = [left EXCEPT ![c] = CallsPerBlock]
  /\ blocks' = blocks + 1
  /\ UNCHANGED <<recorded, owed>>

(* A call is made inside the block; its cost is known when it returns. *)
Call(c, cost) ==
  /\ left[c] > 0 /\ owed[c] = 0
  /\ left' = [left EXCEPT ![c] = @ - 1]
  /\ owed' = [owed EXCEPT ![c] = cost]
  /\ UNCHANGED <<recorded, blocks>>

(* The event with the cost is inserted, or the insert fails and the cost never *)
(* reaches the sum.                                                            *)
Record(c) ==
  /\ owed[c] > 0
  /\ recorded' = recorded + owed[c]
  /\ owed' = [owed EXCEPT ![c] = 0]
  /\ UNCHANGED <<left, blocks>>

Lose(c) ==
  /\ owed[c] > 0
  /\ owed' = [owed EXCEPT ![c] = 0]
  /\ UNCHANGED <<recorded, left, blocks>>

(* The block ends, normally or with an exception: __exit__ does nothing. *)
Leave(c) ==
  /\ left[c] > 0 /\ owed[c] = 0
  /\ left' = [left EXCEPT ![c] = 0]
  /\ UNCHANGED <<recorded, owed, blocks>>

(* date_trunc('day', now()) moves on: yesterday's events leave the sum. *)
DayTurns ==
  /\ recorded > 0
  /\ recorded' = 0
  /\ UNCHANGED <<left, owed, blocks>>

BudgetNext ==
  \/ \E c \in Callers :
       \/ Enter(c) \/ Record(c) \/ Lose(c) \/ Leave(c)
       \/ \E cost \in 1 .. CallCost : Call(c, cost)
  \/ DayTurns

BudgetSpec == BudgetInit /\ [][BudgetNext]_budgetVars

-------------------------------------------------------------------------------
BudgetTypeOK ==
  /\ recorded \in Nat /\ blocks \in 0 .. MaxBlocks
  /\ left \in [Callers -> 0 .. CallsPerBlock]
  /\ owed \in [Callers -> 0 .. CallCost]

(* What the calls made so far cost and no event says yet, unit by unit.        *)
Unwritten == {p \in Callers \X (1 .. CallCost) : p[2] <= owed[p[1]]}

(* The check is not atomic with the calls it allows, so the cap is not a hard  *)
(* one: the day's sum, with what is still to be written, may pass it, but by   *)
(* less than what all the agents' blocks together may cost.                    *)
OverspendIsBounded ==
  /\ BudgetTypeOK
  /\ recorded + Cardinality(Unwritten) < Cap + Cardinality(Callers) * CallsPerBlock * CallCost
===============================================================================
