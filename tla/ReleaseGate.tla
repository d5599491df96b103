----------------------------- MODULE ReleaseGate -----------------------------
(* The judge (backend/evaluation/judge.py), the regression gate that CI runs   *)
(* (evaluation/regression_gate.py) and the canary (evaluation/canary.py).      *)
(* Points are halves, so that every score is an integer: with m half points,   *)
(* precision is m/2n and recall m/2e, and their F1 is m/(n+e).                 *)
EXTENDS Integers, Sequences, SequencesExt, FiniteSets, FiniteSetsExt

CONSTANTS
  Known,       \* the specialists canary.py has a class for
  Datasets,    \* the golden sets a run may load: sequences of golden PRs
  Files,       \* what --findings may lead to (see FileKinds)
  Answers      \* the lists of findings one specialist may report

VARIABLES
  tool,        \* "idle", "gate" or "canary": which command runs
  dataset,     \* the golden PRs it loaded
  file,        \* gate: the findings file
  gathered,    \* canary: what the agents of the current PR reported so far
  turn,        \* canary: how many agents of the current PR have run
  graded,      \* for each PR already scored: what was compared, and the verdict
  exit         \* "running", or the exit status

gateVars == <<tool, dataset, file, gathered, turn, graded, exit>>

(* An agent_type of "any" is the empty string of the fixture. *)
AnyAgent == "any"
(* "unreadable": reading or parsing raises what the gate does not catch (no    *)
(* permission, a directory, bytes that are no UTF-8, too deeply nested);       *)
(* "malformed": no JSON; "misshapen": JSON that is no list of findings.        *)
FileKinds == {"absent", "missing", "unreadable", "malformed", "misshapen", "list"}
NoFile == [kind |-> "absent", findings |-> <<>>]

IsList(s) == s \in Seq(ToSet(s))

ASSUME GateAssumption ==
  /\ \A d \in Datasets : /\ IsList(d)
                        /\ \A i \in DOMAIN d : IsList(d[i].agents) /\ IsList(d[i].expected)
  /\ \A f \in Files : f.kind \in FileKinds /\ IsList(f.findings)
  /\ \A answer \in Answers : IsList(answer)

-------------------------------------------------------------------------------
(* The judge. *)

Points(a, g) ==
  IF a.loc # g.loc THEN 0
  ELSE (IF a.category = g.category THEN 1 ELSE 0)
       + (IF a.severity = g.severity THEN 1 ELSE 0)

\* A fault to compare Claim with: an expectation may be claimed twice.
ClaimAgain(expected, claims, a) ==
  LET free == {i \in DOMAIN expected : Points(a, expected[i]) > 0}
      best == {i \in free : \A j \in free :
                 Points(a, expected[i]) >= Points(a, expected[j])}
  IN IF free = {} THEN claims
     ELSE [used   |-> claims.used \cup {Min(best)},
           points |-> claims.points + Points(a, expected[Min(best)])]

(* One reported finding claims the first unclaimed expectation it scores best  *)
(* against, if it scores at all.                                               *)
Claim(expected, claims, a) ==
  LET free == {i \in DOMAIN expected \ claims.used : Points(a, expected[i]) > 0}
      best == {i \in free : \A j \in free :
                 Points(a, expected[i]) >= Points(a, expected[j])}
  IN IF free = {} THEN claims
     ELSE [used   |-> claims.used \cup {Min(best)},
           points |-> claims.points + Points(a, expected[Min(best)])]

(* What the first n reported findings claim, for every n.                      *)
Claims(expected, actual) ==
  LET upTo[n \in 0 .. Len(actual)] ==
        IF n = 0 THEN [used |-> {}, points |-> 0]
        ELSE Claim(expected, upTo[n - 1], actual[n])
  IN upTo

Matched(expected, actual) == Claims(expected, actual)[Len(actual)].points

(* F1 >= 0.8. With nothing reported precision is 0, and so is F1: also when    *)
(* nothing was expected.                                                       *)
Passes(expected, actual) ==
  /\ Len(actual) > 0
  /\ Len(expected) > 0
  /\ 5 * Matched(expected, actual) >= 4 * (Len(actual) + Len(expected))

Grade(expected, actual) ==
  [expected |-> expected, actual |-> actual, passed |-> Passes(expected, actual)]

(* Without a file, or with one that holds an empty list, the golden findings   *)
(* are graded against themselves.                                              *)
GradedList(pr) == IF file.findings = <<>> THEN pr.expected ELSE file.findings

(* canary: the expectations the PR's own agents can be held to. *)
Attributable(pr) ==
  LET kept[n \in 0 .. Len(pr.expected)] ==
        IF n = 0 THEN <<>>
        ELSE IF pr.expected[n].agent \in ToSet(pr.agents) \cup {AnyAgent}
          THEN Append(kept[n - 1], pr.expected[n])
        ELSE kept[n - 1]
  IN kept[Len(pr.expected)]

-------------------------------------------------------------------------------
GateInit ==
  /\ tool = "idle" /\ dataset = <<>> /\ file = NoFile
  /\ gathered = <<>> /\ turn = 0 /\ graded = <<>> /\ exit = "running"

GateIdle == tool = "idle"

StartGate(d, f) ==
  /\ tool = "idle"
  /\ tool' = "gate" /\ dataset' = d /\ file' = f
  /\ UNCHANGED <<gathered, turn, graded, exit>>

StartCanary(d) ==
  /\ tool = "idle"
  /\ tool' = "canary" /\ dataset' = d
  /\ UNCHANGED <<file, gathered, turn, graded, exit>>

(* A broken golden set: load_golden_dataset raises. The gate dies of it with   *)
(* the interpreter's status, the canary catches everything.                    *)
LoadFails(command) ==
  /\ tool = "idle"
  /\ tool' = command
  /\ exit' = IF command = "gate" THEN "1" ELSE "2"
  /\ UNCHANGED <<dataset, file, gathered, turn, graded>>

Running == tool # "idle" /\ exit = "running"
More == Len(graded) < Len(dataset)
CurrentPR == dataset[Len(graded) + 1]

Stop(status) ==
  /\ exit' = status
  /\ UNCHANGED <<tool, dataset, file, gathered, turn, graded>>

(* Both commands refuse an empty golden set. *)
EmptyDataset == Running /\ dataset = <<>> /\ Stop("2")

FileRefused ==
  /\ Running /\ tool = "gate" /\ dataset # <<>>
  /\ file.kind \in {"missing", "malformed"}
  /\ Stop("2")

(* What is neither FileNotFoundError nor JSONDecodeError is not caught.        *)
FileUnreadable ==
  /\ Running /\ tool = "gate" /\ dataset # <<>>
  /\ file.kind = "unreadable"
  /\ Stop("1")

(* JSON that is not a list of findings: the judge raises, nothing catches it,  *)
(* and the interpreter exits with 1. (Where nothing is expected the judge may  *)
(* get by without looking at it.)                                              *)
JudgeRaises ==
  /\ Running /\ tool = "gate" /\ More /\ file.kind = "misshapen"
  /\ Stop("1")

GatePR ==
  /\ Running /\ tool = "gate" /\ More
  /\ \/ file.kind \in {"absent", "list"}
     \/ file.kind = "misshapen" /\ CurrentPR.expected = <<>>
  /\ graded' = Append(graded, Grade(CurrentPR.expected, GradedList(CurrentPR)))
  /\ UNCHANGED <<tool, dataset, file, gathered, turn, exit>>

(* One agent of the canary's current PR reviews the golden diff. *)
RunAgent(answer) ==
  /\ Running /\ tool = "canary" /\ More /\ turn < Len(CurrentPR.agents)
  /\ CurrentPR.agents[turn + 1] \in Known
  /\ gathered' = gathered \o answer
  /\ turn' = turn + 1
  /\ UNCHANGED <<tool, dataset, file, graded, exit>>

(* An unknown agent, or an agent whose events cannot be written, raises: the   *)
(* command reports that it could not run, whatever it had graded before.       *)
AgentRaises ==
  /\ Running /\ tool = "canary" /\ More /\ turn < Len(CurrentPR.agents)
  /\ Stop("2")

GradeCanary ==
  /\ Running /\ tool = "canary" /\ More /\ turn = Len(CurrentPR.agents)
  /\ graded' = Append(graded, Grade(Attributable(CurrentPR), gathered))
  /\ gathered' = <<>> /\ turn' = 0
  /\ UNCHANGED <<tool, dataset, file, exit>>

\* A fault to compare Finish with: the last golden PR alone decides.
FinishOnLast ==
  /\ Running /\ dataset # <<>> /\ ~More
  /\ Stop(IF ~Last(graded).passed THEN "1" ELSE "0")

Finish ==
  /\ Running /\ dataset # <<>> /\ ~More
  /\ Stop(IF \E i \in DOMAIN graded : ~graded[i].passed THEN "1" ELSE "0")

GateNext ==
  \/ \E d \in Datasets, f \in Files : StartGate(d, f)
  \/ \E d \in Datasets : StartCanary(d)
  \/ \E command \in {"gate", "canary"} : LoadFails(command)
  \/ EmptyDataset
  \/ FileRefused
  \/ FileUnreadable
  \/ JudgeRaises
  \/ GatePR
  \/ \E answer \in Answers : RunAgent(answer)
  \/ AgentRaises
  \/ GradeCanary
  \/ Finish

GateSpec == GateInit /\ [][GateNext]_gateVars

-------------------------------------------------------------------------------
GateTypeOK ==
  /\ tool \in {"idle", "gate", "canary"}
  /\ file.kind \in FileKinds
  /\ turn \in Nat
  /\ tool = "canary" /\ More => turn <= Len(CurrentPR.agents)
  /\ Len(graded) <= Len(dataset)
  /\ exit \in {"running", "0", "1", "2"}

(* A status of 0 was earned: every golden PR of the set was scored, and clears *)
(* the threshold.                                                              *)
PassIsEarned ==
  exit = "0" => /\ Len(graded) = Len(dataset)
                /\ \A i \in DOMAIN graded :
                     Passes(graded[i].expected, graded[i].actual)

(* Each golden PR is scored on findings of its own: the gate on those of the   *)
(* file, unless the file holds none; the canary on one report of each of the   *)
(* PR's agents, against what these agents can be held to.                      *)
GradedOnOwnFindings ==
  \A i \in DOMAIN graded :
    /\ (tool = "gate" /\ file.findings # <<>>) =>
         graded[i].actual = file.findings
    /\ tool = "canary" =>
         /\ \E s \in [1 .. Len(dataset[i].agents) -> Answers] :
              graded[i].actual = FlattenSeq(s)
         /\ \A n \in DOMAIN graded[i].expected :
              graded[i].expected[n].agent
                \in ToSet(dataset[i].agents) \cup {AnyAgent}

(* What the gate ends in a traceback for: a golden set that cannot be loaded,  *)
(* a findings file that cannot be read, or one that holds no findings.         *)
GateMayRaise ==
  /\ tool = "gate"
  /\ dataset = <<>> \/ file.kind \in {"unreadable", "misshapen"}

(* A status of 1 is a verdict on the findings: a golden PR did not pass. Only  *)
(* the gate's uncaught exceptions, which the interpreter ends with 1 as well,  *)
(* look the same; of the canary 1 always is a verdict.                         *)
BlockIsAVerdict ==
  exit = "1" => (\E i \in DOMAIN graded : ~graded[i].passed) \/ GateMayRaise

(* With no findings given the gate compares the golden set with itself. That   *)
(* passes exactly when every golden PR expects a finding.                      *)
SelfCheckNeedsExpectations ==
  (tool = "gate" /\ exit \in {"0", "1"} /\ dataset # <<>>
     /\ file.kind \in {"absent", "list"} /\ file.findings = <<>>) =>
    (exit = "0" <=> \A i \in DOMAIN dataset : dataset[i].expected # <<>>)

(* The reference for the greedy claims: the best score of any assignment of    *)
(* reported findings to expectations that uses no expectation twice.           *)
Assignments(e, a) ==
  {s \in [1 .. Len(a) -> 0 .. Len(e)] :
     \A i, j \in 1 .. Len(a) : (i # j /\ s[i] = s[j]) => s[i] = 0}

BestMatch(e, a) ==
  Max({SumFunction([i \in 1 .. Len(a) |-> IF s[i] = 0 THEN 0 ELSE Points(a[i], e[s[i]])]) :
       s \in Assignments(e, a)})

(* Scoring finding by finding, in the order they are reported, never counts an *)
(* expectation twice. An early finding may claim the expectation a later one   *)
(* matches better, so the best assignment is not always found; but the score   *)
(* is never less than a third of it.                                           *)
GreedyIsAtLeastThird ==
  \A i \in DOMAIN graded :
    LET e == graded[i].expected
        a == graded[i].actual
    IN /\ Matched(e, a) <= BestMatch(e, a)
       /\ 3 * Matched(e, a) >= BestMatch(e, a)

(* The score is perfect for the golden findings in any order, and for nothing  *)
(* else.                                                                       *)
SameFinding(a, g) ==
  a.loc = g.loc /\ a.category = g.category /\ a.severity = g.severity

PerfectIffExact ==
  \A i \in DOMAIN graded :
    LET e == graded[i].expected
        a == graded[i].actual
    IN (a # <<>>) =>
         ((Matched(e, a) = 2 * Len(a) /\ Len(a) = Len(e)) <=>
            \E s \in Assignments(e, a) :
              /\ \A j \in DOMAIN a : s[j] # 0 /\ SameFinding(a[j], e[s[j]])
              /\ Len(a) = Len(e))

\* The exit status is a verdict on the findings that were to be graded.
VerdictIsEarned == GateTypeOK /\ PassIsEarned /\ GradedOnOwnFindings /\ BlockIsAVerdict
                   /\ SelfCheckNeedsExpectations

\* The score measures agreement with the golden findings.
JudgeIsSound == GreedyIsAtLeastThird /\ PerfectIffExact
==============================================================================
