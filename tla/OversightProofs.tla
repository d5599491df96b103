--------------------------- MODULE OversightProofs ---------------------------
(***************************************************************************)
(* Proofs about RunLedger and Oversight, for any number of reviews, runs,  *)
(* findings, readers and reviewers: what the rows of a review mean follows *)
(* from how far its runs have come.                                        *)
(***************************************************************************)
EXTENDS Oversight, TLAPS

Past == {"queue", "announce", "ended"}

\* The run has settled its review, and its findings are there.
Settles(t, r) == review[t] = r /\ stage[t] \in Past /\ Findings(t) \subseteq rows

\* How far a run has come, and what it wrote on the way.
Progress(t) ==
    /\ stage[t] # "idle" => review[t] \in Reviews
    /\ stage[t] \in {"queue", "announce"} => Settles(t, review[t]) /\ status[review[t]] # "pending"
    /\ t \in announced => stage[t] = "ended" /\ Settles(t, review[t]) /\ status[review[t]] # "pending"

LedgerInv ==
    /\ LedgerTypeOK
    /\ \A t \in Runs : Progress(t)
    /\ \A f \in rows : stage[f[1]] # "idle"
    /\ \A r \in Reviews : status[r] # "pending" => \E t \in Runs : Settles(t, r)

USE LedgerAssumption DEF Stages, Settled, Gated, Past

\* Before the first run the store is empty.
LEMMA LedgerInitInv == LedgerInit => LedgerInv
BY DEF LedgerInit, LedgerInv, LedgerTypeOK, Progress

\* A run that has settled a review remains one that has.
LEMMA SettlesStays ==
    ASSUME NEW t \in Runs, NEW r, Settles(t, r),
           review'[t] = review[t], stage'[t] \in Past, size'[t] = size[t], rows \subseteq rows'
    PROVE  Settles(t, r)'
BY DEF Settles, Findings

\* Every step of a run keeps the invariant.
LEMMA RunInv ==
    ASSUME LedgerInv, NEW t \in Runs, LedgerStep(t)
    PROVE  LedgerInv'
<1> USE DEF LedgerInv, LedgerTypeOK, Advance
<1>1. CASE CompleteGraph(t)
  <2>1. PICK n \in 0..MaxFindings : size' = [size EXCEPT ![t] = n]
      BY <1>1 DEF CompleteGraph
  <2>2. stage[t] = "analyse" /\ stage' = [stage EXCEPT ![t] = "insert"]
        /\ UNCHANGED <<review, rows, status, hitl, announced>>
      BY <1>1 DEF CompleteGraph
  <2>3. \A u \in Runs, r \in Reviews : Settles(u, r) => Settles(u, r)'
      BY <2>1, <2>2 DEF Settles, Findings
  <2> QED BY <2>1, <2>2, <2>3 DEF Progress
<1>2. CASE InsertFinding(t)
  <2>1. PICK i \in 1..size[t] : rows' = rows \cup {<<t, i>>}
      BY <1>2 DEF InsertFinding
  <2>2. stage[t] = "insert" /\ UNCHANGED <<review, stage, size, status, hitl, announced>>
      BY <1>2 DEF InsertFinding
  <2>3. \A u \in Runs, r \in Reviews : Settles(u, r) => Settles(u, r)'
      BY <2>1, <2>2 DEF Settles, Findings
  <2>4. <<t, i>> \in Runs \X (1..MaxFindings)
      BY <2>1
  <2> QED BY <2>1, <2>2, <2>3, <2>4 DEF Progress
<1>3. CASE Settle(t)
  <2>1. PICK s \in Settled : /\ status' = [status EXCEPT ![review[t]] = s]
                             /\ stage' = [stage EXCEPT ![t] = IF s \in Gated THEN "queue" ELSE "announce"]
      BY <1>3 DEF Settle
  <2>2. stage[t] = "insert" /\ UNCHANGED <<review, size, rows, hitl, announced>>
      BY <1>3 DEF Settle
  <2>3. Findings(t) \subseteq rows
      BY <1>3 DEF Settle, Findings
  <2>4. Settles(t, review[t])' /\ review[t] \in Reviews
      BY <2>1, <2>2, <2>3 DEF Settles, Findings, Progress
  <2>5. \A u \in Runs, r \in Reviews : Settles(u, r) => Settles(u, r)'
      BY <2>1, <2>2 DEF Settles, Findings
  <2>6. \A r \in Reviews : status[r] # "pending" => status'[r] # "pending"
      BY <2>1
  <2>7. status'[review[t]] # "pending"
      BY <2>1, <2>4
  <2>8. (\A u \in Runs : Progress(u))'
      BY <2>1, <2>2, <2>4, <2>5, <2>6, <2>7 DEF Progress
  <2>9. (\A r \in Reviews : status[r] # "pending" => \E u \in Runs : Settles(u, r))'
      BY <2>1, <2>2, <2>4, <2>5
  <2> QED BY <2>1, <2>2, <2>8, <2>9
<1>4. CASE Enqueue(t)
  <2>1. stage[t] = "queue" /\ stage' = [stage EXCEPT ![t] = "announce"] /\ hitl' = hitl \cup {t}
        /\ UNCHANGED <<review, size, rows, status, announced>>
      BY <1>4 DEF Enqueue
  <2>2. \A u \in Runs, r \in Reviews : Settles(u, r) => Settles(u, r)'
      BY <2>1 DEF Settles, Findings
  <2> QED BY <2>1, <2>2 DEF Progress
<1>5. CASE Announce(t)
  <2>1. stage[t] = "announce" /\ stage' = [stage EXCEPT ![t] = "ended"]
        /\ announced' = announced \cup {t} /\ UNCHANGED <<review, size, rows, status, hitl>>
      BY <1>5 DEF Announce
  <2>2. \A u \in Runs, r \in Reviews : Settles(u, r) => Settles(u, r)'
      BY <2>1 DEF Settles, Findings
  <2> QED BY <2>1, <2>2 DEF Progress
<1> QED BY <1>1, <1>2, <1>3, <1>4, <1>5 DEF LedgerStep

\* A run that begins has written nothing yet.
LEMMA BeginInv ==
    ASSUME LedgerInv, NEW t \in Runs, NEW r \in Reviews, Begin(t, r)
    PROVE  LedgerInv'
<1> USE DEF LedgerInv, LedgerTypeOK, Begin, Advance
<1>1. \A u \in Runs, q \in Reviews : Settles(u, q) => Settles(u, q)'
    BY DEF Settles, Findings
<1> QED BY <1>1 DEF Progress

\* Runs that are cut off leave what they wrote, and claim nothing more.
LEMMA AbortInv ==
    ASSUME LedgerInv, NEW S \in SUBSET Runs, Abort(S)
    PROVE  LedgerInv'
<1> USE DEF LedgerInv, LedgerTypeOK, Abort
<1>1. \A u \in Runs : stage'[u] = IF u \in S THEN "ended" ELSE stage[u]
    OBVIOUS
<1>2. \A u \in Runs, q \in Reviews : Settles(u, q) => Settles(u, q)'
    BY <1>1 DEF Settles, Findings
<1>3. stage' \in [Runs -> Stages]
    OBVIOUS
<1>4. (\A t \in Runs : Progress(t))'
    BY <1>1, <1>2 DEF Progress
<1>5. (\A f \in rows : stage[f[1]] # "idle")'
    BY <1>1
<1> QED BY <1>2, <1>3, <1>4, <1>5

\* The three together.
LEMMA LedgerStepInv == LedgerInv /\ [LedgerNext]_ledger => LedgerInv'
<1>1. CASE UNCHANGED ledger
    BY <1>1 DEF ledger, LedgerInv, LedgerTypeOK, Progress, Settles, Findings
<1> QED BY <1>1, RunInv, BeginInv, AbortInv DEF LedgerNext

\* Behind every status there are the findings of a run that gave it, and behind every
\* decision event all that run_review_pipeline had to write before it.
LEMMA InvIsBacked == LedgerInv => StatusIsBacked
BY DEF LedgerInv, LedgerTypeOK, Progress, Settles, StatusIsBacked

\* The durable rows of the pipeline back its verdicts, however runs overlap and die.
THEOREM VerdictsBacked == LedgerSpec => []StatusIsBacked
BY LedgerInitInv, LedgerStepInv, InvIsBacked, PTL DEF LedgerSpec
-----------------------------------------------------------------------------
USE OversightAssumption DEF EntryStates, Views, Blank

\* What a reader has read is there, and stays.
ViewHolds(g) ==
    LET v == view[g] IN
    /\ v.at # "idle" => v.review \in Reviews
    /\ v.at # "idle" /\ v.settled => status[v.review] # "pending"
    /\ v.at \in {"findings", "done"} =>
          /\ v.settled => \E t \in Runs : Settles(t, v.review) /\ Findings(t) \subseteq v.rows
          /\ v.rows \subseteq rows
          /\ \A f \in v.rows : review[f[1]] = v.review
    /\ v.at = "done" => \A f \in v.rows : f[1] \in v.called

OInv ==
    /\ TypeOK
    /\ LedgerInv
    /\ \A t \in Runs : size[t] > 0 => t \in called
    /\ \A f \in rows : f[1] \in called
    /\ \A g \in Readers : ViewHolds(g)

\* Nobody has read or decided anything at first.
LEMMA InitInv == Init => OInv
<1> SUFFICES ASSUME Init PROVE OInv
    OBVIOUS
<1>1. LedgerInv
    BY LedgerInitInv DEF Init
<1>2. Blank \in Views
    OBVIOUS
<1>3. TypeOK
    BY <1>1, <1>2 DEF Init, TypeOK, LedgerInv
<1>4. \A g \in Readers : ViewHolds(g)
    BY DEF Init, ViewHolds
<1> QED BY <1>1, <1>3, <1>4 DEF Init, OInv, LedgerInit

\* What a step of a run leaves as it was: the review of a run that has begun, the findings
\* of a run that has settled, the rows that are there, and that a review was decided.
Grows ==
    /\ \A t \in Runs : stage[t] # "idle" => review'[t] = review[t]
    /\ \A t \in Runs, r \in Reviews : Settles(t, r) => Settles(t, r)' /\ size'[t] = size[t]
    /\ rows \subseteq rows'
    /\ \A r \in Reviews : status[r] # "pending" => status'[r] # "pending"

\* Runs only add to the store.
LEMMA RunGrows == LedgerInv /\ [LedgerNext]_ledger => Grows
<1> SUFFICES ASSUME LedgerInv, [LedgerNext]_ledger PROVE Grows
    OBVIOUS
<1> USE DEF LedgerInv, LedgerTypeOK, Grows, Settles, Findings, Advance
<1>1. ASSUME NEW t \in Runs, CompleteGraph(t) PROVE Grows
    BY <1>1 DEF CompleteGraph
<1>2. ASSUME NEW t \in Runs, InsertFinding(t) PROVE Grows
    BY <1>2 DEF InsertFinding
<1>3. ASSUME NEW t \in Runs, Settle(t) PROVE Grows
    BY <1>3 DEF Settle
<1>4. ASSUME NEW t \in Runs, Enqueue(t) PROVE Grows
    BY <1>4 DEF Enqueue
<1>5. ASSUME NEW t \in Runs, Announce(t) PROVE Grows
    BY <1>5 DEF Announce
<1>6. ASSUME NEW t \in Runs, NEW r \in Reviews, Begin(t, r) PROVE Grows
    BY <1>6 DEF Begin
<1>7. ASSUME NEW S \in SUBSET Runs, Abort(S) PROVE Grows
    BY <1>7 DEF Abort
<1>8. CASE UNCHANGED ledger
    BY <1>8 DEF ledger
<1> QED BY <1>1, <1>2, <1>3, <1>4, <1>5, <1>6, <1>7, <1>8 DEF LedgerNext, LedgerStep

\* What a reader was shown outlives every step that only adds to the store.
LEMMA ViewStays ==
    ASSUME OInv, Grows, UNCHANGED view, NEW g \in Readers
    PROVE  ViewHolds(g)'
<1> DEFINE v == view[g]
<1>1. ViewHolds(g) /\ v \in Views /\ \A f \in rows : stage[f[1]] # "idle"
    BY DEF OInv, TypeOK, LedgerInv
<1>2. \A t \in Runs : Settles(t, v.review) => size'[t] = size[t] \/ v.at = "idle"
    BY <1>1 DEF ViewHolds, Grows
<1>3. ASSUME v.at \in {"findings", "done"}, v.settled
      PROVE  \E t \in Runs : Settles(t, v.review)' /\ Findings(t)' \subseteq v.rows
  <2>1. PICK t \in Runs : Settles(t, v.review) /\ Findings(t) \subseteq v.rows
      BY <1>1, <1>3 DEF ViewHolds
  <2>2. v.review \in Reviews
      BY <1>1, <1>3 DEF ViewHolds
  <2>3. Settles(t, v.review)' /\ size'[t] = size[t]
      BY <2>1, <2>2 DEF Grows
  <2>4. Findings(t)' = Findings(t)
      BY <2>3 DEF Findings
  <2> QED BY <2>1, <2>3, <2>4
<1>4. ASSUME v.at \in {"findings", "done"}
      PROVE  v.rows \subseteq rows' /\ \A f \in v.rows : review'[f[1]] = v.review
  <2>1. v.rows \subseteq rows /\ \A f \in v.rows : review[f[1]] = v.review
      BY <1>1, <1>4 DEF ViewHolds
  <2>2. \A f \in v.rows : f[1] \in Runs
      BY <2>1 DEF OInv, LedgerInv, LedgerTypeOK
  <2> QED BY <1>1, <2>1, <2>2 DEF Grows
<1>5. v.at # "idle" /\ v.settled => status'[v.review] # "pending"
    BY <1>1 DEF ViewHolds, Grows
<1>6. view'[g] = v
    OBVIOUS
<1> QED BY <1>1, <1>3, <1>4, <1>5, <1>6 DEF ViewHolds

\* A step of a run, as people see it.
LEMMA RunStepInv == OInv /\ RunStep => OInv'
<1> SUFFICES ASSUME OInv, RunStep PROVE OInv'
    OBVIOUS
<1>1. LedgerNext /\ UNCHANGED <<called, view, entry, listed>>
    BY DEF RunStep, LedgerNext, WriteRow
<1>2. LedgerInv' /\ Grows
    BY <1>1, LedgerStepInv, RunGrows DEF OInv
<1>3. created' \in Seq(Runs)
  <2>1. created \in Seq(Runs)
      BY DEF OInv, TypeOK
  <2>2. \A t \in Runs : Append(created, t) \in Seq(Runs)
      BY <2>1
  <2> QED BY <2>1, <2>2 DEF RunStep, WriteRow, InOrderOfCreation
<1>4. TypeOK'
    BY <1>1, <1>2, <1>3 DEF OInv, TypeOK, LedgerInv
<1>5. (\A g \in Readers : ViewHolds(g))'
    BY <1>1, <1>2, ViewStays
<1>6. (\A t \in Runs : size[t] > 0 => t \in called)'
  <2> SUFFICES ASSUME NEW t \in Runs, size'[t] > 0, size'[t] # size[t] PROVE t \in called
      BY <1>1 DEF OInv
  <2>1. stage[t] = "analyse" /\ WriteRow(t)
      BY DEF RunStep, WriteRow, LedgerStep, CompleteGraph, InsertFinding, Settle, Enqueue,
             Announce, Begin, Abort, OInv, TypeOK, LedgerTypeOK
  <2> QED BY <2>1 DEF WriteRow
<1>7. (\A f \in rows : f[1] \in called)'
  <2> SUFFICES ASSUME NEW f \in rows', f \notin rows PROVE f[1] \in called
      BY <1>1 DEF OInv
  <2>1. PICK t \in Runs : InsertFinding(t)
      BY DEF RunStep, WriteRow, LedgerStep, CompleteGraph, InsertFinding, Settle, Enqueue,
             Announce, Begin, Abort
  <2>2. PICK i \in 1..size[t] : f = <<t, i>>
      BY <2>1 DEF InsertFinding
  <2>3. size[t] > 0
      BY <2>2 DEF OInv, TypeOK, LedgerTypeOK
  <2> QED BY <2>2, <2>3 DEF OInv
<1> QED BY <1>2, <1>4, <1>5, <1>6, <1>7 DEF OInv

\* A reader reads on.
LEMMA ReaderInv ==
    ASSUME OInv, NEW g \in Readers, ReaderStep(g)
    PROVE  OInv'
<1>1. UNCHANGED <<ledger, called, people>>
    BY DEF ReaderStep, ReadRecord, ReadFindings, ReadEvents, ReadFails, Read
<1>2. LedgerInv'
    BY <1>1, LedgerStepInv DEF OInv
<1>3. PICK w : view' = [view EXCEPT ![g] = w]
    BY DEF ReaderStep, ReadRecord, ReadFindings, ReadEvents, ReadFails, Read
<1> DEFINE v == view[g]
<1>4. v \in Views /\ ViewHolds(g) /\ view \in [Readers -> Views]
    BY DEF OInv, TypeOK
<1>5. w \in Views /\ ViewHolds(g)'
  <2>1. ASSUME NEW r \in Reviews, ReadRecord(g, r) PROVE w \in Views /\ ViewHolds(g)'
    <3>1. w = [Blank EXCEPT !.at = "record", !.review = r, !.settled = status[r] # "pending"]
        BY <1>3, <1>4, <2>1 DEF ReadRecord, Read
    <3>2. w \in Views /\ view'[g] = w
        BY <1>3, <1>4, <3>1
    <3>3. w.at = "record" /\ w.review = r /\ (w.settled => status[r] # "pending")
        BY <3>1
    <3> QED BY <1>1, <3>2, <3>3 DEF ViewHolds, ledger
  <2>2. CASE ReadFindings(g)
    <3>1. v.at = "record" /\ w = [v EXCEPT !.at = "findings", !.rows = RowsOf(v.review)]
        BY <1>3, <1>4, <2>2 DEF ReadFindings, Read
    <3>2. RowsOf(v.review) \subseteq rows /\ \A f \in RowsOf(v.review) : review[f[1]] = v.review
        BY DEF RowsOf
    <3>3. v.review \in Reviews /\ (v.settled => status[v.review] # "pending")
        BY <1>4, <3>1 DEF ViewHolds
    <3>4. v.settled => \E t \in Runs : Settles(t, v.review) /\ Findings(t) \subseteq RowsOf(v.review)
        BY <3>3 DEF OInv, LedgerInv, Settles, Findings, RowsOf
    <3>5. w \in Views
        BY <1>4, <3>1, <3>2 DEF OInv, LedgerInv, LedgerTypeOK
    <3>6. view'[g] = w
        BY <1>3, <1>4
    <3>7. \A t \in Runs, q \in Reviews : (Settles(t, q) <=> Settles(t, q)') /\ Findings(t)' = Findings(t)
        BY <1>1 DEF ledger, Settles, Findings
    <3> QED BY <1>1, <3>1, <3>2, <3>3, <3>4, <3>5, <3>6, <3>7 DEF ViewHolds, ledger
  <2>3. CASE ReadEvents(g)
    <3>1. v.at = "findings" /\ w = [v EXCEPT !.at = "done", !.called = CallsOf(v.review)]
        BY <1>3, <1>4, <2>3 DEF ReadEvents, Read
    <3>2. \A f \in v.rows : f[1] \in CallsOf(v.review)
        BY <1>4, <3>1 DEF ViewHolds, CallsOf, OInv
    <3>3. CallsOf(v.review) \subseteq Runs
        BY DEF CallsOf, OInv, TypeOK
    <3>4. view'[g] = w /\ w \in Views
        BY <1>3, <1>4, <3>1, <3>3
    <3>5. \A t \in Runs, q \in Reviews : (Settles(t, q) <=> Settles(t, q)') /\ Findings(t)' = Findings(t)
        BY <1>1 DEF ledger, Settles, Findings
    <3> QED BY <1>1, <1>4, <3>1, <3>2, <3>4, <3>5 DEF ViewHolds, ledger
  <2>4. CASE ReadFails(g)
    <3>1. w = Blank
        BY <1>3, <1>4, <2>4 DEF ReadFails, Read
    <3>2. w \in Views /\ view'[g] = w /\ w.at = "idle"
        BY <1>3, <1>4, <3>1
    <3> QED BY <3>2 DEF ViewHolds
  <2> QED BY <2>1, <2>2, <2>3, <2>4 DEF ReaderStep
<1>6. \A h \in Readers : h # g => ViewHolds(h)'
    BY <1>1, <1>3, <1>4 DEF OInv, ViewHolds, ledger, Settles, Findings
<1> QED BY <1>1, <1>2, <1>3, <1>4, <1>5, <1>6 DEF OInv, TypeOK, LedgerInv, ledger, people

\* A reviewer lists the queue, or decides an entry.
LEMMA ReviewerInv ==
    ASSUME OInv, NEW h \in Reviewers, ListQueue(h) \/ ReviewerDecides(h)
    PROVE  OInv'
<1>1. UNCHANGED <<ledger, called, view, created>>
    BY DEF ListQueue, ReviewerDecides, Decide
<1>2. LedgerInv'
    BY <1>1, LedgerStepInv DEF OInv
<1>3. entry' \in [Runs -> [state : EntryStates, by : Reviewers \cup {Nobody}]]
  <2>1. CASE ListQueue(h)
      BY <2>1 DEF ListQueue, OInv, TypeOK
  <2>2. ASSUME NEW t \in listed[h], NEW state \in {"approved", "rejected"}, Decide(h, t, state)
        PROVE  entry' \in [Runs -> [state : EntryStates, by : Reviewers \cup {Nobody}]]
      BY <2>2 DEF Decide, OInv, TypeOK
  <2> QED BY <2>1, <2>2 DEF ReviewerDecides
<1>4. listed' \in [Reviewers -> SUBSET Runs]
  <2>1. CASE ListQueue(h)
    <3>1. \A i \in DOMAIN created : created[i] \in Runs
        BY DEF OInv, TypeOK
    <3> DEFINE Oldest == {n \in Queued : Cardinality({m \in Queued : m < n}) < ListLimit}
    <3>2. {created[i] : i \in Oldest} \subseteq Runs
        BY <3>1 DEF Queued
    <3>3. listed' = [listed EXCEPT ![h] = {created[i] : i \in Oldest}]
        BY <2>1 DEF ListQueue
    <3> HIDE DEF Oldest
    <3> QED BY <3>2, <3>3 DEF OInv, TypeOK
  <2>2. CASE ReviewerDecides(h)
      BY <2>2 DEF ReviewerDecides, Decide, Handled, OInv, TypeOK
  <2> QED BY <2>1, <2>2
<1>5. (\A g \in Readers : ViewHolds(g))'
    BY <1>1 DEF OInv, ViewHolds, ledger, Settles, Findings
<1> QED BY <1>1, <1>2, <1>3, <1>4, <1>5 DEF OInv, TypeOK, LedgerInv, ledger

\* Runs, calls, readers and reviewers keep the invariant.
LEMMA StepInv == OInv /\ [Next]_vars => OInv'
<1> SUFFICES ASSUME OInv, [Next]_vars PROVE OInv'
    OBVIOUS
<1>1. ASSUME UNCHANGED <<ledger, view, people>>, called \subseteq called', called' \subseteq Runs
      PROVE  OInv'
  <2>1. LedgerInv'
      BY <1>1, LedgerStepInv DEF OInv
  <2>2. (\A g \in Readers : ViewHolds(g))'
      BY <1>1 DEF OInv, ViewHolds, ledger, Settles, Findings
  <2> QED BY <1>1, <2>1, <2>2 DEF OInv, TypeOK, LedgerInv, ledger, people
<1>2. ASSUME NEW t \in Runs, Call(t) PROVE OInv'
    BY <1>1, <1>2 DEF Call, OInv, TypeOK
<1>3. CASE UNCHANGED vars
    BY <1>1, <1>3 DEF vars, OInv, TypeOK
<1> QED BY <1>2, <1>3, RunStepInv, ReaderInv, ReviewerInv DEF Next

\* The strengthened invariant, from which the others follow.
THEOREM InvariantHolds == Spec => []OInv
BY InitInv, StepInv, PTL DEF Spec

\* GET /reviews/{id} and explain_finding, which read a review in three SELECTs, show a
\* settled review with all the findings it was settled on, whatever runs write in between.
THEOREM ViewsSound == Spec => []ViewsAreSound
<1>1. OInv => StatusIsBacked
    BY InvIsBacked DEF OInv
<1>2. OInv => SettledViewIsComplete
    BY DEF OInv, ViewHolds, Settles, SettledViewIsComplete
<1>3. OInv => ViewsAreSound
    BY <1>1, <1>2 DEF OInv, ViewsAreSound
<1> QED BY <1>3, InvariantHolds, PTL

\* A finding that explain_finding shows comes with the llm.call event of its run.
THEOREM FindingsExplained == Spec => []ShownFindingIsExplained
<1>1. OInv => ShownFindingIsExplained
    BY DEF OInv, ViewHolds, ShownFindingIsExplained
<1> QED BY <1>1, InvariantHolds, PTL

\* Of approvals and rejections of one entry of the human queue only the first counts,
\* and no step of a run or a reader touches it.
THEOREM DecisionFinal == Spec => FirstDecisionIsFinal
<1>1. OInv /\ [Next]_vars =>
         [\A t \in Runs : entry[t].state # "queued" => entry'[t] = entry[t]]_vars
  <2> SUFFICES ASSUME OInv, Next, NEW t \in Runs, entry[t].state # "queued"
               PROVE  entry'[t] = entry[t]
      OBVIOUS
  <2>1. ASSUME NEW h \in Reviewers, NEW u \in listed[h], NEW state \in {"approved", "rejected"},
               Decide(h, u, state)
        PROVE  entry'[t] = entry[t]
      BY <2>1 DEF Decide, OInv, TypeOK
  <2> QED BY <2>1 DEF Next, RunStep, Call, ReaderStep, ReadRecord, ReadFindings, ReadEvents,
             ReadFails, Read, ListQueue, ReviewerDecides, people
<1> QED BY <1>1, InvariantHolds, PTL DEF Spec, FirstDecisionIsFinal
==============================================================================
