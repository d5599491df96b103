----------------------------- MODULE Oversight -----------------------------
(***************************************************************************)
(* People looking at reviews while runs write them (RunLedger): GET        *)
(* /reviews/{id} (main.py) and explain_finding (observability/audit.py),   *)
(* which read a review in three SELECTs of their own transactions, and the *)
(* human queue (hitl/queue.py), of which a reviewer decides what a listing *)
(* shows, fresh or not.                                                    *)
(***************************************************************************)
EXTENDS RunLedger, Sequences

CONSTANTS Readers,     \* requests for one review, or for the explanation of a finding
          Reviewers,   \* who list the queue, approve and reject
          Unnamed,     \* those of them who give no name
          Nobody,
          ListLimit    \* entries of one listing (50 in the code)

ASSUME OversightAssumption == ListLimit \in Nat \ {0} /\ Unnamed \subseteq Reviewers /\ Nobody \notin Reviewers

VARIABLES called,      \* runs whose llm.call events are in agent_events
          view,        \* what each reader has read so far
          created,     \* hitl_reviews by created_at
          entry,       \* hitl_reviews: state and assigned_to of a run's row
          listed       \* what a reviewer took from the last listing and has not handled

people == <<created, entry, listed>>
vars == <<ledger, called, view, people>>

EntryStates == {"queued", "approved", "rejected"}
\* A view before any SELECT; "record", "findings" and "done" follow.
Blank == [at |-> "idle", review |-> NoReview, settled |-> FALSE, rows |-> {}, called |-> {}]
Views == [at : {"idle", "record", "findings", "done"}, review : Reviews \cup {NoReview},
          settled : BOOLEAN, rows : SUBSET (Runs \X (1..MaxFindings)),
          called : SUBSET Runs]

TypeOK ==
    /\ LedgerTypeOK
    /\ called \subseteq Runs
    /\ view \in [Readers -> Views]
    /\ created \in Seq(Runs)
    /\ entry \in [Runs -> [state : EntryStates, by : Reviewers \cup {Nobody}]]
    /\ listed \in [Reviewers -> SUBSET Runs]

Init ==
    /\ LedgerInit
    /\ called = {}
    /\ view = [g \in Readers |-> Blank]
    /\ created = <<>>
    /\ entry = [t \in Runs |-> [state |-> "queued", by |-> Nobody]]
    /\ listed = [h \in Reviewers |-> {}]
-----------------------------------------------------------------------------
(* The runs.  An agent's findings follow its llm.call event (FindingsAreTraced of *)
(* AgentCalls).                                                                   *)

Call(t) ==
    /\ stage[t] = "analyse"
    /\ called' = called \cup {t}
    /\ UNCHANGED <<ledger, view, people>>

InOrderOfCreation(t) == created' = IF stage[t] = "queue" THEN Append(created, t) ELSE created

\* A fault to compare WriteRow with: findings without the llm.call event.
WriteUntraced(t) == LedgerStep(t) /\ InOrderOfCreation(t)

WriteRow(t) ==
    /\ LedgerStep(t)
    /\ stage[t] = "analyse" /\ size'[t] > 0 => t \in called
    /\ InOrderOfCreation(t)

RunStep ==
    /\ \/ \E t \in Runs, r \in Reviews : Begin(t, r) /\ UNCHANGED created
       \/ \E t \in Runs : WriteRow(t)
       \/ \E S \in SUBSET Runs : Abort(S) /\ UNCHANGED created
    /\ UNCHANGED <<called, view, entry, listed>>
-----------------------------------------------------------------------------
(* The readers. *)

Read(g, next) == view' = [view EXCEPT ![g] = next] /\ UNCHANGED <<ledger, called, people>>

\* get_review_record
ReadRecord(g, r) ==
    /\ view[g].at = "idle"
    /\ Read(g, [Blank EXCEPT !.at = "record", !.review = r, !.settled = status[r] # "pending"])

RowsOf(r) == {f \in rows : review[f[1]] = r}
CallsOf(r) == {t \in called : review[t] = r}

\* get_findings_for_review; explain_finding stops here when its finding is not among them.
ReadFindings(g) ==
    /\ view[g].at = "record"
    /\ Read(g, [view[g] EXCEPT !.at = "findings", !.rows = RowsOf(view[g].review)])

\* A fault to compare ReadEvents with: the status is read last.
EventsThenRecord(g) ==
    /\ view[g].at = "findings"
    /\ Read(g, [view[g] EXCEPT !.at = "done", !.called = CallsOf(view[g].review),
                               !.settled = status[view[g].review] # "pending"])

\* get_events_for_review
ReadEvents(g) ==
    /\ view[g].at = "findings"
    /\ Read(g, [view[g] EXCEPT !.at = "done", !.called = CallsOf(view[g].review)])

\* A SELECT raises: the request fails, and may be made again.
ReadFails(g) ==
    /\ view[g].at \in {"record", "findings"}
    /\ Read(g, Blank)

ReaderStep(g) ==
    \/ \E r \in Reviews : ReadRecord(g, r)
    \/ ReadFindings(g) \/ ReadEvents(g) \/ ReadFails(g)
-----------------------------------------------------------------------------
(* The human queue. *)

Queued == {i \in DOMAIN created : entry[created[i]].state = "queued"}

\* A fault to compare ListQueue with: decided entries are listed too.
ListAnyState(h) ==
    /\ listed' = [listed EXCEPT ![h] = {created[i] : i \in DOMAIN created \cap 1..ListLimit}]
    /\ UNCHANGED <<ledger, called, view, created, entry>>

\* list_queued: the oldest ones first.
ListQueue(h) ==
    /\ listed' = [listed EXCEPT ![h] =
                     {created[i] : i \in {n \in Queued : Cardinality({m \in Queued : m < n}) < ListLimit}}]
    /\ UNCHANGED <<ledger, called, view, created, entry>>

Handled(h, t) == listed' = [listed EXCEPT ![h] = @ \ {t}]

\* A fault to compare Decide with: no state = 'queued' in the UPDATE.
LastDecisionWins(h, t, state) ==
    /\ t \in listed[h]
    /\ entry' = [entry EXCEPT ![t] = [state |-> state, by |-> IF h \in Unnamed THEN @.by ELSE h]]
    /\ Handled(h, t)
    /\ UNCHANGED <<ledger, called, view, created>>

\* approve and reject: an UPDATE of a row that is still queued, COALESCE(reviewer,
\* assigned_to); they return None whether or not there was one.
Decide(h, t, state) ==
    /\ t \in listed[h]
    /\ entry' = IF entry[t].state # "queued" THEN entry
                ELSE [entry EXCEPT ![t] = [state |-> state,
                                           by |-> IF h \in Unnamed THEN @.by ELSE h]]
    /\ Handled(h, t)
    /\ UNCHANGED <<ledger, called, view, created>>

ReviewerDecides(h) ==
    \E t \in listed[h], state \in {"approved", "rejected"} : Decide(h, t, state)
-----------------------------------------------------------------------------
Next ==
    \/ RunStep
    \/ \E t \in Runs : Call(t)
    \/ \E g \in Readers : ReaderStep(g)
    \/ \E h \in Reviewers : ListQueue(h) \/ ReviewerDecides(h)

Spec == Init /\ [][Next]_vars

\* A reviewer goes on listing the queue and deciding what the list shows.
FairSpec ==
    /\ Spec
    /\ \A h \in Reviewers : WF_vars(ListQueue(h)) /\ WF_vars(ReviewerDecides(h))
-----------------------------------------------------------------------------
\* A view that shows a review as settled shows every finding of a run that settled it,
\* although its parts are read one after the other while runs write.
SettledViewIsComplete ==
    \A g \in Readers : view[g].at \in {"findings", "done"} /\ view[g].settled =>
        \E t \in Runs : review[t] = view[g].review /\ Findings(t) \subseteq view[g].rows

\* What readers are shown of a review, between whose reads the runs write on.
ViewsAreSound == TypeOK /\ StatusIsBacked /\ SettledViewIsComplete

\* Every finding that a complete view shows comes with the llm.call event, and so with the
\* prompt version, of the run that produced it: explain_finding never has to answer that a
\* finding came from nowhere.
ShownFindingIsExplained ==
    \A g \in Readers : view[g].at = "done" => \A f \in view[g].rows : f[1] \in view[g].called

\* The first decision of an entry is final: neither its state nor the name beside it ever
\* changes again, however stale the list was from which another reviewer decides.
FirstDecisionIsFinal ==
    [][\A t \in Runs : entry[t].state # "queued" => entry'[t] = entry[t]]_vars

\* An entry of the human queue is decided, however many entries precede it, as long as
\* reviewers go on working off what they are shown.
EntryIsDecided ==
    \A t \in Runs : t \in hitl ~> entry[t].state # "queued"
=============================================================================
