--------------------------- MODULE DeliveryLedger ---------------------------
(***************************************************************************)
(* What webhook ingress promises to GitHub and to the job queue, with      *)
(* nothing of how it keeps it: a delivery is owned by at most one review,  *)
(* for ever; only an owned delivery is acknowledged; only an owning review *)
(* is put on the queue, and once.  The webhook handler (DeliveryIntake)    *)
(* implements this specification.                                          *)
(***************************************************************************)
CONSTANTS Deliveries,   \* X-GitHub-Delivery identifiers
          Reviews       \* identifiers a claim may draw (uuid4)

VARIABLES claims,       \* set of <<delivery, review>>: the owned deliveries
          acked,        \* deliveries answered "accepted" or "duplicate"
          enqueued      \* reviews whose pipeline job has been published

ledgerVars == <<claims, acked, enqueued>>

Owned(d) == \E r \in Reviews : <<d, r>> \in claims
Owner(r) == \E d \in Deliveries : <<d, r>> \in claims

LedgerInit ==
    /\ claims = {}
    /\ acked = {}
    /\ enqueued = {}

\* Becoming the owner: the delivery has none, and the review owns nothing yet.
Own(d, r) ==
    /\ ~Owned(d)
    /\ ~Owner(r)
    /\ claims' = claims \cup {<<d, r>>}
    /\ UNCHANGED <<acked, enqueued>>

Acknowledge(d) ==
    /\ Owned(d)
    /\ acked' = acked \cup {d}
    /\ UNCHANGED <<claims, enqueued>>

Enqueue(r) ==
    /\ Owner(r)
    /\ r \notin enqueued
    /\ enqueued' = enqueued \cup {r}
    /\ UNCHANGED <<claims, acked>>

LedgerNext ==
    \/ \E d \in Deliveries, r \in Reviews : Own(d, r)
    \/ \E d \in Deliveries : Acknowledge(d)
    \/ \E r \in Reviews : Enqueue(r)

LedgerSpec == LedgerInit /\ [][LedgerNext]_ledgerVars
=============================================================================
