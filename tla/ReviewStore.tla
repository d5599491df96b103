----------------------------- MODULE ReviewStore -----------------------------
(***************************************************************************)
(* The state that ingress (DeliveryIntake) and the runs of the pipeline    *)
(* (ReviewRuns) share: the status column of pr_review_records, the         *)
(* pipeline jobs in Redis, the error events and the event loops of the API *)
(* processes.  Each of the two can be checked by itself; ReviewSystem puts *)
(* them together.                                                          *)
(***************************************************************************)
CONSTANTS Reviews,   \* review ids a claim may draw (uuid4)
          Servers    \* API processes, one event loop each

VARIABLES status,      \* pr_review_records.status
          job,         \* the pipeline job of each review, in Redis
          errorEvent,  \* an agent=job_queue, status=error event is anchored to it
          busy         \* the event loop of an API process is executing a handler

\* "none" is the absence of a row; "pending" is the column's default.
Statuses == {"none", "pending", "posted", "completed", "queued", "escalated"}

\* "none": never published.  "done": arq keeps a result and will not run it again.
JobStates == {"none", "queued", "running", "done"}
=============================================================================
