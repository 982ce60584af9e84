-------------------------- MODULE SubscriberDispatch --------------------------
(***************************************************************************)
(* The subscriber_deliveries queue and the dispatch worker that drains it  *)
(* (bin/status-server/src/subscriber_dispatch.rs over the delivery         *)
(* operations of crates/storage/src/duckdb.rs).                            *)
(*                                                                         *)
(* A storage call is one atomic step: it runs on a blocking thread under   *)
(* the connection mutex.  Between two calls of `sweep` there is an await,  *)
(* so every other actor, a crash included, may run there.                  *)
(*                                                                         *)
(* Deliveries are numbered in enqueue order, which is the created_at order *)
(* that list_pending_deliveries sorts by.  The retry timer next_attempt_at *)
(* is abstracted to `retryDue`: whether it has elapsed.                    *)
(***************************************************************************)
EXTENDS Naturals, FiniteSets

CONSTANTS Workers,        \* dispatch workers sharing the table (main.rs spawns one)
          NumDeliveries,  \* bound: deliveries ever enqueued
          MAX_ATTEMPTS,   \* 6 in the code
          BATCH_LIMIT,    \* 200 in the code
          Faults          \* whether storage errors and crashes happen

ASSUME DispatchAssumption ==
    /\ NumDeliveries \in Nat
    /\ MAX_ATTEMPTS \in Nat
    /\ BATCH_LIMIT \in Nat \ {0}
    /\ Faults \in BOOLEAN

VARIABLES status,     \* the row's status column ("absent": not enqueued, "purged": deleted)
          attempts,   \* the row's attempts column
          retryDue,   \* next_attempt_at <= CURRENT_TIMESTAMP, for a failed row
          stage,      \* where each worker is in `sweep`
          pending,    \* the listed rows a worker still has to go through
          claimed,    \* the row a worker works on
          seen,       \* claimed.attempts, read back by claim_delivery
          tries,      \* history: dispatch_delivery calls made for a row
          accepted    \* history: dispatch_delivery calls that returned Ok

dispatchVars == <<status, attempts, retryDue, stage, pending, claimed, seen, tries, accepted>>
deliveryRows == <<status, attempts, retryDue>>
history == <<tries, accepted>>

Deliveries == 1 .. NumDeliveries
Statuses == {"absent", "pending", "claimed", "failed", "sent", "dead_letter", "purged"}
Stages == {"idle", "loop", "dispatch", "markSent", "markFailed"}
Terminal == {"sent", "dead_letter", "purged"}

DispatchInit ==
    /\ status = [d \in Deliveries |-> "absent"]
    /\ attempts = [d \in Deliveries |-> 0]
    /\ retryDue = [d \in Deliveries |-> FALSE]
    /\ stage = [w \in Workers |-> "idle"]
    /\ pending = [w \in Workers |-> {}]
    /\ claimed = [w \in Workers |-> 0]
    /\ seen = [w \in Workers |-> 0]
    /\ tries = [d \in Deliveries |-> 0]
    /\ accepted = [d \in Deliveries |-> 0]

-----------------------------------------------------------------------------
(* Storage operations.                                                      *)

\* Faulty variant: claimed rows are not excluded.
DeliverableIfClaimed(d) ==
    \/ status[d] \in {"pending", "claimed"}
    \/ status[d] = "failed" /\ retryDue[d]

\* Faulty variant: dead-lettered rows are picked up again.
DeliverableIfDead(d) ==
    \/ status[d] \in {"pending", "dead_letter"}
    \/ status[d] = "failed" /\ retryDue[d]

\* Faulty variant: failed rows are forgotten.
DeliverableOnlyPending(d) == status[d] = "pending"

\* The WHERE clause shared by list_pending_deliveries and claim_delivery.
Deliverable(d) ==
    \/ status[d] = "pending"
    \/ status[d] = "failed" /\ retryDue[d]

\* SELECT ... ORDER BY created_at ASC LIMIT BATCH_LIMIT.
ListPending ==
    {d \in Deliveries :
        /\ Deliverable(d)
        /\ Cardinality({e \in Deliveries : Deliverable(e) /\ e < d}) < BATCH_LIMIT}

\* mark_delivery: bumps attempts; a Failed mark arms the backoff timer.
MarkDelivery(d, newStatus) ==
    /\ status' = [status EXCEPT ![d] = newStatus]
    /\ attempts' = [attempts EXCEPT ![d] = @ + 1]
    /\ retryDue' = [retryDue EXCEPT ![d] = FALSE]

\* enqueue_delivery, called by the incident writer for each verified subscriber.
EnqueueDelivery(d) ==
    /\ status[d] = "absent"
    /\ \A e \in Deliveries : e < d => status[e] # "absent"
    /\ status' = [status EXCEPT ![d] = "pending"]
    /\ UNCHANGED <<attempts, retryDue, stage, pending, claimed, seen, history>>

\* Time reaches next_attempt_at (30 * 2^attempts seconds, at most an hour).
BackoffElapses(d) ==
    /\ status[d] = "failed"
    /\ ~retryDue[d]
    /\ retryDue' = [retryDue EXCEPT ![d] = TRUE]
    /\ UNCHANGED <<status, attempts, stage, pending, claimed, seen, history>>

\* delete_old_deliveries, called by the cleanup worker: any terminal rows older
\* than the retention horizon go; the age of a row is left open.
DeleteOldDeliveries ==
    \E old \in SUBSET {d \in Deliveries : status[d] \in {"sent", "dead_letter"}} \ {{}} :
        /\ status' = [d \in Deliveries |-> IF d \in old THEN "purged" ELSE status[d]]
        /\ UNCHANGED <<attempts, retryDue, stage, pending, claimed, seen, history>>

-----------------------------------------------------------------------------
(* The worker.                                                              *)

\* A tick: read the batch.  An empty batch ends the sweep at once.
StartSweep(w) ==
    /\ stage[w] = "idle"
    /\ ListPending # {}
    /\ stage' = [stage EXCEPT ![w] = "loop"]
    /\ pending' = [pending EXCEPT ![w] = ListPending]
    /\ UNCHANGED <<deliveryRows, claimed, seen, history>>

\* The loop takes the listed rows in created_at order.
NextInBatch(w, d) == d \in pending[w] /\ \A e \in pending[w] : d <= e

\* claim_delivery found the row still deliverable.
Claim(w) ==
    \E d \in Deliveries :
        /\ stage[w] = "loop"
        /\ NextInBatch(w, d)
        /\ Deliverable(d)
        /\ status' = [status EXCEPT ![d] = "claimed"]
        /\ stage' = [stage EXCEPT ![w] = "dispatch"]
        /\ pending' = [pending EXCEPT ![w] = @ \ {d}]
        /\ claimed' = [claimed EXCEPT ![w] = d]
        /\ seen' = [seen EXCEPT ![w] = attempts[d]]
        /\ UNCHANGED <<attempts, retryDue, history>>

\* claim_delivery returned None: another worker has the row; go on.
ClaimLost(w) ==
    \E d \in Deliveries :
        /\ stage[w] = "loop"
        /\ NextInBatch(w, d)
        /\ ~Deliverable(d)
        /\ pending' = [pending EXCEPT ![w] = @ \ {d}]
        /\ UNCHANGED <<deliveryRows, stage, claimed, seen, history>>

\* The batch is done: wait for the next tick.
FinishSweep(w) ==
    /\ stage[w] = "loop"
    /\ pending[w] = {}
    /\ stage' = [stage EXCEPT ![w] = "idle"]
    /\ UNCHANGED <<deliveryRows, pending, claimed, seen, history>>

\* dispatch_delivery returned Ok: the transport accepted the message.
DispatchOk(w) ==
    /\ stage[w] = "dispatch"
    /\ tries' = [tries EXCEPT ![claimed[w]] = @ + 1]
    /\ accepted' = [accepted EXCEPT ![claimed[w]] = @ + 1]
    /\ stage' = [stage EXCEPT ![w] = "markSent"]
    /\ UNCHANGED <<deliveryRows, pending, claimed, seen>>

\* dispatch_delivery returned an error or timed out.
DispatchErr(w) ==
    /\ stage[w] = "dispatch"
    /\ tries' = [tries EXCEPT ![claimed[w]] = @ + 1]
    /\ stage' = [stage EXCEPT ![w] = "markFailed"]
    /\ UNCHANGED <<deliveryRows, pending, claimed, seen, accepted>>

\* The end of an iteration of the loop: its locals are gone.
Release(w) ==
    /\ claimed' = [claimed EXCEPT ![w] = 0]
    /\ seen' = [seen EXCEPT ![w] = 0]

MarkSent(w) ==
    /\ stage[w] = "markSent"
    /\ MarkDelivery(claimed[w], "sent")
    /\ stage' = [stage EXCEPT ![w] = "loop"]
    /\ Release(w)
    /\ UNCHANGED <<pending, history>>

\* Faulty variant: a delivery is parked before its attempts are used up.
FailedStatusEarly(n) == IF n + 2 >= MAX_ATTEMPTS THEN "dead_letter" ELSE "failed"

\* The status a failed dispatch leaves, from the attempts read at the claim: the
\* one that failed just now is not among them.
FailedStatus(n) == IF n >= MAX_ATTEMPTS THEN "dead_letter" ELSE "failed"

MarkFailed(w) ==
    /\ stage[w] = "markFailed"
    /\ MarkDelivery(claimed[w], FailedStatus(seen[w]))
    /\ stage' = [stage EXCEPT ![w] = "loop"]
    /\ Release(w)
    /\ UNCHANGED <<pending, history>>

-----------------------------------------------------------------------------
(* Faults.                                                                  *)

\* claim_delivery fails: the `?` abandons the sweep.  The read-back follows the
\* committed UPDATE, so the row may or may not have become claimed.
ClaimFails(w) ==
    \E d \in Deliveries :
        /\ stage[w] = "loop"
        /\ NextInBatch(w, d)
        /\ status' \in {status} \cup
              (IF Deliverable(d) THEN {[status EXCEPT ![d] = "claimed"]} ELSE {})
        /\ stage' = [stage EXCEPT ![w] = "idle"]
        /\ pending' = [pending EXCEPT ![w] = {}]
        /\ UNCHANGED <<attempts, retryDue, claimed, seen, history>>

\* mark_delivery fails: logged, and the loop goes on.
MarkFails(w) ==
    /\ stage[w] \in {"markSent", "markFailed"}
    /\ stage' = [stage EXCEPT ![w] = "loop"]
    /\ Release(w)
    /\ UNCHANGED <<deliveryRows, pending, history>>

\* Faulty variant: the row a stopped worker held is put back into the queue.
StopRequeues(w) ==
    /\ stage[w] # "idle"
    /\ stage' = [stage EXCEPT ![w] = "idle"]
    /\ pending' = [pending EXCEPT ![w] = {}]
    /\ status' = [d \in Deliveries |-> IF d = claimed[w] THEN "pending" ELSE status[d]]
    /\ Release(w)
    /\ UNCHANGED <<attempts, retryDue, history>>

\* The process stops, or main abandons the worker after the drain timeout; the
\* worker starts again with nothing but the table.
StopWorker(w) ==
    /\ stage[w] # "idle"
    /\ stage' = [stage EXCEPT ![w] = "idle"]
    /\ pending' = [pending EXCEPT ![w] = {}]
    /\ Release(w)
    /\ UNCHANGED <<deliveryRows, history>>

-----------------------------------------------------------------------------

\* Everything a worker does when nothing fails.
WorkerStep(w) ==
    \/ StartSweep(w)
    \/ Claim(w)
    \/ ClaimLost(w)
    \/ FinishSweep(w)
    \/ DispatchOk(w)
    \/ DispatchErr(w)
    \/ MarkSent(w)
    \/ MarkFailed(w)

Fault(w) ==
    /\ Faults
    /\ ClaimFails(w) \/ MarkFails(w) \/ StopWorker(w)

DispatchNext ==
    \/ \E d \in Deliveries : EnqueueDelivery(d) \/ BackoffElapses(d)
    \/ DeleteOldDeliveries
    \/ \E w \in Workers : WorkerStep(w) \/ Fault(w)

DispatchSpec == DispatchInit /\ [][DispatchNext]_dispatchVars

\* Tokio polls the worker, every transport has a timeout, and time passes.
DispatchFairness ==
    /\ \A w \in Workers : WF_dispatchVars(WorkerStep(w))
    /\ \A d \in Deliveries : WF_dispatchVars(BackoffElapses(d))

FairDispatchSpec == DispatchSpec /\ DispatchFairness

-----------------------------------------------------------------------------
(* Properties.                                                              *)

\* Every variable has its type.
DispatchTypeOK ==
    /\ status \in [Deliveries -> Statuses]
    /\ attempts \in [Deliveries -> Nat]
    /\ retryDue \in [Deliveries -> BOOLEAN]
    /\ stage \in [Workers -> Stages]
    /\ pending \in [Workers -> SUBSET Deliveries]
    /\ claimed \in [Workers -> Deliveries \cup {0}]
    /\ seen \in [Workers -> Nat]
    /\ tries \in [Deliveries -> Nat]
    /\ accepted \in [Deliveries -> Nat]

\* A worker holds a row from the claim to the mark.
Holds(w, d) == stage[w] \in {"dispatch", "markSent", "markFailed"} /\ claimed[w] = d

\* A subscriber is never sent the same notification again once a transport has
\* accepted it, whatever crashes, lost marks and concurrent workers do between
\* claim_delivery, dispatch_delivery and mark_delivery.
AtMostOnceAccepted == \A d \in Deliveries : accepted[d] <= 1

\* claim_delivery hands a row to one worker at a time, and the row stays claimed
\* for as long as that worker dispatches and marks it.
ExclusiveClaim ==
    \A w \in Workers, d \in Deliveries :
        Holds(w, d) => /\ status[d] = "claimed"
                       /\ \A v \in Workers \ {w} : ~Holds(v, d)

\* A delivery is parked as dead-letter only after the MAX_ATTEMPTS attempts it is
\* due, counted where they are made and not in the row whose marks may be lost, and
\* only if no transport ever accepted it (MarkFailed over claim_delivery's attempts).
DeadLetterOnlyWhenSpent ==
    \A d \in Deliveries :
        status[d] = "dead_letter" => tries[d] >= MAX_ATTEMPTS /\ accepted[d] = 0

\* "Maximum delivery attempts before dead-lettering" (subscriber_dispatch.rs:56):
\* dispatch_delivery runs MAX_ATTEMPTS times at most for one delivery.
AttemptsWithinMaximum == \A d \in Deliveries : tries[d] <= MAX_ATTEMPTS

\* What holds instead: one attempt more than that maximum, and no further however
\* many sweeps, failures and lost marks there are.
TriesBounded == \A d \in Deliveries : tries[d] <= MAX_ATTEMPTS + 1

\* A row that reached a terminal status never leaves it except to be purged, and
\* attempts never goes back.
TerminalIsFinal ==
    [][\A d \in Deliveries :
          /\ status[d] \in Terminal => status'[d] \in {status[d], "purged"}
          /\ attempts'[d] >= attempts[d]]_dispatchVars

\* A fault that is felt: a stop between two sweeps is like the end of the first.
FaultFelt == \E w \in Workers : Fault(w) /\ ~FinishSweep(w)

\* Once storage errors and crashes stop, every enqueued delivery ends sent or
\* dead-lettered, or is one a failed worker left claimed: older deliveries that
\* keep failing and fill the batch limit in every sweep do not hold it up.
Orphaned(d) == status[d] = "claimed" /\ \A w \in Workers : ~Holds(w, d)
EventuallySettled ==
    (<>[][~FaultFelt]_dispatchVars) =>
        \A d \in Deliveries :
            (status[d] = "pending") ~> (status[d] \in Terminal \/ Orphaned(d))

\* What has become of a delivery whose row says s, which transports accepted n
\* times and which some workers hold.
Outcome(s, n, holders) ==
    CASE s = "absent" -> "new"
      [] s = "sent" \/ n > 0 -> "taken"
      [] s \in {"dead_letter", "purged"} /\ n = 0 -> "given up"
      [] s = "claimed" /\ holders = {} /\ n = 0 -> "lost"
      [] OTHER -> "open"
Holders(d) == {w \in Workers : Holds(w, d)}

Queue == INSTANCE DeliveryQueue WITH
            Items <- Deliveries, Due <- MAX_ATTEMPTS,
            outcome <- [d \in Deliveries |-> Outcome(status[d], accepted[d], Holders(d))], offers <- tries

\* The table, its claims and the sweeps are a queue that does not offer a delivery
\* to its transport again after the transport took it or the worker that held it
\* was lost, and gives none up before MAX_ATTEMPTS offers
\* (sweep, claim_delivery, mark_delivery, delete_old_deliveries).
ActsAsQueue == Queue!Spec
=============================================================================
