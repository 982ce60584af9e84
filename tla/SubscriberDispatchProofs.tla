----------------------- MODULE SubscriberDispatchProofs -----------------------
(***************************************************************************)
(* Proofs about SubscriberDispatch for any set of workers, any number of   *)
(* deliveries, any MAX_ATTEMPTS and BATCH_LIMIT, with and without faults.  *)
(*                                                                         *)
(* AtMostOnceAccepted is not inductive: it says nothing about the row a    *)
(* worker is dispatching.  The inductive invariant adds what a row's       *)
(* status says of its history (RowInv) and what a worker that holds a row  *)
(* knows about it (HeldInv).                                               *)
(***************************************************************************)
EXTENDS SubscriberDispatch, TLAPS

Holding == {"dispatch", "markSent", "markFailed"}

\* What the status of row d says of the dispatches made for it.
RowInv(d) ==
    /\ accepted[d] <= 1
    /\ accepted[d] = 1 => status[d] \in {"claimed", "sent", "purged"}
    /\ status[d] = "sent" => accepted[d] = 1
    /\ status[d] \in {"absent", "pending", "failed"} =>
          tries[d] = attempts[d] /\ attempts[d] <= MAX_ATTEMPTS
    /\ status[d] = "claimed" => attempts[d] <= MAX_ATTEMPTS /\ tries[d] <= attempts[d] + 1
    /\ status[d] = "dead_letter" => tries[d] > MAX_ATTEMPTS
    /\ tries[d] <= MAX_ATTEMPTS + 1

\* What a worker between its claim and its mark knows of the row it holds.
HeldInv(w) ==
    stage[w] \in Holding =>
        /\ claimed[w] \in Deliveries
        /\ status[claimed[w]] = "claimed"
        /\ seen[w] = attempts[claimed[w]]
        /\ stage[w] = "dispatch" => tries[claimed[w]] = attempts[claimed[w]]
        /\ stage[w] # "dispatch" => tries[claimed[w]] = attempts[claimed[w]] + 1
        /\ stage[w] # "markSent" => accepted[claimed[w]] = 0
        /\ stage[w] = "markSent" => accepted[claimed[w]] = 1
        /\ \A v \in Workers \ {w} : stage[v] \in Holding => claimed[v] # claimed[w]

IInv ==
    /\ DispatchTypeOK
    /\ \A d \in Deliveries : RowInv(d)
    /\ \A w \in Workers : HeldInv(w)

\* Before anything is enqueued the invariant holds.
LEMMA InitEstablishes == DispatchInit => IInv
  BY DispatchAssumption DEF DispatchInit, IInv, DispatchTypeOK, RowInv, HeldInv, Holding, Deliveries, Statuses, Stages

\* The rows listed for a sweep are rows of the table.
LEMMA ListedAreDeliveries == ListPending \in SUBSET Deliveries
  BY DEF ListPending

\* Every step of every actor, faults included, preserves the invariant.
LEMMA StepPreserves == IInv /\ [DispatchNext]_dispatchVars => IInv'
<1> SUFFICES ASSUME IInv, [DispatchNext]_dispatchVars PROVE IInv'
  OBVIOUS
<1> USE DispatchAssumption DEF Holding
<1>1. ASSUME NEW d0 \in Deliveries, EnqueueDelivery(d0) PROVE IInv'
  <2> USE <1>1 DEF EnqueueDelivery, history
  <2>1. DispatchTypeOK'
    BY DEF IInv, DispatchTypeOK, Statuses, Stages
  <2>2. ASSUME NEW d \in Deliveries PROVE RowInv(d)'
    BY DEF IInv, DispatchTypeOK, RowInv, HeldInv
  <2>3. ASSUME NEW w \in Workers PROVE HeldInv(w)'
    BY DEF IInv, DispatchTypeOK, RowInv, HeldInv
  <2> QED
    BY <2>1, <2>2, <2>3 DEF IInv
<1>2. ASSUME NEW d0 \in Deliveries, BackoffElapses(d0) PROVE IInv'
  <2> USE <1>2 DEF BackoffElapses, history
  <2>1. DispatchTypeOK'
    BY DEF IInv, DispatchTypeOK, Statuses, Stages
  <2>2. ASSUME NEW d \in Deliveries PROVE RowInv(d)'
    BY DEF IInv, DispatchTypeOK, RowInv, HeldInv
  <2>3. ASSUME NEW w \in Workers PROVE HeldInv(w)'
    BY DEF IInv, DispatchTypeOK, RowInv, HeldInv
  <2> QED
    BY <2>1, <2>2, <2>3 DEF IInv
<1>3. CASE DeleteOldDeliveries
  <2> USE <1>3 DEF DeleteOldDeliveries, history
  <2>1. DispatchTypeOK'
    BY DEF IInv, DispatchTypeOK, Statuses, Stages
  <2>2. ASSUME NEW d \in Deliveries PROVE RowInv(d)'
    BY DEF IInv, DispatchTypeOK, RowInv, HeldInv
  <2>3. ASSUME NEW w \in Workers PROVE HeldInv(w)'
    BY DEF IInv, DispatchTypeOK, RowInv, HeldInv
  <2> QED
    BY <2>1, <2>2, <2>3 DEF IInv
<1>4. ASSUME NEW w0 \in Workers, StartSweep(w0) PROVE IInv'
  <2> USE <1>4 DEF StartSweep, deliveryRows, history
  <2>1. DispatchTypeOK'
    BY ListedAreDeliveries DEF IInv, DispatchTypeOK, Statuses, Stages
  <2>2. ASSUME NEW d \in Deliveries PROVE RowInv(d)'
    BY DEF IInv, DispatchTypeOK, RowInv, HeldInv
  <2>3. ASSUME NEW w \in Workers PROVE HeldInv(w)'
    BY DEF IInv, DispatchTypeOK, RowInv, HeldInv
  <2> QED
    BY <2>1, <2>2, <2>3 DEF IInv
<1>5. ASSUME NEW w0 \in Workers, Claim(w0) PROVE IInv'
  <2>0. PICK d0 \in Deliveries :
           /\ Deliverable(d0)
           /\ stage[w0] = "loop"
           /\ status' = [status EXCEPT ![d0] = "claimed"]
           /\ stage' = [stage EXCEPT ![w0] = "dispatch"]
           /\ pending' = [pending EXCEPT ![w0] = @ \ {d0}]
           /\ claimed' = [claimed EXCEPT ![w0] = d0]
           /\ seen' = [seen EXCEPT ![w0] = attempts[d0]]
           /\ UNCHANGED <<attempts, retryDue, history>>
    BY <1>5 DEF Claim
  <2> USE <2>0 DEF Deliverable, history
  <2>1. DispatchTypeOK'
    BY DEF IInv, DispatchTypeOK, Statuses, Stages
  <2>2. ASSUME NEW d \in Deliveries PROVE RowInv(d)'
    BY DEF IInv, DispatchTypeOK, RowInv, HeldInv
  <2>3. ASSUME NEW w \in Workers PROVE HeldInv(w)'
    <3>1. \A v \in Workers \ {w0} : stage[v] \in Holding => claimed[v] # d0
      BY DEF IInv, HeldInv
    <3>2. RowInv(d0) /\ d0 \in Deliveries
      BY DEF IInv
    <3>3. CASE w = w0
      <4>1. stage'[w0] = "dispatch" /\ claimed'[w0] = d0 /\ seen'[w0] = attempts[d0] /\ status'[d0] = "claimed"
        BY DEF IInv, DispatchTypeOK
      <4>2. tries[d0] = attempts[d0] /\ accepted[d0] = 0
        BY <3>2 DEF IInv, DispatchTypeOK, RowInv
      <4>3. ASSUME NEW v \in Workers \ {w0} PROVE stage'[v] = stage[v] /\ claimed'[v] = claimed[v]
        BY <4>3 DEF IInv, DispatchTypeOK
      <4> QED
        BY <3>1, <3>3, <4>1, <4>2, <4>3 DEF HeldInv
    <3>4. CASE w # w0
      <4>1. HeldInv(w) /\ stage'[w] = stage[w] /\ claimed'[w] = claimed[w] /\ seen'[w] = seen[w]
        BY <3>4 DEF IInv, DispatchTypeOK
      <4> QED
        BY <3>1, <3>4, <4>1 DEF IInv, DispatchTypeOK, HeldInv
    <3> QED
      BY <3>3, <3>4
  <2> QED
    BY <2>1, <2>2, <2>3 DEF IInv
<1>6. ASSUME NEW w0 \in Workers, ClaimLost(w0) PROVE IInv'
  <2> USE <1>6 DEF ClaimLost, deliveryRows, history
  <2>1. DispatchTypeOK'
    BY DEF IInv, DispatchTypeOK, Statuses, Stages
  <2>2. ASSUME NEW d \in Deliveries PROVE RowInv(d)'
    BY DEF IInv, DispatchTypeOK, RowInv, HeldInv
  <2>3. ASSUME NEW w \in Workers PROVE HeldInv(w)'
    BY DEF IInv, DispatchTypeOK, RowInv, HeldInv
  <2> QED
    BY <2>1, <2>2, <2>3 DEF IInv
<1>7. ASSUME NEW w0 \in Workers, FinishSweep(w0) PROVE IInv'
  <2> USE <1>7 DEF FinishSweep, deliveryRows, history
  <2>1. DispatchTypeOK'
    BY DEF IInv, DispatchTypeOK, Statuses, Stages
  <2>2. ASSUME NEW d \in Deliveries PROVE RowInv(d)'
    BY DEF IInv, DispatchTypeOK, RowInv, HeldInv
  <2>3. ASSUME NEW w \in Workers PROVE HeldInv(w)'
    BY DEF IInv, DispatchTypeOK, RowInv, HeldInv
  <2> QED
    BY <2>1, <2>2, <2>3 DEF IInv
<1>8. ASSUME NEW w0 \in Workers, DispatchOk(w0) PROVE IInv'
  <2> USE <1>8 DEF DispatchOk, deliveryRows
  <2>0. claimed[w0] \in Deliveries
    BY DEF IInv, HeldInv
  <2>1. DispatchTypeOK'
    BY <2>0 DEF IInv, DispatchTypeOK, Statuses, Stages
  <2>2. ASSUME NEW d \in Deliveries PROVE RowInv(d)'
    BY DEF IInv, DispatchTypeOK, RowInv, HeldInv
  <2>3. ASSUME NEW w \in Workers PROVE HeldInv(w)'
    BY DEF IInv, DispatchTypeOK, RowInv, HeldInv
  <2> QED
    BY <2>1, <2>2, <2>3 DEF IInv
<1>9. ASSUME NEW w0 \in Workers, DispatchErr(w0) PROVE IInv'
  <2> USE <1>9 DEF DispatchErr, deliveryRows
  <2>0. claimed[w0] \in Deliveries
    BY DEF IInv, HeldInv
  <2>1. DispatchTypeOK'
    BY <2>0 DEF IInv, DispatchTypeOK, Statuses, Stages
  <2>2. ASSUME NEW d \in Deliveries PROVE RowInv(d)'
    BY DEF IInv, DispatchTypeOK, RowInv, HeldInv
  <2>3. ASSUME NEW w \in Workers PROVE HeldInv(w)'
    BY DEF IInv, DispatchTypeOK, RowInv, HeldInv
  <2> QED
    BY <2>1, <2>2, <2>3 DEF IInv
<1>10. ASSUME NEW w0 \in Workers, MarkSent(w0) PROVE IInv'
  <2> USE <1>10 DEF MarkSent, MarkDelivery, Release, history
  <2>0. claimed[w0] \in Deliveries
    BY DEF IInv, HeldInv
  <2>1. DispatchTypeOK'
    BY <2>0 DEF IInv, DispatchTypeOK, Statuses, Stages
  <2>2. ASSUME NEW d \in Deliveries PROVE RowInv(d)'
    BY DEF IInv, DispatchTypeOK, RowInv, HeldInv
  <2>3. ASSUME NEW w \in Workers PROVE HeldInv(w)'
    BY DEF IInv, DispatchTypeOK, RowInv, HeldInv
  <2> QED
    BY <2>1, <2>2, <2>3 DEF IInv
<1>11. ASSUME NEW w0 \in Workers, MarkFailed(w0) PROVE IInv'
  <2> USE <1>11 DEF MarkFailed, MarkDelivery, FailedStatus, Release, history
  <2>0. claimed[w0] \in Deliveries
    BY DEF IInv, HeldInv
  <2>1. DispatchTypeOK'
    BY <2>0 DEF IInv, DispatchTypeOK, Statuses, Stages
  <2>2. ASSUME NEW d \in Deliveries PROVE RowInv(d)'
    BY DEF IInv, DispatchTypeOK, RowInv, HeldInv
  <2>3. ASSUME NEW w \in Workers PROVE HeldInv(w)'
    BY DEF IInv, DispatchTypeOK, RowInv, HeldInv
  <2> QED
    BY <2>1, <2>2, <2>3 DEF IInv
<1>12. ASSUME NEW w0 \in Workers, ClaimFails(w0) PROVE IInv'
  <2> USE <1>12 DEF ClaimFails, Deliverable, history
  <2>1. DispatchTypeOK'
    BY DEF IInv, DispatchTypeOK, Statuses, Stages
  <2>2. ASSUME NEW d \in Deliveries PROVE RowInv(d)'
    BY DEF IInv, DispatchTypeOK, RowInv, HeldInv
  <2>3. ASSUME NEW w \in Workers PROVE HeldInv(w)'
    BY DEF IInv, DispatchTypeOK, RowInv, HeldInv
  <2> QED
    BY <2>1, <2>2, <2>3 DEF IInv
<1>13. ASSUME NEW w0 \in Workers, MarkFails(w0) PROVE IInv'
  <2> USE <1>13 DEF MarkFails, Release, deliveryRows, history
  <2>1. DispatchTypeOK'
    BY DEF IInv, DispatchTypeOK, Statuses, Stages
  <2>2. ASSUME NEW d \in Deliveries PROVE RowInv(d)'
    BY DEF IInv, DispatchTypeOK, RowInv, HeldInv
  <2>3. ASSUME NEW w \in Workers PROVE HeldInv(w)'
    BY DEF IInv, DispatchTypeOK, RowInv, HeldInv
  <2> QED
    BY <2>1, <2>2, <2>3 DEF IInv
<1>14. ASSUME NEW w0 \in Workers, StopWorker(w0) PROVE IInv'
  <2> USE <1>14 DEF StopWorker, Release, deliveryRows, history
  <2>1. DispatchTypeOK'
    BY DEF IInv, DispatchTypeOK, Statuses, Stages
  <2>2. ASSUME NEW d \in Deliveries PROVE RowInv(d)'
    BY DEF IInv, DispatchTypeOK, RowInv, HeldInv
  <2>3. ASSUME NEW w \in Workers PROVE HeldInv(w)'
    BY DEF IInv, DispatchTypeOK, RowInv, HeldInv
  <2> QED
    BY <2>1, <2>2, <2>3 DEF IInv
<1>15. CASE UNCHANGED dispatchVars
  <2> USE <1>15 DEF dispatchVars
  <2>1. DispatchTypeOK'
    BY DEF IInv, DispatchTypeOK, Statuses, Stages
  <2>2. ASSUME NEW d \in Deliveries PROVE RowInv(d)'
    BY DEF IInv, RowInv
  <2>3. ASSUME NEW w \in Workers PROVE HeldInv(w)'
    BY DEF IInv, HeldInv
  <2> QED
    BY <2>1, <2>2, <2>3 DEF IInv
<1> QED
  BY <1>1, <1>2, <1>3, <1>4, <1>5, <1>6, <1>7, <1>8, <1>9, <1>10, <1>11, <1>12, <1>13, <1>14, <1>15
     DEF DispatchNext, WorkerStep, Fault

-----------------------------------------------------------------------------

\* The invariant implies each of the properties the runs check.
LEMMA InvImplies ==
  IInv => AtMostOnceAccepted /\ ExclusiveClaim /\ DeadLetterOnlyWhenSpent /\ TriesBounded
<1> SUFFICES ASSUME IInv
             PROVE AtMostOnceAccepted /\ ExclusiveClaim /\ DeadLetterOnlyWhenSpent /\ TriesBounded
  OBVIOUS
<1>1. AtMostOnceAccepted
  BY DEF IInv, RowInv, AtMostOnceAccepted
<1>2. ExclusiveClaim
  BY DEF IInv, HeldInv, Holding, Holds, ExclusiveClaim
<1>3. DeadLetterOnlyWhenSpent
  BY DispatchAssumption DEF IInv, DispatchTypeOK, RowInv, DeadLetterOnlyWhenSpent
<1>4. TriesBounded
  BY DEF IInv, RowInv, TriesBounded
<1> QED
  BY <1>1, <1>2, <1>3, <1>4

\* The inductive invariant holds in every reachable state.
LEMMA Invariance == DispatchSpec => []IInv
  BY InitEstablishes, StepPreserves, PTL DEF DispatchSpec

\* Type correctness of the queue and of the worker's locals in every reachable state.
THEOREM TypeCorrect == DispatchSpec => []DispatchTypeOK
<1>1. IInv => DispatchTypeOK
  BY DEF IInv
<1> QED
  BY Invariance, <1>1, PTL

\* No notification is accepted by a transport twice, through crashes, lost marks,
\* retries and any number of workers (sweep, claim_delivery, mark_delivery).
THEOREM AcceptedAtMostOnce == DispatchSpec => []AtMostOnceAccepted
  BY Invariance, InvImplies, PTL

\* claim_delivery is a mutual exclusion between workers that lasts until the mark.
THEOREM ClaimIsExclusive == DispatchSpec => []ExclusiveClaim
  BY Invariance, InvImplies, PTL

\* A delivery is parked as a dead letter only after the MAX_ATTEMPTS attempts it is
\* due, and only when no transport ever accepted it (sweep, mark_delivery).
THEOREM DeadLettersSpent == DispatchSpec => []DeadLetterOnlyWhenSpent
  BY Invariance, InvImplies, PTL

\* The retry budget as the code keeps it, which is one attempt more than the maximum
\* it documents: however many sweeps, failures and lost marks there are,
\* dispatch_delivery never runs more than MAX_ATTEMPTS + 1 times for one delivery.
THEOREM RetryBudget == DispatchSpec => []TriesBounded
  BY Invariance, InvImplies, PTL

\* No step moves a row out of a terminal status, other than cleanup deleting it,
\* and no step lowers a row's attempts.
THEOREM TerminalStays == DispatchSpec => TerminalIsFinal
<1> DEFINE Final ==
      \A d \in Deliveries :
          /\ status[d] \in Terminal => status'[d] \in {status[d], "purged"}
          /\ attempts'[d] >= attempts[d]
<1>1. ASSUME IInv, [DispatchNext]_dispatchVars PROVE [Final]_dispatchVars
  <2> SUFFICES ASSUME DispatchNext, NEW d \in Deliveries
               PROVE /\ status[d] \in Terminal => status'[d] \in {status[d], "purged"}
                     /\ attempts'[d] >= attempts[d]
    BY <1>1
  <2> USE DEF Terminal
  <2>0. attempts[d] \in Nat
    BY <1>1 DEF IInv, DispatchTypeOK
  <2>1. CASE \E e \in Deliveries : EnqueueDelivery(e) \/ BackoffElapses(e)
    BY <2>0, <2>1, <1>1 DEF IInv, DispatchTypeOK, EnqueueDelivery, BackoffElapses
  <2>2. CASE DeleteOldDeliveries
    BY <2>0, <2>2, <1>1 DEF IInv, DispatchTypeOK, DeleteOldDeliveries
  <2>3. ASSUME NEW w \in Workers, Claim(w) \/ ClaimFails(w) PROVE
               /\ status[d] \in Terminal => status'[d] \in {status[d], "purged"}
               /\ attempts'[d] >= attempts[d]
    BY <2>0, <2>3, <1>1 DEF IInv, DispatchTypeOK, Claim, ClaimFails, Deliverable
  <2>4. ASSUME NEW w \in Workers, MarkSent(w) \/ MarkFailed(w) PROVE
               /\ status[d] \in Terminal => status'[d] \in {status[d], "purged"}
               /\ attempts'[d] >= attempts[d]
    <3>1. claimed[w] \in Deliveries /\ status[claimed[w]] = "claimed"
      BY <2>4, <1>1 DEF IInv, HeldInv, Holding, MarkSent, MarkFailed
    <3> QED
      BY <2>0, <2>4, <3>1, <1>1 DEF IInv, DispatchTypeOK, MarkSent, MarkFailed, MarkDelivery
  <2>5. ASSUME NEW w \in Workers,
               \/ StartSweep(w) \/ ClaimLost(w) \/ FinishSweep(w) \/ DispatchOk(w)
               \/ DispatchErr(w) \/ MarkFails(w) \/ StopWorker(w)
        PROVE  UNCHANGED deliveryRows
    BY <2>5 DEF StartSweep, ClaimLost, FinishSweep, DispatchOk, DispatchErr, MarkFails, StopWorker
  <2> QED
    BY <2>0, <2>1, <2>2, <2>3, <2>4, <2>5 DEF DispatchNext, WorkerStep, Fault, deliveryRows
<1> QED
  BY Invariance, <1>1, PTL DEF DispatchSpec, TerminalIsFinal

-----------------------------------------------------------------------------
(* The table acts as a queue.                                               *)

\* What has become of a delivery, case by case.
LEMMA Outcomes ==
  ASSUME NEW s \in Statuses, NEW holders \in SUBSET Workers
  PROVE  /\ s = "absent" => Outcome(s, 0, holders) = "new"
         /\ s \in {"pending", "failed"} => Outcome(s, 0, holders) = "open"
         /\ s # "absent" => Outcome(s, 1, holders) = "taken"
         /\ s \in {"dead_letter", "purged"} => Outcome(s, 0, holders) = "given up"
         /\ s = "claimed" /\ holders # {} => Outcome(s, 0, holders) = "open"
         /\ s = "claimed" /\ holders = {} => Outcome(s, 0, holders) = "lost"
<1>1. s = "absent" => Outcome(s, 0, holders) = "new"
  BY DEF Outcome
<1>2. s \in {"pending", "failed"} => Outcome(s, 0, holders) = "open"
  BY DEF Outcome
<1>3. s # "absent" => Outcome(s, 1, holders) = "taken"
  BY DEF Outcome
<1>4. s \in {"dead_letter", "purged"} => Outcome(s, 0, holders) = "given up"
  BY DEF Outcome
<1>5. s = "claimed" /\ holders # {} => Outcome(s, 0, holders) = "open"
  BY DEF Outcome
<1>6. s = "claimed" /\ holders = {} => Outcome(s, 0, holders) = "lost"
  BY DEF Outcome
<1> QED
  BY <1>1, <1>2, <1>3, <1>4, <1>5, <1>6

OutcomeOf(d) == Outcome(status[d], accepted[d], Holders(d))

\* The same for a row of the table.
LEMMA RowOutcomes ==
  ASSUME IInv, NEW d \in Deliveries
  PROVE  /\ status[d] = "absent" => OutcomeOf(d) = "new"
         /\ status[d] \in {"pending", "failed"} => OutcomeOf(d) = "open"
         /\ accepted[d] = 1 => OutcomeOf(d) = "taken"
         /\ accepted[d] = 0 /\ status[d] \in {"dead_letter", "purged"} => OutcomeOf(d) = "given up"
         /\ accepted[d] = 0 /\ status[d] = "claimed" /\ Holders(d) # {} => OutcomeOf(d) = "open"
         /\ accepted[d] = 0 /\ status[d] = "claimed" /\ Holders(d) = {} => OutcomeOf(d) = "lost"
         /\ status[d] \in Statuses /\ accepted[d] \in {0, 1}
         /\ status[d] = "sent" => accepted[d] = 1
         /\ accepted[d] = 1 => status[d] \in {"claimed", "sent", "purged"}
<1>1. /\ status[d] \in Statuses /\ accepted[d] \in {0, 1}
      /\ accepted[d] = 1 => status[d] \in {"claimed", "sent", "purged"}
      /\ status[d] = "sent" => accepted[d] = 1
  BY DEF IInv, DispatchTypeOK, RowInv
<1>2. /\ accepted[d] = 0 => OutcomeOf(d) = Outcome(status[d], 0, Holders(d))
      /\ accepted[d] = 1 => OutcomeOf(d) = Outcome(status[d], 1, Holders(d))
  BY DEF OutcomeOf
<1>3. Holders(d) \in SUBSET Workers
  BY DEF Holders
<1>4. PICK s \in Statuses, holders \in SUBSET Workers : s = status[d] /\ holders = Holders(d)
  BY <1>1, <1>3
<1>5. /\ s = "absent" => Outcome(s, 0, holders) = "new"
      /\ s \in {"pending", "failed"} => Outcome(s, 0, holders) = "open"
      /\ s # "absent" => Outcome(s, 1, holders) = "taken"
      /\ s \in {"dead_letter", "purged"} => Outcome(s, 0, holders) = "given up"
      /\ s = "claimed" /\ holders # {} => Outcome(s, 0, holders) = "open"
      /\ s = "claimed" /\ holders = {} => Outcome(s, 0, holders) = "lost"
  BY Outcomes
<1> QED
  BY <1>1, <1>2, <1>4, <1>5

\* The same for a row of the table after a step.
LEMMA RowOutcomesNext ==
  ASSUME IInv', NEW d \in Deliveries
  PROVE  /\ status'[d] = "absent" => OutcomeOf(d)' = "new"
         /\ status'[d] \in {"pending", "failed"} => OutcomeOf(d)' = "open"
         /\ accepted'[d] = 1 => OutcomeOf(d)' = "taken"
         /\ accepted'[d] = 0 /\ status'[d] \in {"dead_letter", "purged"} => OutcomeOf(d)' = "given up"
         /\ accepted'[d] = 0 /\ status'[d] = "claimed" /\ Holders(d)' # {} => OutcomeOf(d)' = "open"
         /\ accepted'[d] = 0 /\ status'[d] = "claimed" /\ Holders(d)' = {} => OutcomeOf(d)' = "lost"
         /\ status'[d] \in Statuses /\ accepted'[d] \in {0, 1}
         /\ status'[d] = "sent" => accepted'[d] = 1
         /\ accepted'[d] = 1 => status'[d] \in {"claimed", "sent", "purged"}
<1>1. /\ status'[d] \in Statuses /\ accepted'[d] \in {0, 1}
      /\ accepted'[d] = 1 => status'[d] \in {"claimed", "sent", "purged"}
      /\ status'[d] = "sent" => accepted'[d] = 1
  BY DEF IInv, DispatchTypeOK, RowInv
<1>2. /\ accepted'[d] = 0 => OutcomeOf(d)' = Outcome(status'[d], 0, Holders(d)')
      /\ accepted'[d] = 1 => OutcomeOf(d)' = Outcome(status'[d], 1, Holders(d)')
  BY DEF OutcomeOf
<1>3. Holders(d)' \in SUBSET Workers
  BY DEF Holders
<1>4. PICK s \in Statuses, holders \in SUBSET Workers : s = status'[d] /\ holders = Holders(d)'
  BY <1>1, <1>3
<1>5. /\ s = "absent" => Outcome(s, 0, holders) = "new"
      /\ s \in {"pending", "failed"} => Outcome(s, 0, holders) = "open"
      /\ s # "absent" => Outcome(s, 1, holders) = "taken"
      /\ s \in {"dead_letter", "purged"} => Outcome(s, 0, holders) = "given up"
      /\ s = "claimed" /\ holders # {} => Outcome(s, 0, holders) = "open"
      /\ s = "claimed" /\ holders = {} => Outcome(s, 0, holders) = "lost"
  BY Outcomes
<1> QED
  BY <1>1, <1>2, <1>4, <1>5

outcomes == [d \in Deliveries |-> Outcome(status[d], accepted[d], Holders(d))]
Visible == Queue!Next \/ UNCHANGED <<outcomes, tries>>

\* A step that changes no outcome and offers nothing is not seen.
LEMMA Unseen ==
  ASSUME \A d \in Deliveries : OutcomeOf(d)' = OutcomeOf(d), UNCHANGED tries
  PROVE  Visible
  BY DEF OutcomeOf, outcomes, Visible

\* A step that changes one outcome is seen as just that.
LEMMA OneChanges ==
  ASSUME NEW d \in Deliveries, \A e \in Deliveries \ {d} : OutcomeOf(e)' = OutcomeOf(e)
  PROVE  outcomes' = [outcomes EXCEPT ![d] = OutcomeOf(d)'] /\ outcomes[d] = OutcomeOf(d)
  BY DEF OutcomeOf, outcomes

\* Rows whose status, history and holders stay have the same outcome.
LEMMA SameOutcome ==
  ASSUME NEW d \in Deliveries, status'[d] = status[d], accepted'[d] = accepted[d], Holders(d)' = Holders(d)
  PROVE  OutcomeOf(d)' = OutcomeOf(d)
  BY DEF OutcomeOf

\* Only a claimed row is held, and by one worker.
LEMMA OneHolder ==
  ASSUME IInv, NEW d \in Deliveries
  PROVE  /\ Holders(d) # {} => status[d] = "claimed"
         /\ \A w \in Holders(d) : Holders(d) = {w}
  BY DEF IInv, HeldInv, Holders, Holds, Holding

\* A worker that neither takes a row nor lets one go changes no holder.
LEMMA SameHolders ==
  ASSUME NEW d \in Deliveries,
         \A w \in Workers : Holds(w, d)' <=> Holds(w, d)
  PROVE  Holders(d)' = Holders(d)
  BY DEF Holders

\* A worker that lets its row go without a mark loses it, unless it was accepted.
LEMMA LettingGo ==
  ASSUME IInv, IInv', NEW w \in Workers, stage[w] \in Holding, stage'[w] \notin Holding,
         \A v \in Workers \ {w} : stage'[v] = stage[v] /\ claimed'[v] = claimed[v],
         UNCHANGED <<status, accepted, tries>>
  PROVE  Visible
<1>1. PICK d \in Deliveries : d = claimed[w]
  BY DEF IInv, HeldInv
<1>2. w \in Holders(d) /\ w \notin Holders(d)' /\ status[d] = "claimed"
  BY <1>1, OneHolder DEF Holders, Holds, Holding
<1>3. Holders(d)' = {}
  <2>1. ASSUME NEW v \in Workers \ {w} PROVE ~Holds(v, d)'
    <3>1. ~Holds(v, d)
      BY <1>2, <2>1, OneHolder DEF Holders
    <3> QED
      BY <2>1, <3>1 DEF Holds
  <2> QED
    BY <1>2, <2>1 DEF Holders
<1>4. ASSUME NEW e \in Deliveries \ {d} PROVE OutcomeOf(e)' = OutcomeOf(e)
  <2>1. ASSUME NEW v \in Workers PROVE Holds(v, e)' <=> Holds(v, e)
    BY <1>1, <1>4, <2>1 DEF Holds, Holding
  <2> QED
    BY <1>4, <2>1, SameHolders, SameOutcome
<1>5. CASE accepted[d] = 1
  <2>1. OutcomeOf(d) = "taken"
    BY <1>5, RowOutcomes
  <2>2. OutcomeOf(d)' = "taken"
    BY <1>5, RowOutcomesNext
  <2> QED
    BY <1>4, <2>1, <2>2, Unseen
<1>6. CASE accepted[d] = 0
  <2>1. OutcomeOf(d) = "open" /\ OutcomeOf(d)' = "lost"
    BY <1>2, <1>3, <1>6, RowOutcomes, RowOutcomesNext
  <2>2. outcomes[d] = "open" /\ outcomes' = [outcomes EXCEPT ![d] = "lost"]
    BY <1>4, <2>1, OneChanges
  <2> QED
    BY <2>2 DEF Visible, Queue!Next, Queue!Lose, outcomes
<1> QED
  BY <1>5, <1>6, RowOutcomes

\* A worker that goes from one place to another without taking a row or letting one
\* go, and touches no row.
LEMMA Unmoved ==
  ASSUME NEW w \in Workers, stage[w] \notin Holding, stage'[w] \notin Holding,
         \A v \in Workers \ {w} : stage'[v] = stage[v] /\ claimed'[v] = claimed[v],
         NEW d \in Deliveries
  PROVE  Holders(d)' = Holders(d)
<1>1. ASSUME NEW v \in Workers PROVE Holds(v, d)' <=> Holds(v, d)
  BY <1>1 DEF Holds, Holding
<1> QED
  BY <1>1, SameHolders

\* The steps of the writer, the clock and the cleanup.
LEMMA TableStepsMap ==
  ASSUME IInv, IInv',
         (\E d \in Deliveries : EnqueueDelivery(d) \/ BackoffElapses(d)) \/ DeleteOldDeliveries
  PROVE  Visible
<1>1. \A d \in Deliveries : Holders(d)' = Holders(d)
  BY DEF EnqueueDelivery, BackoffElapses, DeleteOldDeliveries, Holders, Holds
<1>2. UNCHANGED <<tries, accepted>>
  BY DEF EnqueueDelivery, BackoffElapses, DeleteOldDeliveries, history
<1>3. ASSUME NEW d \in Deliveries, EnqueueDelivery(d) PROVE Visible
  <2>1. status[d] = "absent" /\ status'[d] = "pending" /\ \A e \in Deliveries \ {d} : status'[e] = status[e]
    BY <1>3 DEF EnqueueDelivery, IInv, DispatchTypeOK
  <2>2. OutcomeOf(d) = "new"
    BY <2>1, RowOutcomes
  <2>3. OutcomeOf(d)' = "open"
    BY <2>1, RowOutcomesNext
  <2>4. \A e \in Deliveries \ {d} : OutcomeOf(e)' = OutcomeOf(e)
    BY <1>1, <1>2, <2>1, SameOutcome
  <2>5. outcomes[d] = "new" /\ outcomes' = [outcomes EXCEPT ![d] = "open"]
    BY <2>2, <2>3, <2>4, OneChanges
  <2> QED
    BY <1>2, <2>5 DEF Visible, Queue!Next, Queue!Put, outcomes
<1>4. ASSUME NEW d \in Deliveries, BackoffElapses(d) PROVE Visible
  BY <1>1, <1>2, <1>4, SameOutcome, Unseen DEF BackoffElapses
<1>5. CASE DeleteOldDeliveries
  <2>1. ASSUME NEW d \in Deliveries PROVE OutcomeOf(d)' = OutcomeOf(d)
    <3>1. \/ status'[d] = status[d]
          \/ status[d] \in {"sent", "dead_letter"} /\ status'[d] = "purged"
      BY <1>5 DEF DeleteOldDeliveries
    <3>2. CASE status'[d] = status[d]
      BY <1>1, <1>2, <3>2, SameOutcome
    <3>3. CASE accepted[d] = 1
      <4>1. OutcomeOf(d) = "taken"
        BY <3>3, RowOutcomes
      <4>2. OutcomeOf(d)' = "taken"
        BY <1>2, <3>3, RowOutcomesNext
      <4> QED
        BY <4>1, <4>2
    <3>4. CASE accepted[d] = 0 /\ status'[d] # status[d]
      <4>0. status[d] # "sent"
        BY <3>4 DEF IInv, RowInv
      <4>1. OutcomeOf(d) = "given up"
        BY <3>1, <3>4, <4>0, RowOutcomes
      <4>2. OutcomeOf(d)' = "given up"
        BY <1>2, <3>1, <3>4, RowOutcomesNext
      <4> QED
        BY <4>1, <4>2
    <3> QED
      BY <3>2, <3>3, <3>4, RowOutcomes
  <2> QED
    BY <1>2, <2>1, Unseen
<1> QED
  BY <1>3, <1>4, <1>5

\* An offer to the transport.
LEMMA DispatchMaps ==
  ASSUME IInv, IInv', NEW w \in Workers, DispatchOk(w) \/ DispatchErr(w)
  PROVE  Visible
<1>1. PICK d \in Deliveries : d = claimed[w]
  BY DEF IInv, HeldInv, Holding, DispatchOk, DispatchErr
<1>2. /\ stage[w] = "dispatch" /\ stage'[w] \in Holding
      /\ \A v \in Workers \ {w} : stage'[v] = stage[v]
      /\ UNCHANGED <<status, claimed>>
      /\ tries' = [tries EXCEPT ![d] = tries[d] + 1]
  BY <1>1 DEF DispatchOk, DispatchErr, deliveryRows, IInv, DispatchTypeOK, Holding
<1>3. /\ status[d] = "claimed" /\ accepted[d] = 0
      /\ tries[d] < MAX_ATTEMPTS + 1
  BY <1>1, <1>2, DispatchAssumption DEF IInv, DispatchTypeOK, HeldInv, RowInv, Holding
<1>4. \A e \in Deliveries : Holders(e)' = Holders(e)
  <2>1. ASSUME NEW e \in Deliveries, NEW v \in Workers PROVE Holds(v, e)' <=> Holds(v, e)
    BY <1>2, <2>1 DEF Holds, Holding
  <2> QED
    BY <2>1, SameHolders
<1>5. w \in Holders(d)
  BY <1>1, <1>2 DEF Holders, Holds
<1>6. OutcomeOf(d) = "open"
  BY <1>3, <1>5, RowOutcomes
<1>7. \A e \in Deliveries \ {d} : accepted'[e] = accepted[e]
  BY <1>1 DEF DispatchOk, DispatchErr, IInv, DispatchTypeOK
<1>8. \A e \in Deliveries \ {d} : OutcomeOf(e)' = OutcomeOf(e)
  BY <1>2, <1>4, <1>7, SameOutcome
<1>9. OutcomeOf(d)' \in {"open", "taken"}
  <2>1. CASE DispatchOk(w)
    <3>1. accepted'[d] = 1
      BY <1>1, <1>3, <2>1 DEF DispatchOk, IInv, DispatchTypeOK
    <3> QED
      BY <3>1, RowOutcomesNext
  <2>2. CASE DispatchErr(w)
    <3>1. accepted'[d] = 0 /\ status'[d] = "claimed" /\ Holders(d)' # {}
      BY <1>2, <1>3, <1>4, <1>5, <2>2 DEF DispatchErr
    <3> QED
      BY <3>1, RowOutcomesNext
  <2> QED
    BY <2>1, <2>2
<1>10. outcomes[d] = "open" /\ outcomes' = [outcomes EXCEPT ![d] = OutcomeOf(d)']
  BY <1>6, <1>8, OneChanges
<1>11. outcomes' \in {outcomes, [outcomes EXCEPT ![d] = "taken"]}
  BY <1>9, <1>10 DEF outcomes
<1> QED
  BY <1>2, <1>3, <1>10, <1>11 DEF Visible, Queue!Next, Queue!Offer, outcomes

\* The claim: the worker becomes the one holder of a row that stays open, or the
\* row is lost with the answer.
LEMMA ClaimMaps ==
  ASSUME IInv, IInv', NEW w \in Workers, Claim(w) \/ ClaimFails(w)
  PROVE  Visible
<1>1. /\ stage[w] = "loop"
      /\ \A v \in Workers \ {w} : stage'[v] = stage[v] /\ claimed'[v] = claimed[v]
      /\ UNCHANGED <<tries, accepted>>
  BY DEF Claim, ClaimFails, history, IInv, DispatchTypeOK
<1>2. ASSUME NEW d \in Deliveries, Deliverable(d)
      PROVE  Holders(d) = {} /\ accepted[d] = 0 /\ OutcomeOf(d) = "open"
  <2>1. status[d] \in {"pending", "failed"}
    BY <1>2 DEF Deliverable
  <2>2. accepted[d] = 0
    BY <2>1, RowOutcomes
  <2> QED
    BY <2>1, <2>2, OneHolder, RowOutcomes
<1>3. CASE Claim(w)
  <2>1. PICK d \in Deliveries :
          /\ Deliverable(d)
          /\ status' = [status EXCEPT ![d] = "claimed"]
          /\ stage' = [stage EXCEPT ![w] = "dispatch"]
          /\ claimed' = [claimed EXCEPT ![w] = d]
    BY <1>3 DEF Claim
  <2>2. stage'[w] = "dispatch" /\ claimed'[w] = d /\ status'[d] = "claimed"
    BY <2>1 DEF IInv, DispatchTypeOK
  <2>3. OutcomeOf(d)' = "open"
    <3>1. w \in Holders(d)'
      BY <2>2 DEF Holders, Holds
    <3> QED
      BY <1>1, <1>2, <2>1, <2>2, <3>1, RowOutcomesNext
  <2>4. ASSUME NEW e \in Deliveries \ {d} PROVE OutcomeOf(e)' = OutcomeOf(e)
    <3>1. ASSUME NEW v \in Workers PROVE Holds(v, e)' <=> Holds(v, e)
      BY <1>1, <2>2, <2>4, <3>1 DEF Holds
    <3>2. status'[e] = status[e]
      BY <2>1, <2>4 DEF IInv, DispatchTypeOK
    <3> QED
      BY <1>1, <2>4, <3>1, <3>2, SameHolders, SameOutcome
  <2> QED
    BY <1>1, <1>2, <2>1, <2>3, <2>4, Unseen
<1>4. CASE ClaimFails(w)
  <2>1. stage'[w] = "idle"
    BY <1>4 DEF ClaimFails, IInv, DispatchTypeOK
  <2>2. \A d \in Deliveries : Holders(d)' = Holders(d)
    BY <1>1, <2>1, Unmoved DEF Holding
  <2>3. CASE UNCHANGED status
    BY <1>1, <2>2, <2>3, SameOutcome, Unseen
  <2>4. CASE status' # status
    <3>1. PICK d \in Deliveries : Deliverable(d) /\ status' = [status EXCEPT ![d] = "claimed"]
      BY <1>4, <2>4 DEF ClaimFails
    <3>2. status'[d] = "claimed" /\ \A e \in Deliveries \ {d} : status'[e] = status[e]
      BY <3>1 DEF IInv, DispatchTypeOK
    <3>3. accepted'[d] = 0 /\ Holders(d)' = {}
      BY <1>1, <1>2, <2>2, <3>1
    <3>4. OutcomeOf(d)' = "lost"
      BY <3>2, <3>3, RowOutcomesNext
    <3>5. \A e \in Deliveries \ {d} : OutcomeOf(e)' = OutcomeOf(e)
      BY <1>1, <2>2, <3>2, SameOutcome
    <3>6. outcomes[d] = "open" /\ outcomes' = [outcomes EXCEPT ![d] = "lost"]
      BY <1>2, <3>1, <3>4, <3>5, OneChanges
    <3> QED
      BY <1>1, <3>6 DEF Visible, Queue!Next, Queue!Lose, outcomes
  <2> QED
    BY <2>3, <2>4
<1> QED
  BY <1>3, <1>4

\* The mark: a sent row was taken already; a failed one is open for a retry, or
\* given up with its offers used up.
LEMMA MarkMaps ==
  ASSUME IInv, IInv', NEW w \in Workers, MarkSent(w) \/ MarkFailed(w)
  PROVE  Visible
<1>1. PICK d \in Deliveries : d = claimed[w]
  BY DEF IInv, HeldInv, Holding, MarkSent, MarkFailed
<1>2. /\ stage[w] \in Holding /\ stage'[w] = "loop"
      /\ \A v \in Workers \ {w} : stage'[v] = stage[v] /\ claimed'[v] = claimed[v]
      /\ \A e \in Deliveries \ {d} : status'[e] = status[e]
      /\ UNCHANGED <<tries, accepted>>
  BY <1>1 DEF MarkSent, MarkFailed, MarkDelivery, Release, Holding, history, IInv, DispatchTypeOK
<1>3. status[d] = "claimed" /\ w \in Holders(d)
  BY <1>1, <1>2 DEF IInv, HeldInv, Holders, Holds, Holding
<1>4. ASSUME NEW e \in Deliveries \ {d} PROVE OutcomeOf(e)' = OutcomeOf(e)
  <2>1. ASSUME NEW v \in Workers PROVE Holds(v, e)' <=> Holds(v, e)
    BY <1>1, <1>2, <1>4, <2>1 DEF Holds, Holding
  <2> QED
    BY <1>2, <1>4, <2>1, SameHolders, SameOutcome
<1>5. CASE MarkSent(w)
  <2>1. accepted[d] = 1
    BY <1>1, <1>5 DEF MarkSent, IInv, HeldInv, Holding
  <2>2. OutcomeOf(d) = "taken"
    BY <2>1, RowOutcomes
  <2>3. OutcomeOf(d)' = "taken"
    BY <1>2, <2>1, RowOutcomesNext
  <2> QED
    BY <1>2, <1>4, <2>2, <2>3, Unseen
<1>6. CASE MarkFailed(w)
  <2>1. /\ accepted[d] = 0 /\ tries[d] = attempts[d] + 1 /\ seen[w] = attempts[d]
        /\ attempts[d] \in Nat /\ attempts[d] <= MAX_ATTEMPTS
    BY <1>1, <1>3, <1>6 DEF MarkFailed, IInv, DispatchTypeOK, HeldInv, RowInv, Holding
  <2>2. OutcomeOf(d) = "open"
    BY <1>3, <2>1, RowOutcomes
  <2>3. status'[d] = FailedStatus(attempts[d])
    BY <1>1, <1>6, <2>1 DEF MarkFailed, MarkDelivery, IInv, DispatchTypeOK
  <2>4. CASE attempts[d] >= MAX_ATTEMPTS
    <3>1. status'[d] = "dead_letter" /\ tries[d] = MAX_ATTEMPTS + 1
      BY <2>1, <2>3, <2>4, DispatchAssumption DEF FailedStatus
    <3>2. OutcomeOf(d)' = "given up"
      BY <1>2, <2>1, <3>1, RowOutcomesNext
    <3>3. outcomes[d] = "open" /\ outcomes' = [outcomes EXCEPT ![d] = "given up"]
      BY <1>4, <2>2, <3>2, OneChanges
    <3>4. tries[d] >= MAX_ATTEMPTS
      BY <3>1, DispatchAssumption
    <3> QED
      BY <1>2, <3>3, <3>4 DEF Visible, Queue!Next, Queue!GiveUp, outcomes
  <2>5. CASE ~(attempts[d] >= MAX_ATTEMPTS)
    <3>1. status'[d] = "failed"
      BY <2>3, <2>5 DEF FailedStatus
    <3>2. OutcomeOf(d)' = "open"
      BY <3>1, RowOutcomesNext
    <3> QED
      BY <1>2, <1>4, <2>2, <3>2, Unseen
  <2> QED
    BY <2>4, <2>5
<1> QED
  BY <1>5, <1>6

\* The steps of a worker that lets its row go, or has none.
LEMMA OtherStepsMap ==
  ASSUME IInv, IInv', NEW w \in Workers,
         StartSweep(w) \/ ClaimLost(w) \/ FinishSweep(w) \/ MarkFails(w) \/ StopWorker(w)
  PROVE  Visible
<1>1. /\ stage'[w] \notin Holding
      /\ \A v \in Workers \ {w} : stage'[v] = stage[v] /\ claimed'[v] = claimed[v]
      /\ UNCHANGED <<status, accepted, tries>>
  BY DEF StartSweep, ClaimLost, FinishSweep, MarkFails, StopWorker, Release, Holding, deliveryRows, history, IInv, DispatchTypeOK
<1>2. CASE stage[w] \in Holding
  BY <1>1, <1>2, LettingGo
<1>3. CASE stage[w] \notin Holding
  <2>1. \A d \in Deliveries : Holders(d)' = Holders(d)
    BY <1>1, <1>3, Unmoved
  <2> QED
    BY <1>1, <2>1, SameOutcome, Unseen
<1> QED
  BY <1>2, <1>3

\* Seen from outside, the table, its claims and the sweeps of any number of workers
\* are a queue that offers a delivery never again after a transport took it or its
\* worker was lost, and gives none up before it was offered MAX_ATTEMPTS times
\* (sweep, claim_delivery, mark_delivery, delete_old_deliveries).
THEOREM DispatchImplementsQueue == DispatchSpec => ActsAsQueue
<1>1. DispatchInit => Queue!Init
  <2> SUFFICES ASSUME DispatchInit PROVE Queue!Init
    OBVIOUS
  <2>1. \A d \in Deliveries : OutcomeOf(d) = "new"
    BY InitEstablishes, RowOutcomes DEF DispatchInit
  <2> QED
    BY <2>1 DEF DispatchInit, Queue!Init, OutcomeOf
<1>2. ASSUME IInv, IInv', [DispatchNext]_dispatchVars PROVE [Queue!Next]_<<outcomes, tries>>
  <2>1. CASE UNCHANGED dispatchVars
    BY <2>1 DEF dispatchVars, outcomes, Holders, Holds
  <2>2. CASE DispatchNext
    <3>1. Visible
      BY <1>2, <2>2, TableStepsMap, DispatchMaps, ClaimMaps, MarkMaps, OtherStepsMap
         DEF DispatchNext, WorkerStep, Fault
    <3> QED
      BY <3>1 DEF Visible
  <2> QED
    BY <1>2, <2>1, <2>2
<1>3. ASSUME IInv, IInv', [DispatchNext]_dispatchVars
      PROVE  [Queue!Next]_<<[d \in Deliveries |-> Outcome(status[d], accepted[d], Holders(d))], tries>>
  BY <1>2, <1>3 DEF outcomes
<1> QED
  BY Invariance, <1>1, <1>3, PTL DEF DispatchSpec, ActsAsQueue, Queue!Spec
=============================================================================
