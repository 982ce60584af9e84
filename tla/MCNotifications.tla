--------------------------- MODULE MCNotifications ---------------------------
(***************************************************************************)
(* The two workers that tell people about incidents, for TLC: the dispatch *)
(* of deliveries to subscribers and the escalation to whoever is on call.  *)
(* They share no state, so each behaviour is one part's, chosen at the     *)
(* start.  The dispatch has two parts, a backlog larger than a batch       *)
(* without faults and purges, and both of them without the last delivery.  *)
(***************************************************************************)
EXTENDS SubscriberDispatch, EscalationEngine

CONSTANTS Parts,   \* the parts of a run
          Kept     \* the policies nobody edits
VARIABLE part

mcVars == <<part, dispatchVars, vars>>

Ladder(s, n) == [steps |-> s, repeat_count |-> n]

\* Ladders in the documented order, one and two rungs, with and without repeats.
SortedPolicies == {Ladder(<<1, 2>>, 1), Ladder(<<1>>, 1), Ladder(<<>>, 0)}

\* Bodies the API accepts: an edit may add a rung below, a round, or be unsorted.
EditedPolicies == {Ladder(<<1>>, 0), Ladder(<<2, 1>>, 1)}

AllPolicies == SortedPolicies \cup EditedPolicies

OneLadder == {Ladder(<<1, 2>>, 0)}

MCInit ==
    /\ part \in Parts
    /\ DispatchInit
    /\ Init
    /\ part # "escalation" => policy = CHOOSE p \in Policies : TRUE

BacklogPart ==
    /\ DispatchNext
    /\ ~FaultFelt
    /\ \A d \in Deliveries : status'[d] # "purged"
    /\ UNCHANGED vars
FaultsPart == DispatchNext /\ status'[NumDeliveries] = "absent" /\ UNCHANGED vars
EscalationPart ==
    /\ Next
    /\ policy' # policy => policy \notin Kept /\ policy' \notin Kept
    /\ UNCHANGED dispatchVars

MCNext ==
    /\ UNCHANGED part
    /\ \/ part = "backlog" /\ BacklogPart
       \/ part = "faults" /\ FaultsPart
       \/ part = "escalation" /\ EscalationPart

MCSpec == MCInit /\ [][MCNext]_mcVars /\ DispatchFairness /\ Fairness
=============================================================================
