---------------------------- MODULE DeliveryQueue ----------------------------
(***************************************************************************)
(* What a queue of notifications promises to the subscriber and to the     *)
(* one who puts a notification in: it is never offered to the transport    *)
(* again once the transport has taken it; it is not given up before the    *)
(* offers it is due were made; and one that was lost on the way is not     *)
(* picked up again, since the transport may have taken it.                 *)
(***************************************************************************)
EXTENDS Naturals

CONSTANTS Items,
          Due      \* the offers an item is due before it may be given up

VARIABLES outcome,   \* what has become of an item
          offers     \* how often it was offered to the transport

Init ==
    /\ outcome = [i \in Items |-> "new"]
    /\ offers = [i \in Items |-> 0]

Put(i) ==
    /\ outcome[i] = "new"
    /\ outcome' = [outcome EXCEPT ![i] = "open"]
    /\ UNCHANGED offers

Offer(i) ==
    /\ outcome[i] = "open"
    /\ offers' = [offers EXCEPT ![i] = @ + 1]
    /\ outcome' \in {outcome, [outcome EXCEPT ![i] = "taken"]}

GiveUp(i) ==
    /\ outcome[i] = "open"
    /\ offers[i] >= Due
    /\ outcome' = [outcome EXCEPT ![i] = "given up"]
    /\ UNCHANGED offers

Lose(i) ==
    /\ outcome[i] = "open"
    /\ outcome' = [outcome EXCEPT ![i] = "lost"]
    /\ UNCHANGED offers

Next == \E i \in Items : Put(i) \/ Offer(i) \/ GiveUp(i) \/ Lose(i)

Spec == Init /\ [][Next]_<<outcome, offers>>
=============================================================================
