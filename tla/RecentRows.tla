----------------------------- MODULE RecentRows -----------------------------
(***************************************************************************)
(* What a caller may expect of a cached table: a write takes effect at     *)
(* once, and a read answers with a row the table held at some moment of    *)
(* the last Window ticks.                                                  *)
(***************************************************************************)
EXTENDS Naturals

CONSTANTS Ids, Values, Callers, Window, Absent

VARIABLES
    row,      \* the table; Absent where there is no row
    since,    \* ticks since an id last had a value, at most Window + 1
    served    \* the last answer of every caller

Held == Values \cup {Absent}

\* A value that went out of the table longer ago than Window is forgotten.
Capped(n) == IF n > Window THEN Window + 1 ELSE n

Init ==
    /\ row \in [Ids -> Held]
    /\ since = [i \in Ids |-> [v \in Held |-> IF v = row[i] THEN 0 ELSE Window + 1]]
    /\ served = [c \in Callers |-> Absent]

Store(i, v) ==
    /\ row' = [row EXCEPT ![i] = v]
    /\ since' = [since EXCEPT ![i] = [@ EXCEPT ![v] = 0]]
    /\ UNCHANGED served

Serve(c, i, v) ==
    /\ since[i][v] <= Window
    /\ served' = [served EXCEPT ![c] = <<i, v>>]
    /\ UNCHANGED <<row, since>>

Tick ==
    /\ since' = [i \in Ids |-> [v \in Held |-> IF v = row[i] THEN 0 ELSE Capped(since[i][v] + 1)]]
    /\ UNCHANGED <<row, served>>

Next ==
    \/ \E i \in Ids, v \in Held : Store(i, v)
    \/ \E c \in Callers, i \in Ids, v \in Held : Serve(c, i, v)
    \/ Tick

Spec == Init /\ [][Next]_<<row, since, served>>
=============================================================================
