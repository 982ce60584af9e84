----------------------------- MODULE StorageRows -----------------------------
(***************************************************************************)
(* What the two implementations of the Storage trait                       *)
(* (src/crates/storage/src/traits.rs) share: the shape of their answers,   *)
(* the ordered lists they return and the domain functions both call.       *)
(*                                                                         *)
(* A row keeps the fields that decide an answer: ids, owners, timestamps   *)
(* that are filtered or sorted on, flags and counters.  Names, payload     *)
(* texts and stamps nothing reads are left out.  A time is a natural       *)
(* number of ticks; an id is a natural number too.                         *)
(***************************************************************************)
EXTENDS Integers, FiniteSets, SequencesExt

CONSTANTS Ids,          \* row ids, and the ids of whatever a row points at
          MaxClock,     \* bound: the last tick of the wall clock
          None,         \* Option::None and SQL NULL
          DayTicks,     \* ticks in a day of the day strip
          StripDays,    \* days the dashboard strip goes back (90 in the code)
          MaxNotes,     \* bound: updates an incident carries
          MaxAttempts   \* bound: attempts recorded on a delivery

ASSUME StorageAssumption ==
    /\ Ids \subseteq Nat /\ IsFiniteSet(Ids) /\ Ids # {}
    /\ {MaxClock, MaxNotes, MaxAttempts, StripDays} \subseteq Nat
    /\ DayTicks \in Nat \ {0}
    /\ None \notin Nat /\ None \notin {"up", "degraded", "down", "error"}

Times == 0..MaxClock
OptionalTimes == Times \cup {None}
Statuses == {"up", "degraded", "down", "error"}

\* The rows callers send whole.
Windows == {w \in [id : Ids, starts_at : Times, ends_at : Times, components : {{}} \cup {{i} : i \in Ids}] :
              w.starts_at < w.ends_at}
Variables == [id : Ids, key : Ids, secret : BOOLEAN, value : {None, 1}]
Policies == [id : Ids, steps : {1, 2}, created_at : {0, 1}]
Schedules == [id : Ids, created_at : {0, 1}]
States == [id : Ids, acked : {FALSE}, next_check_at : Times]
ChannelPatches == {<<1, None>>, <<None, TRUE>>, <<None, FALSE>>}
UserPatches == {<<1, None>>, <<None, 1>>, <<1, 1>>}
Filters == {"active", "upcoming", "past", "all"}
Transitions == {None, "acknowledge", "resolve", "reopen", "other"}

\* The Result of a storage call.
Ok(v) == <<"ok", v>>
NotFound == <<"not_found">>
Conflict == <<"conflict">>
InvalidInput == <<"invalid_input">>
EngineError == <<"duckdb">>

\* A table with a row put in; the rows that satisfy a test; the table without them.
With(table, k, row) == [x \in DOMAIN table \cup {k} |-> IF x = k THEN row ELSE table[x]]
Where(table, Test(_)) == {r \in Range(table) : Test(r)}
Without(table, Test(_)) == RestrictValues(table, LAMBDA r : ~Test(r))

(***************************************************************************)
(* Every order a sort by Key may leave the rows in: rows with equal keys   *)
(* come out of a HashMap, or of a query, in any order.                     *)
(***************************************************************************)
Ascending(rows, Key(_)) ==
    {s \in SetToSeqs(rows) : \A i, j \in DOMAIN s : i < j => Key(s[i]) <= Key(s[j])}
Descending(rows, Key(_)) == Ascending(rows, LAMBDA r : -Key(r))
FirstOf(list, limit) == SubSeq(list, 1, IF limit < Len(list) THEN limit ELSE Len(list))

\* The state an incident transition leads to, and None where it is refused.
next_state(ended_at, transition) ==
    CASE transition = "acknowledge" -> IF ended_at = None THEN "acknowledged" ELSE None
      [] transition = "resolve"     -> "resolved"
      [] transition = "reopen"      -> IF ended_at = None THEN None ELSE "triggered"

\* An incident after the accepted parts of an operations patch.
patched(incident, transition, severity, note, now) ==
    LET state == IF transition = None THEN None ELSE next_state(incident.ended_at, transition)
    IN  [incident EXCEPT
          !.ended_at = CASE state = "resolved" -> now
                         [] state = "triggered" -> None
                         [] OTHER -> @,
          !.severity = IF severity = None THEN @ ELSE severity,
          !.notes = IF note THEN @ + 1 ELSE @]

\* How long a failed delivery waits: 30 s * 2^attempts, at most an hour, in
\* ticks of 60 s.
Backoff(attempts) ==
    LET doubled == 30 * 2 ^ (IF attempts < 7 THEN attempts ELSE 7)
    IN  (IF doubled < 3600 THEN doubled ELSE 3600) \div 60

\* A window with bounds in the order every writer demands.
IsActive(r, now) == r.starts_at <= now /\ now < r.ends_at
InWindow(r, filter, now) ==
    CASE filter = "active"   -> IsActive(r, now)
      [] filter = "upcoming" -> r.starts_at > now
      [] filter = "past"     -> r.ends_at <= now
      [] filter = "all"      -> TRUE
==============================================================================
