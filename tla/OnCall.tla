------------------------------- MODULE OnCall -------------------------------
(***************************************************************************)
(* On-call schedules: who is paged at an instant (on_call.rs), and the API *)
(* that edits schedules and overrides (on_call_schedules.rs).              *)
(*                                                                         *)
(* An instant is a number of units of UTC, a wall-clock time a number of   *)
(* units of local time.  A zone has one offset before an instant and one   *)
(* from it on: a clock change forward leaves wall-clock times out, one     *)
(* backward repeats them.                                                  *)
(***************************************************************************)
EXTENDS Integers, Sequences, FiniteSets, FiniteSetsExt, Functions

CONSTANTS
    Hour, Day,     \* units of an hour and of a day
    Zones,         \* [at |-> instant of the change, before |-> offset, after |-> offset]
    Horizon,       \* bound: instants looked at
    Plans,         \* bound: the layers a request may send, sequences of them
    Swaps,         \* bound: overrides, [user, starts_at, ends_at]
    MaxSchedules   \* bound: writes of the API

\* Clocks go forward by a few hours at most, and back within a local date.
IsZone(z) ==
    /\ z.at \in Int /\ z.before \in -Day .. Day /\ z.after \in -Day .. Day
    /\ z.after - z.before <= 4 * Hour
    /\ z.before > z.after => (z.at - 1 + z.before) \div Day = (z.at + z.after) \div Day

IsPlan(layers) ==
    /\ layers \in Seq(Range(layers))
    /\ \A k \in DOMAIN layers : layers[k].handoff_at \in Int /\ layers[k].length \in Int

ASSUME OnCallConstants ==
    /\ Hour \in Nat \ {0} /\ Day \in Nat \ {0} /\ MaxSchedules \in Nat
    /\ Horizon \subseteq Int
    /\ \A z \in Zones : IsZone(z)
    /\ \A layers \in Plans : IsPlan(layers)

VARIABLES
    schedule,    \* layers and zone, NoSchedule before the first POST
    overrides,   \* one-off swaps
    clock,
    saves        \* writes so far

onCallVars == <<schedule, overrides, clock, saves>>

----------------------------------------------------------------------------
(* Local time (chrono_tz).                                                 *)
Offset(z, t) == IF t < z.at THEN z.before ELSE z.after
Local(z, t) == t + Offset(z, t)
date_naive(n) == n \div Day
time(n) == n % Day

\* The instants that show a wall-clock time: none, one or two.
from_local_datetime(z, n) == {t \in {n - z.before, n - z.after} : Local(z, t) = n}

(* The earliest instant; in a gap the first whole hour later that exists.  *)
local_to_utc(z, n) ==
    LET later == {k \in 1 .. 4 : from_local_datetime(z, n + k * Hour) # {}}
    IN  CASE from_local_datetime(z, n) # {} -> Min(from_local_datetime(z, n))
          [] from_local_datetime(z, n) = {} /\ later # {} -> Min(from_local_datetime(z, n + Min(later) * Hour))
          [] OTHER -> n - Offset(z, n)

----------------------------------------------------------------------------
(* A layer: its kind of rotation, the length of a turn, the first handoff, *)
(* its order, and its participants in turn.                                *)
AtLeast(n, m) == IF n < m THEN m ELSE n

\* mutant: today's handoff is judged by the wall clock
rotation_indexNaive(layer, z, at) ==
    LET anchor == Local(z, layer.handoff_at)
        now == Local(z, at)
        days == date_naive(now) - date_naive(anchor) - (IF time(now) < time(anchor) THEN 1 ELSE 0)
    IN  IF layer.rotation_type = "custom"
        THEN IF at < layer.handoff_at THEN 0 ELSE (at - layer.handoff_at) \div AtLeast(layer.length, 1)
        ELSE AtLeast(days, 0) \div AtLeast(layer.length \div Day, 1)
(* Handoffs since the anchor.  A custom rotation counts intervals; a daily *)
(* or weekly one counts local days, and whether today's handoff has landed *)
(* is judged by instants.                                                  *)
rotation_index(layer, z, at) ==
    LET anchor == Local(z, layer.handoff_at)
        now_date == date_naive(Local(z, at))
        handoff_today == local_to_utc(z, now_date * Day + time(anchor))
        days == now_date - date_naive(anchor) - (IF at < handoff_today THEN 1 ELSE 0)
    IN  CASE layer.rotation_type = "custom" ->
                IF at < layer.handoff_at THEN 0 ELSE (at - layer.handoff_at) \div AtLeast(layer.length, 1)
          [] layer.rotation_type # "custom" /\ now_date < date_naive(anchor) -> 0
          [] OTHER -> AtLeast(days, 0) \div AtLeast(layer.length \div Day, 1)

layer_on_call(layer, z, at) ==
    layer.participants[(rotation_index(layer, z, at) % Len(layer.participants)) + 1]

(* Overrides that cover the instant win; else the layer of the highest     *)
(* order that has participants, the first listed of equals (the layers of  *)
(* a schedule are created at the same instant).                            *)
Covering(swaps, at) == {o \in swaps : o.starts_at <= at /\ at < o.ends_at}
resolve_on_call(sched, swaps, at) ==
    LET staffed == {k \in DOMAIN sched.layers : sched.layers[k].participants # <<>>}
        ranked == {k \in staffed : \A j \in staffed : sched.layers[j].order <= sched.layers[k].order}
    IN  CASE Covering(swaps, at) # {} -> {o.user : o \in Covering(swaps, at)}
          [] Covering(swaps, at) = {} /\ staffed # {} -> {layer_on_call(sched.layers[Min(ranked)], sched.zone, at)}
          [] OTHER -> {}

----------------------------------------------------------------------------
(* The API.                                                                *)
NoSchedule == [layers |-> <<>>, zone |-> [at |-> 0, before |-> 0, after |-> 0]]

validate_new_schedule(layers) ==
    \A k \in DOMAIN layers : layers[k].length > 0 /\ layers[k].participants # <<>>

OnCallInit ==
    /\ schedule = NoSchedule
    /\ overrides = {}
    /\ clock \in Horizon
    /\ saves = 0

Save == saves < MaxSchedules /\ saves' = saves + 1

(* POST and PATCH replace the layers and the zone, never the overrides.    *)
upsert_on_call_schedule ==
    /\ Save
    /\ \E layers \in Plans, zone \in Zones :
          /\ validate_new_schedule(layers)
          /\ schedule' = [layers |-> layers, zone |-> zone]
    /\ UNCHANGED <<overrides, clock>>

delete_on_call_schedule ==
    /\ Save
    /\ schedule # NoSchedule
    /\ schedule' = NoSchedule
    /\ overrides' = {}
    /\ UNCHANGED clock

create_override(o) ==
    /\ Save
    /\ schedule # NoSchedule
    /\ o.starts_at < o.ends_at
    /\ overrides' = overrides \cup {o}
    /\ UNCHANGED <<schedule, clock>>

delete_override(o) ==
    /\ Save
    /\ o \in overrides
    /\ overrides' = overrides \ {o}
    /\ UNCHANGED <<schedule, clock>>

ClockMoves ==
    /\ clock + 1 \in Horizon
    /\ clock' = clock + 1
    /\ UNCHANGED <<schedule, overrides, saves>>

OnCallSteps ==
    \/ delete_on_call_schedule \/ ClockMoves
    \/ \E o \in Swaps : create_override(o) \/ delete_override(o)

OnCallNext == upsert_on_call_schedule \/ OnCallSteps

OnCallSpec == OnCallInit /\ [][OnCallNext]_onCallVars

----------------------------------------------------------------------------
(* The reference: a handoff falls due at the anchor's wall-clock time, and *)
(* the wall clock has come to a time once it has shown it or a later one.  *)
Reached(z, n, at) == \E t \in (at - 2 * Day) .. at : Local(z, t) >= n

Anchor(layer, z) == Local(z, layer.handoff_at)
TurnDays(layer) == AtLeast(layer.length \div Day, 1)

\* Today leaves the layer's time of day out.
TimeSkipped(layer, z, at) ==
    from_local_datetime(z, date_naive(Local(z, at)) * Day + time(Anchor(layer, z))) = {}

\* The next handoff after r has fallen due.
Overdue(layer, z, at, r) == Reached(z, Anchor(layer, z) + (r + 1) * TurnDays(layer) * Day, at)

\* r handoffs have taken place, and the next one has not, unless it falls
\* due today at a time that today leaves out.
OnTurn(layer, z, at, r) ==
    IF layer.rotation_type = "custom"
    THEN /\ r = 0 \/ layer.handoff_at + r * layer.length <= at
         /\ at < layer.handoff_at + (r + 1) * layer.length
    ELSE /\ r = 0 \/ Reached(z, Anchor(layer, z) + r * TurnDays(layer) * Day, at)
         /\ ~Overdue(layer, z, at, IF TimeSkipped(layer, z, at) THEN r + 1 ELSE r)

(* Handoffs come at the anchor's wall-clock time on both sides of a clock  *)
(* change: none is lost, early, repeated or taken back, in the repeated    *)
(* hour too (rotation_index, local_to_utc); of one whose time is left out  *)
(* today see SkippedHandoffAtJump.  Somebody is on call whenever the API   *)
(* accepted a layer, and an override is never passed over                  *)
(* (resolve_on_call).                                                      *)
HandoffsOnTime ==
    LET z == schedule.zone
        users == resolve_on_call(schedule, overrides, clock)
    IN  /\ \A k \in DOMAIN schedule.layers :
              LET r == rotation_index(schedule.layers[k], z, clock)
              IN  r \in Nat /\ OnTurn(schedule.layers[k], z, clock, r)
        /\ schedule.layers # <<>> => users # {}
        /\ \A o \in overrides : o.starts_at <= clock /\ clock < o.ends_at => o.user \in users

(* "in the spring-forward gap (the wall time never happens) take the       *)
(* instant the clock jumps to" (on_call.rs:258): from then on the handoff  *)
(* has taken place.                                                        *)
SkippedHandoffAtJump ==
    LET z == schedule.zone
    IN  \A k \in DOMAIN schedule.layers :
            LET layer == schedule.layers[k]
            IN  layer.rotation_type # "custom" /\ TimeSkipped(layer, z, clock) =>
                    ~Overdue(layer, z, clock, rotation_index(layer, z, clock))
=============================================================================
