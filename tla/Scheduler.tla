------------------------------ MODULE Scheduler ------------------------------
(***************************************************************************)
(* The probe scheduler (scheduler.rs): one task with two timers, one that  *)
(* sweeps the due targets and one that re-reads the target list, against   *)
(* the console's writes to the targets and the pings of heartbeat targets. *)
(* Probes run one after the other inside the sweep.                        *)
(*                                                                         *)
(* Time is counted in ticks of the sweep timer and only differences of it  *)
(* are kept, so a behaviour may go on for ever.  A timer tick that comes   *)
(* while the task is busy is kept for later (tokio's default, Burst).      *)
(***************************************************************************)
EXTENDS Probes

CONSTANTS
    Targets,
    RefreshEvery,   \* TARGET_REFRESH_INTERVAL, in ticks of SWEEP_INTERVAL
    Deadline,       \* period + grace of a heartbeat target, in ticks
    Interval,       \* the interval of the targets, in ticks
    MaxBehind,      \* bound: timer ticks kept for later
    MaxEdits,       \* bound: writes of the console
    MaxFailures,    \* bound: storage errors and failed connectivity checks
    NoTarget

ASSUME SchedulerConstants ==
    /\ RefreshEvery \in Nat \ {0} /\ Deadline \in Nat /\ Interval \in Nat
    /\ MaxBehind \in Nat \ {0} /\ MaxEdits \in Nat /\ MaxFailures \in Nat
    /\ NoTarget \notin Targets

VARIABLES
    table,      \* table targets
    known,      \* known_targets: the rows read by the last refresh
    next_due,   \* ticks until a known target is due; never moved on
    age,        \* heartbeat_pings: ticks since a target's last ping
    latest,     \* the status recorded last
    phase,      \* ticks since the refresh timer fired last
    sweeps,     \* sweep ticks not yet served
    refreshes,  \* refresh ticks not yet served
    sched,      \* the scheduler task
    draft,      \* the PATCH /targets handler between its read and its write
    pings,      \* targets whose ping handler has checked the target
    edits, failures,
    quiet,      \* history: ticks since the last probe, up to Interval
    hasty       \* history: targets probed again before their interval was over

schedulerVars == <<table, known, next_due, age, latest, phase, sweeps, refreshes, sched, draft, pings,
                   edits, failures, quiet, hasty>>
timers == <<phase, sweeps, refreshes>>
console == <<table, draft, edits>>

TargetRow(kind, enabled) == [state |-> "live", kind |-> kind, enabled |-> enabled]
Unborn == [state |-> "unborn", kind |-> "tcp", enabled |-> FALSE]
Deleted == [Unborn EXCEPT !.state = "deleted"]
ScheduledKinds == {"tcp", "heartbeat"}
TargetRows == [state : {"live"}, kind : ScheduledKinds, enabled : BOOLEAN]
Live(t) == table[t].state = "live"
Known(t) == known[t].state = "live"

Idle == [pc |-> "idle", queue |-> {}, target |-> NoTarget, seen |-> NoPing, verdict |-> "up"]
NoDraft == [target |-> NoTarget, row |-> Unborn]

\* What a tcp check may see: one address the guard lets pass.
TcpNets == [host : {[resolves |-> TRUE, ips |-> {V4("public")}]}, stage : {"connected", "refused"}]

(* run: the first refresh tick is consumed before the loop, the first      *)
(* sweep tick fires at once.                                               *)
SchedulerInit ==
    /\ table \in [Targets -> TargetRows \cup {Unborn}]
    /\ known = [t \in Targets |-> Unborn]
    /\ next_due = [t \in Targets |-> 0]
    /\ age = [t \in Targets |-> NoPing]
    /\ latest = [t \in Targets |-> "none"]
    /\ phase = 0
    /\ sweeps = 1
    /\ refreshes = 0
    /\ sched = Idle
    /\ draft = NoDraft
    /\ pings = {}
    /\ edits = 0
    /\ failures = 0
    /\ quiet = [t \in Targets |-> Interval]
    /\ hasty = {}

Fail == failures < MaxFailures /\ failures' = failures + 1

----------------------------------------------------------------------------
(* The scheduler task.                                                     *)

\* mutant: rows that are known are not read again
refresh_targetsNewOnly ==
    /\ sched.pc = "idle"
    /\ refreshes > 0
    /\ refreshes' = refreshes - 1
    /\ known' = [t \in Targets |-> IF Known(t) THEN known[t] ELSE table[t]]
    /\ UNCHANGED <<next_due, age, latest, phase, sweeps, sched, console, pings, failures, quiet, hasty>>
(* Unknown targets are due within the next tick, known ones keep their due *)
(* instant, and rows that are gone are evicted.                            *)
refresh_targets ==
    /\ sched.pc = "idle"
    /\ refreshes > 0
    /\ refreshes' = refreshes - 1
    /\ \/ /\ known' = [t \in Targets |-> IF Live(t) THEN table[t] ELSE Unborn]
          /\ \E due \in [Targets -> {0, 1}] :
                next_due' = [t \in Targets |-> CASE Live(t) /\ Known(t) -> next_due[t]
                                                 [] Live(t) /\ ~Known(t) -> due[t]
                                                 [] OTHER -> 0]
          /\ UNCHANGED failures
       \/ /\ Fail
          /\ UNCHANGED <<known, next_due>>
    /\ UNCHANGED <<age, latest, phase, sweeps, sched, console, pings, quiet, hasty>>

Due == {t \in Targets : Known(t) /\ next_due[t] = 0}

(* probe_due_targets: nothing due, or no connectivity, ends the sweep.     *)
StartSweep ==
    /\ sched.pc = "idle"
    /\ sweeps > 0
    /\ sweeps' = sweeps - 1
    /\ \/ /\ Due # {}
          /\ sched' = [Idle EXCEPT !.pc = "next", !.queue = Due]
          /\ UNCHANGED failures
       \/ Due = {} /\ UNCHANGED <<sched, failures>>
       \/ Due # {} /\ Fail /\ UNCHANGED sched
    /\ UNCHANGED <<known, next_due, age, latest, phase, refreshes, console, pings, quiet, hasty>>

EndSweep ==
    /\ sched.pc = "next"
    /\ sched.queue = {}
    /\ sched' = Idle
    /\ UNCHANGED <<known, next_due, age, latest, timers, console, pings, failures, quiet, hasty>>

\* mutant: a passive target is skipped like a disabled one
StartProbeActive(t) ==
    /\ sched.pc = "next"
    /\ t \in sched.queue
    /\ LET chosen == known[t].enabled /\ ~is_passive(known[t].kind)
       IN  sched' = [sched EXCEPT !.queue = @ \ {t}, !.pc = IF chosen THEN "probe" ELSE "next",
                                  !.target = IF chosen THEN t ELSE NoTarget]
    /\ UNCHANGED <<known, next_due, age, latest, timers, console, pings, failures, quiet, hasty>>
(* The next due target, in the order of the hash map; a disabled one is    *)
(* skipped.                                                                *)
StartProbe(t) ==
    /\ sched.pc = "next"
    /\ t \in sched.queue
    /\ sched' = [sched EXCEPT !.queue = @ \ {t},
                              !.pc = IF known[t].enabled THEN "probe" ELSE "next",
                              !.target = IF known[t].enabled THEN t ELSE NoTarget]
    /\ IF known[t].enabled
       THEN /\ quiet' = [quiet EXCEPT ![t] = 0]
            /\ hasty' = IF quiet[t] < Interval THEN hasty \cup {t} ELSE hasty
       ELSE UNCHANGED <<quiet, hasty>>
    /\ UNCHANGED <<known, next_due, age, latest, timers, console, pings, failures>>

Judged(verdict) == sched' = [sched EXCEPT !.pc = "record", !.verdict = verdict.status, !.seen = NoPing]

ProbeNetwork ==
    /\ sched.pc = "probe"
    /\ ~is_passive(known[sched.target].kind)
    /\ \E net \in TcpNets : Judged(probe_tcp(net))
    /\ UNCHANGED <<known, next_due, age, latest, timers, console, pings, failures, quiet, hasty>>

(* probe_heartbeat reads the last ping, and then the clock.                *)
ReadPing ==
    /\ sched.pc = "probe"
    /\ is_passive(known[sched.target].kind)
    /\ \/ /\ sched' = [sched EXCEPT !.pc = "judge", !.seen = age[sched.target]]
          /\ UNCHANGED failures
       \/ /\ Fail
          /\ Judged(Report("error", "last ping"))
    /\ UNCHANGED <<known, next_due, age, latest, timers, console, pings, quiet, hasty>>

probe_heartbeat ==
    /\ sched.pc = "judge"
    /\ Judged(HeartbeatVerdict(Deadline, sched.seen))
    /\ UNCHANGED <<known, next_due, age, latest, timers, console, pings, failures, quiet, hasty>>

(* A result that cannot be recorded is logged and lost; the incident       *)
(* writer is called in any case.                                           *)
RecordResult ==
    /\ sched.pc = "record"
    /\ \/ /\ latest' = [latest EXCEPT ![sched.target] = sched.verdict]
          /\ UNCHANGED failures
       \/ /\ Fail
          /\ UNCHANGED latest
    /\ sched' = [sched EXCEPT !.pc = "next", !.target = NoTarget, !.verdict = "up"]
    /\ UNCHANGED <<known, next_due, age, timers, console, pings, quiet, hasty>>

SchedulerStep ==
    \/ EndSweep \/ ProbeNetwork \/ ReadPing \/ probe_heartbeat \/ RecordResult
    \/ \E t \in Targets : StartProbe(t)

----------------------------------------------------------------------------
(* The target API.                                                         *)
ConsoleEdit == edits < MaxEdits /\ edits' = edits + 1
Rest == UNCHANGED <<known, next_due, age, latest, timers, sched, pings, failures, quiet, hasty>>

create_target(t) ==
    /\ ConsoleEdit
    /\ table[t] = Unborn
    /\ \E row \in TargetRows : table' = [table EXCEPT ![t] = row]
    /\ UNCHANGED draft
    /\ Rest

delete_target(t) ==
    /\ ConsoleEdit
    /\ Live(t)
    /\ table' = [table EXCEPT ![t] = Deleted]
    /\ UNCHANGED draft
    /\ Rest

(* PATCH /targets/{id} reads the row, applies what the body sets, and      *)
(* writes the whole row back; a row deleted meanwhile is not found.        *)
apply_to(row, kind, enabled) ==
    [row EXCEPT !.kind = IF kind = "keep" THEN @ ELSE kind,
                !.enabled = IF enabled = "keep" THEN @ ELSE enabled = "on"]

ReadTarget(t) ==
    /\ ConsoleEdit
    /\ draft = NoDraft
    /\ Live(t)
    /\ \E kind \in ScheduledKinds \cup {"keep"}, enabled \in {"keep", "on", "off"} :
          draft' = [target |-> t, row |-> apply_to(table[t], kind, enabled)]
    /\ UNCHANGED table
    /\ Rest

update_target ==
    /\ draft # NoDraft
    /\ table' = IF Live(draft.target) THEN [table EXCEPT ![draft.target] = draft.row] ELSE table
    /\ draft' = NoDraft
    /\ UNCHANGED edits
    /\ Rest

(* POST /heartbeat/{id}: the target is checked, then the ping is written,  *)
(* whatever became of the target.                                          *)
AcceptPing(t) ==
    /\ Live(t)
    /\ table[t].kind = "heartbeat"
    /\ pings' = pings \cup {t}
    /\ UNCHANGED <<known, next_due, age, latest, timers, sched, console, failures, quiet, hasty>>

record_heartbeat_ping(t) ==
    /\ t \in pings
    /\ pings' = pings \ {t}
    /\ age' = [age EXCEPT ![t] = 0]
    /\ UNCHANGED <<known, next_due, latest, timers, sched, console, failures, quiet, hasty>>

----------------------------------------------------------------------------
AtMost(n, bound) == IF n < bound THEN n ELSE bound
Older(n) == IF n = NoPing THEN NoPing ELSE AtMost(n + 1, Deadline + 1)

TimePasses ==
    /\ phase' = (phase + 1) % RefreshEvery
    /\ sweeps' = AtMost(sweeps + 1, MaxBehind)
    /\ refreshes' = IF phase' = 0 THEN AtMost(refreshes + 1, MaxBehind) ELSE refreshes
    /\ next_due' = [t \in Targets |-> IF next_due[t] > 0 THEN next_due[t] - 1 ELSE 0]
    /\ age' = [t \in Targets |-> Older(age[t])]
    /\ sched' = [sched EXCEPT !.seen = Older(@)]
    /\ quiet' = [t \in Targets |-> AtMost(quiet[t] + 1, Interval)]
    /\ UNCHANGED <<known, latest, console, pings, failures, hasty>>

SchedulerNext ==
    \/ refresh_targets \/ StartSweep \/ SchedulerStep
    \/ update_target
    \/ \E t \in Targets : \/ create_target(t) \/ delete_target(t) \/ ReadTarget(t)
                          \/ AcceptPing(t) \/ record_heartbeat_ping(t)
    \/ TimePasses

(* The task is scheduled by the runtime and every probe and storage call   *)
(* ends, time goes on, and select! picks among the ready timers at random. *)
SchedulerFairness ==
    /\ WF_schedulerVars(SchedulerStep)
    /\ WF_schedulerVars(TimePasses)
    /\ SF_schedulerVars(refresh_targets)
    /\ SF_schedulerVars(StartSweep)

SchedulerSpec == SchedulerInit /\ [][SchedulerNext]_schedulerVars /\ SchedulerFairness

----------------------------------------------------------------------------
Wanted(t) == Live(t) /\ table[t].enabled
Probed(t) == sched.target = t

(* The scheduler follows the table although it works from a snapshot of    *)
(* it: a target that stays enabled is probed again and again, whatever the *)
(* other targets and a finite number of errors do, and one that stays      *)
(* disabled or deleted is left alone in the end (refresh_targets).         *)
SchedulerFollowsTable ==
    \A t \in Targets : /\ <>[]Wanted(t) => []<>Probed(t)
                       /\ <>[]~Wanted(t) => <>[]~Probed(t)

Silent(t) == Wanted(t) /\ table[t].kind = "heartbeat" /\ age[t] > Deadline

(* A heartbeat target that has pinged once and falls silent for good ends  *)
(* up reported down, and stays so (probe_heartbeat).                       *)
SilenceIsNoticed == \A t \in Targets : <>[]Silent(t) => <>[](latest[t] = "down")

(* scheduler.rs: a probed target is rescheduled at now + interval, so it   *)
(* is not probed again before its interval is over.                        *)
IntervalRespected == hasty = {}
=============================================================================
