---------------------------- MODULE IncidentWriter ----------------------------
(***************************************************************************)
(* The incident coalescer (incident_writer.rs) and everything that runs     *)
(* beside it: the scheduler's and the check-now handlers' probes, the 30 s  *)
(* background sweep, maintenance windows, and the operators who create,     *)
(* edit, resolve and reopen incidents.                                      *)
(*                                                                         *)
(* An evaluator is a task that runs decide_and_apply_incident_state.  One   *)
(* storage call is one step, since the connection's mutex is released       *)
(* between calls.  A check result is its timestamp and whether it is Up;    *)
(* an incident is its target, its start and its end.  What follows an open  *)
(* or a close (notices, escalation row) is one step here: EscalationEngine  *)
(* and SubscriberDispatch take it from there.                               *)
(***************************************************************************)
EXTENDS Naturals, Sequences, FiniteSets

CONSTANTS Targets,
          Scheduler,       \* the scheduler's loop: one probe at a time
          Handlers,        \* POST /targets/{id}/check-now requests in flight
          Sweeper,         \* run_background_evaluator
          FLAP_THRESHOLD,
          LOOKBACK,
          MaxProbes,       \* bound: probes
          MaxOps,          \* bound: operators' requests
          MaxFaults        \* bound: storage errors and crashes

Probers == {Scheduler} \cup Handlers
Evaluators == Probers \cup {Sweeper}

ASSUME IncidentWriterAssumption ==
    /\ IsFiniteSet(Handlers)
    /\ Sweeper \notin Probers /\ Scheduler \notin Handlers
    /\ FLAP_THRESHOLD \in Nat \ {0} /\ LOOKBACK \in Nat
    /\ MaxProbes \in Nat /\ MaxOps \in Nat /\ MaxFaults \in Nat

Result == [ts : Nat, up : BOOLEAN]
Incident == [target : Targets, started : Nat, ended : Nat, auto : BOOLEAN]
Null == 0     \* ended_at is null; timestamps start at 1

VARIABLES clock,        \* the last timestamp handed out
          hist,         \* check_results, by target
          incidents,    \* the incidents table, in order of creation
          maintenance,  \* targets inside an active maintenance window
          enabled,      \* targets whose enabled flag is set
          pc, tgt,      \* where each evaluator is, and on which target
          probe,        \* the result a prober has not recorded yet
          win,          \* the results each evaluator decides on
          found,        \* the incident each evaluator found or created
          batch,        \* the sweeper's windows, by target, still to do
          editor,       \* a read-modify-write of an incident in flight
          touched,      \* history: incidents operators created or wrote
          notices,      \* history: Resolved notices sent, by incident
          silent,       \* history: see SetMaintenance
          ops, faults   \* history: requests and faults so far

tables == <<hist, incidents>>
flags == <<maintenance, enabled, silent>>
task == <<pc, tgt, probe, win, found, batch>>
vars == <<clock, tables, flags, task, editor, touched, notices, ops, faults>>

Idle == [id |-> 0, ended |-> Null]
Places == {"idle", "probing", "maintenance", "list", "find", "create", "close",
           "opened", "closed", "loop"}

Init ==
    /\ clock = 1
    /\ hist = [t \in Targets |-> {}]
    /\ incidents = <<>>
    /\ maintenance = {}
    /\ enabled = Targets
    /\ pc = [e \in Evaluators |-> "idle"]
    /\ tgt \in [Evaluators -> Targets]
    /\ probe = [e \in Evaluators |-> [ts |-> 0, up |-> TRUE]]
    /\ win = [e \in Evaluators |-> {}]
    /\ found = [e \in Evaluators |-> 0]
    /\ batch = [t \in Targets |-> {}]
    /\ editor = Idle
    /\ touched = {}
    /\ notices = <<>>
    /\ silent = {}
    /\ ops = 0
    /\ faults = 0

-----------------------------------------------------------------------------
(* Runs of results.                                                         *)

\* ORDER BY timestamp DESC LIMIT LOOKBACK.
Latest(h) == {r \in h : Cardinality({s \in h : s.ts > r.ts}) < LOOKBACK}

\* The trailing run of results that are Up (or that are not).
Run(w, up) == {r \in w : \A s \in w : s.ts >= r.ts => s.up = up}

\* The oldest result of the window that is Up (or that is not).
First(w, up, r) ==
    /\ r \in w
    /\ r.up = up
    /\ \A s \in w : s.up = up => r.ts <= s.ts

\* Faulty variant: the ended_at IS NULL filter is missing.
OpenOfEnded(t) == {i \in DOMAIN incidents : incidents[i].target = t}

OpenOf(t) == {i \in DOMAIN incidents : incidents[i].target = t /\ incidents[i].ended = Null}

\* Faulty variant: only incidents the writer opened are found.
FindOpenAuto(t, i) ==
    \/ i = 0 /\ \A j \in OpenOf(t) : ~incidents[j].auto
    \/ i \in OpenOf(t) /\ incidents[i].auto

\* find_open_incident_for_target: the latest start wins.
FindOpenIncident(t, i) ==
    \/ i = 0 /\ OpenOf(t) = {}
    \/ /\ i \in OpenOf(t)
       /\ \A j \in OpenOf(t) : incidents[j].started <= incidents[i].started

-----------------------------------------------------------------------------
(* Probing.                                                                 *)

\* A probe begins: its result carries this instant, however long it takes.  The
\* scheduler goes by the target list it last refreshed, the handler looks.
StartProbe(e, t) ==
    /\ pc[e] = "idle"
    /\ e \in Handlers => t \in enabled
    /\ clock <= MaxProbes
    /\ clock' = clock + 1
    /\ \E up \in BOOLEAN : probe' = [probe EXCEPT ![e] = [ts |-> clock + 1, up |-> up]]
    /\ tgt' = [tgt EXCEPT ![e] = t]
    /\ pc' = [pc EXCEPT ![e] = "probing"]
    /\ UNCHANGED <<tables, flags, win, found, batch, editor, touched, notices, ops, faults>>

\* record_result, then evaluate_target.
RecordResult(e) ==
    /\ pc[e] = "probing"
    /\ hist' = [hist EXCEPT ![tgt[e]] = @ \cup {probe[e]}]
    /\ pc' = [pc EXCEPT ![e] = "maintenance"]
    /\ UNCHANGED <<clock, incidents, flags, tgt, probe, win, found, batch, editor, touched,
                   notices, ops, faults>>

\* record_result fails: the scheduler evaluates all the same, the handler is done.
RecordFails(e) ==
    /\ pc[e] = "probing"
    /\ faults < MaxFaults
    /\ faults' = faults + 1
    /\ pc' = [pc EXCEPT ![e] = IF e = Scheduler THEN "maintenance" ELSE "idle"]
    /\ UNCHANGED <<clock, tables, flags, tgt, probe, win, found, batch, editor, touched,
                   notices, ops>>

-----------------------------------------------------------------------------
(* The background sweep.                                                    *)

\* list_targets and recent_results_for_targets: one batched read.
StartSweep ==
    /\ pc[Sweeper] = "idle"
    /\ batch' = [t \in Targets |-> IF t \in enabled THEN Latest(hist[t]) ELSE {}]
    /\ pc' = [pc EXCEPT ![Sweeper] = "loop"]
    /\ UNCHANGED <<clock, tables, flags, tgt, probe, win, found, editor, touched, notices,
                   ops, faults>>

\* Faulty variant: the windows of the batch are not told apart.
SweepTargetMixed(t) ==
    /\ pc[Sweeper] = "loop"
    /\ batch[t] # {}
    /\ tgt' = [tgt EXCEPT ![Sweeper] = t]
    /\ win' = [win EXCEPT ![Sweeper] = UNION {batch[u] : u \in Targets}]
    /\ batch' = [batch EXCEPT ![t] = {}]
    /\ pc' = [pc EXCEPT ![Sweeper] = "maintenance"]
    /\ UNCHANGED <<clock, tables, flags, probe, found, editor, touched, notices, ops, faults>>

\* The next target of the batch; targets without results are passed over.
SweepTarget(t) ==
    /\ pc[Sweeper] = "loop"
    /\ batch[t] # {}
    /\ tgt' = [tgt EXCEPT ![Sweeper] = t]
    /\ win' = [win EXCEPT ![Sweeper] = batch[t]]
    /\ batch' = [batch EXCEPT ![t] = {}]
    /\ pc' = [pc EXCEPT ![Sweeper] = "maintenance"]
    /\ UNCHANGED <<clock, tables, flags, probe, found, editor, touched, notices, ops, faults>>

EndSweep ==
    /\ pc[Sweeper] = "loop"
    /\ \A t \in Targets : batch[t] = {}
    /\ pc' = [pc EXCEPT ![Sweeper] = "idle"]
    /\ UNCHANGED <<clock, tables, flags, tgt, probe, win, found, batch, editor, touched,
                   notices, ops, faults>>

-----------------------------------------------------------------------------
(* decide_and_apply_incident_state.                                         *)

\* Where an evaluator goes when it is through with a target.
After(e) == IF e = Sweeper THEN "loop" ELSE "idle"

\* Through with the target: the locals are gone.
Done(e) ==
    /\ pc' = [pc EXCEPT ![e] = After(e)]
    /\ win' = [win EXCEPT ![e] = {}]
    /\ found' = [found EXCEPT ![e] = 0]
    /\ UNCHANGED <<tgt, probe, batch>>

\* Faulty variant: only the per-probe path looks at maintenance windows.
CheckMaintenanceProbers(e) ==
    /\ pc[e] = "maintenance"
    /\ IF tgt[e] \in maintenance /\ e # Sweeper
         THEN Done(e)
         ELSE /\ pc' = [pc EXCEPT ![e] = IF e = Sweeper THEN "find" ELSE "list"]
              /\ UNCHANGED <<tgt, probe, win, found, batch>>
    /\ UNCHANGED <<clock, tables, flags, editor, touched, notices, ops, faults>>

\* is_target_in_active_maintenance: nothing is evaluated inside a window.
CheckMaintenance(e) ==
    /\ pc[e] = "maintenance"
    /\ IF tgt[e] \in maintenance
         THEN Done(e)
         ELSE /\ pc' = [pc EXCEPT ![e] = IF e = Sweeper THEN "find" ELSE "list"]
              /\ UNCHANGED <<tgt, probe, win, found, batch>>
    /\ UNCHANGED <<clock, tables, flags, editor, touched, notices, ops, faults>>

\* list_results, for the per-probe path.
ListResults(e) ==
    /\ pc[e] = "list"
    /\ IF hist[tgt[e]] = {}
         THEN Done(e)
         ELSE /\ win' = [win EXCEPT ![e] = Latest(hist[tgt[e]])]
              /\ pc' = [pc EXCEPT ![e] = "find"]
              /\ UNCHANGED <<tgt, probe, found, batch>>
    /\ UNCHANGED <<clock, tables, flags, editor, touched, notices, ops, faults>>

\* Faulty variant: an open incident does not stop the next one.
DecisionAlways(w, i) ==
    IF Cardinality(Run(w, FALSE)) >= FLAP_THRESHOLD THEN "create"
    ELSE IF Cardinality(Run(w, TRUE)) >= FLAP_THRESHOLD /\ i # 0 THEN "close"
    ELSE "nothing"

\* Faulty variant: a longer run is asked for.
DecisionLate(w, i) ==
    IF Cardinality(Run(w, FALSE)) > FLAP_THRESHOLD /\ i = 0 THEN "create"
    ELSE IF Cardinality(Run(w, TRUE)) >= FLAP_THRESHOLD /\ i # 0 THEN "close"
    ELSE "nothing"

\* What the writer does about a window, given the open incident i (0: none).
Decision(w, i) ==
    IF Cardinality(Run(w, FALSE)) >= FLAP_THRESHOLD /\ i = 0 THEN "create"
    ELSE IF Cardinality(Run(w, TRUE)) >= FLAP_THRESHOLD /\ i # 0 THEN "close"
    ELSE "nothing"

FindOpen(e) ==
    /\ pc[e] = "find"
    /\ \E i \in 0 .. Len(incidents) :
          /\ FindOpenIncident(tgt[e], i)
          /\ IF Decision(win[e], i) = "nothing"
               THEN Done(e)
               ELSE /\ found' = [found EXCEPT ![e] = i]
                    /\ pc' = [pc EXCEPT ![e] = Decision(win[e], i)]
                    /\ UNCHANGED <<tgt, probe, win, batch>>
    /\ UNCHANGED <<clock, tables, flags, editor, touched, notices, ops, faults>>

\* create_incident: ids are fresh, so it never conflicts.
CreateIncident(e) ==
    /\ pc[e] = "create"
    /\ \E r \in win[e] :
          /\ First(win[e], FALSE, r)
          /\ incidents' = Append(incidents, [target |-> tgt[e], started |-> r.ts,
                                             ended |-> Null, auto |-> TRUE])
    /\ found' = [found EXCEPT ![e] = Len(incidents) + 1]
    /\ notices' = Append(notices, 0)
    /\ pc' = [pc EXCEPT ![e] = "opened"]
    /\ UNCHANGED <<clock, hist, flags, tgt, probe, win, batch, editor, touched, ops, faults>>

\* update_incident of the incident that was found, ended at the first Up result.
CloseIncident(e) ==
    /\ pc[e] = "close"
    /\ \E r \in win[e] :
          /\ First(win[e], TRUE, r)
          /\ incidents' = [incidents EXCEPT ![found[e]].ended = r.ts]
    /\ pc' = [pc EXCEPT ![e] = "closed"]
    /\ UNCHANGED <<clock, hist, flags, tgt, probe, win, found, batch, editor, touched, notices,
                   ops, faults>>

\* Deliveries, channels, then the escalation row is seeded or deleted.
Notify(e) ==
    /\ pc[e] \in {"opened", "closed"}
    /\ notices' = IF pc[e] = "closed" THEN [notices EXCEPT ![found[e]] = @ + 1] ELSE notices
    /\ Done(e)
    /\ UNCHANGED <<clock, tables, flags, editor, touched, ops, faults>>

\* A storage call fails: logged.  The sweep's maintenance check has a `?` of its
\* own, which gives the rest of the batch up.
StepFails(e) ==
    /\ faults < MaxFaults
    /\ faults' = faults + 1
    /\ pc[e] \in {"maintenance", "list", "find", "create", "close", "opened", "closed"}
    /\ IF e = Sweeper /\ pc[e] = "maintenance"
         THEN /\ pc' = [pc EXCEPT ![e] = "idle"]
              /\ batch' = [t \in Targets |-> {}]
              /\ win' = [win EXCEPT ![e] = {}]
              /\ UNCHANGED <<tgt, probe, found>>
         ELSE Done(e)
    /\ UNCHANGED <<clock, tables, flags, editor, touched, notices, ops>>

\* The process dies: the rows are all that is left.
Crash ==
    /\ faults < MaxFaults
    /\ faults' = faults + 1
    /\ pc' = [e \in Evaluators |-> "idle"]
    /\ win' = [e \in Evaluators |-> {}]
    /\ found' = [e \in Evaluators |-> 0]
    /\ batch' = [t \in Targets |-> {}]
    /\ editor' = Idle
    /\ UNCHANGED <<clock, tables, flags, tgt, probe, touched, notices, ops>>

-----------------------------------------------------------------------------
(* Operators.                                                               *)

Request == ops < MaxOps /\ ops' = ops + 1

\* POST /incidents.
OpenManually(t) ==
    /\ Request
    /\ incidents' = Append(incidents, [target |-> t, started |-> clock, ended |-> Null,
                                       auto |-> FALSE])
    /\ notices' = Append(notices, 0)
    /\ touched' = touched \cup {Len(incidents) + 1}
    /\ UNCHANGED <<clock, hist, flags, task, editor, faults>>

\* apply_incident_ops: one transaction.
Transition(i) ==
    /\ Request
    /\ \/ incidents' = [incidents EXCEPT ![i].ended = clock]     \* resolve
       \/ /\ incidents[i].ended # Null                            \* reopen
          /\ incidents' = [incidents EXCEPT ![i].ended = Null]
    /\ touched' = touched \cup {i}
    /\ UNCHANGED <<clock, hist, flags, task, editor, notices, faults>>

\* PATCH /incidents/{id} and POST /incidents/{id}/updates read the incident ...
EditRead(i) ==
    /\ Request
    /\ editor = Idle
    /\ editor' = [id |-> i, ended |-> incidents[i].ended]
    /\ UNCHANGED <<clock, tables, flags, task, touched, notices, faults>>

\* ... and write all of it back, with ended_at as read or as the body says.
EditWrite ==
    /\ editor # Idle
    /\ \E end \in {editor.ended, clock} :
          incidents' = [incidents EXCEPT ![editor.id].ended = end]
    /\ editor' = Idle
    /\ touched' = touched \cup {editor.id}
    /\ UNCHANGED <<clock, hist, flags, task, notices, ops, faults>>

\* A maintenance window starts or ends.  History: it is silent when it starts
\* while no evaluator is past its maintenance check for the target.
PastCheck(t) == \E e \in Evaluators : tgt[e] = t /\ pc[e] \in {"list", "find", "create", "close"}

SetMaintenance(t) ==
    /\ Request
    /\ IF t \in maintenance
         THEN maintenance' = maintenance \ {t} /\ silent' = silent \ {t}
         ELSE /\ maintenance' = maintenance \cup {t}
              /\ silent' = IF PastCheck(t) THEN silent ELSE silent \cup {t}
    /\ UNCHANGED <<clock, tables, enabled, task, editor, touched, notices, faults>>

\* PATCH /targets/{id}.
SetEnabled(t) ==
    /\ Request
    /\ enabled' = IF t \in enabled THEN enabled \ {t} ELSE enabled \cup {t}
    /\ UNCHANGED <<clock, tables, maintenance, silent, task, editor, touched, notices, faults>>

-----------------------------------------------------------------------------

\* Everything an evaluator does once it has started.
EvalStep(e) ==
    \/ RecordResult(e)
    \/ CheckMaintenance(e)
    \/ ListResults(e)
    \/ FindOpen(e)
    \/ CreateIncident(e)
    \/ CloseIncident(e)
    \/ Notify(e)

SweepStep ==
    \/ StartSweep
    \/ \E t \in Targets : SweepTarget(t)
    \/ EndSweep

OperatorStep ==
    \/ \E t \in Targets : OpenManually(t) \/ SetMaintenance(t) \/ SetEnabled(t)
    \/ \E i \in DOMAIN incidents : Transition(i) \/ EditRead(i)
    \/ EditWrite

Next ==
    \/ \E e \in Probers : RecordFails(e) \/ \E t \in Targets : StartProbe(e, t)
    \/ \E e \in Evaluators : EvalStep(e) \/ StepFails(e)
    \/ SweepStep
    \/ OperatorStep
    \/ Crash

Spec == Init /\ [][Next]_vars

\* The tasks are polled and the sweep's ticker never stops.  Probes may stop.
Fairness ==
    /\ \A e \in Evaluators : WF_vars(EvalStep(e))
    /\ WF_vars(SweepStep)

FairSpec == Spec /\ Fairness

-----------------------------------------------------------------------------
(* Properties.                                                              *)

\* Every variable has its type, and references to incidents are not dangling.
TypeOK ==
    /\ clock \in Nat
    /\ hist \in [Targets -> SUBSET Result]
    /\ incidents \in Seq(Incident)
    /\ maintenance \subseteq Targets /\ enabled \subseteq Targets /\ silent \subseteq Targets
    /\ pc \in [Evaluators -> Places]
    /\ tgt \in [Evaluators -> Targets]
    /\ probe \in [Evaluators -> Result]
    /\ win \in [Evaluators -> SUBSET Result]
    /\ found \in [Evaluators -> 0 .. Len(incidents)]
    /\ batch \in [Targets -> SUBSET Result]
    /\ editor \in [id : 0 .. Len(incidents), ended : Nat]
    /\ touched \subseteq DOMAIN incidents
    /\ notices \in Seq(Nat) /\ Len(notices) = Len(incidents)
    /\ ops \in Nat /\ faults \in Nat

\* Incidents that only the writer has written.
Untouched(t) == {i \in DOMAIN incidents : incidents[i].target = t /\ i \notin touched}

\* Check-then-create is not atomic, but the duplicates it leads to are bounded:
\* the writer never has more open incidents for a target than there are tasks
\* evaluating it, under errors and crashes too.
BoundedDuplicates ==
    \A t \in Targets :
        Cardinality(OpenOf(t) \cap Untouched(t)) <= Cardinality(Evaluators)

\* The results of t recorded as Up (or not) since n.
Since(t, up, n) == {r \in hist[t] : r.up = up /\ r.ts >= n}

\* An incident the writer opened rests on a full run of recorded failures since
\* its start, and one it closed on a full run of recorded Up results since its
\* end, whatever stale window the evaluator used.
Justified ==
    \A t \in Targets : \A i \in Untouched(t) :
        /\ Cardinality(Since(t, FALSE, incidents[i].started)) >= FLAP_THRESHOLD
        /\ incidents[i].ended # Null =>
              Cardinality(Since(t, TRUE, incidents[i].ended)) >= FLAP_THRESHOLD

\* Several tasks may close the same incident, each with a Resolved notice of its
\* own, but no more of them than there are tasks: a closed incident is not found
\* again.
BoundedNotices ==
    \A t \in Targets : \A i \in Untouched(t) : notices[i] <= Cardinality(Evaluators)

\* Within a maintenance window that no evaluation straddles, the writer neither
\* opens nor closes an incident of the target, not even from results the sweep
\* read before the window.
MaintenanceSilence ==
    [][\A t \in silent : \A i \in Untouched(t)' :
          incidents'[i].auto => i \in Untouched(t) /\ incidents'[i] = incidents[i]]_vars

\* The newest results of t are a full run, and the sweep looks at t.
Steady(t, up) ==
    /\ Cardinality(Run(Latest(hist[t]), up)) >= FLAP_THRESHOLD
    /\ t \in enabled
    /\ t \notin maintenance

\* An outage that lasts ends up with an open incident, whatever evaluations
\* were lost to errors and crashes and whatever operators closed meanwhile.
OutageOpens ==
    \A t \in Targets : <>[]Steady(t, FALSE) => <>[](OpenOf(t) # {})

\* A recovery that lasts ends up with no open incident: the duplicates, the
\* manual and the reopened ones are closed one after the other.
RecoveryCloses ==
    \A t \in Targets : <>[]Steady(t, TRUE) => <>[](OpenOf(t) = {})

\* incident_writer.rs: only one open incident per target exists.
AtMostOneOpen ==
    \A t \in Targets : Cardinality(OpenOf(t) \cap Untouched(t)) <= 1
=============================================================================
