--------------------------- MODULE EscalationEngine ---------------------------
(***************************************************************************)
(* Escalation of unacknowledged incidents: the engine that walks a policy's *)
(* ladder (escalation_engine.rs, escalation_policy.rs), the incident writer *)
(* that seeds and drops its rows (incident_writer.rs), and the operators    *)
(* who acknowledge, resolve and reopen incidents and edit the policy        *)
(* (api/incident_ops.rs, api/escalation_policies.rs).                       *)
(*                                                                         *)
(* One storage call is one step.  Handlers that make two calls leave the    *)
(* second in `followUp`; the engine's position in advance_state is `pc`.    *)
(* A row's timer next_check_at is abstracted to `due`.  A step of a policy  *)
(* is its level: delays and paging targets do not change the walk.          *)
(***************************************************************************)
EXTENDS Naturals, Sequences, FiniteSets

CONSTANTS Incidents,
          Policies,    \* the policy bodies operators submit: [steps, repeat_count]
          NoRow,       \* no row in incident_escalation_state
          NoPolicy,    \* the policy row is deleted
          CanEdit,     \* whether operators edit the policy
          Shortcuts,   \* whether operators use POST /acknowledge, /resolve, /reopen
          MaxFaults    \* bound: storage errors and crashes

Rung == [round : Nat, level : Nat]
Row == [round : Nat, level : Nat, acked : BOOLEAN, due : BOOLEAN]

\* validate_new_policy: levels are positive; order and uniqueness are not looked at.
ValidPolicy(p) ==
    /\ p.steps \in Seq(Nat \ {0})
    /\ p.repeat_count \in Nat

ASSUME EscalationAssumption ==
    /\ NoRow \notin Row
    /\ NoPolicy \notin Policies
    /\ \A p \in Policies : ValidPolicy(p)
    /\ CanEdit \in BOOLEAN /\ Shortcuts \in BOOLEAN
    /\ MaxFaults \in Nat

VARIABLES incident,   \* "none", "open" (ended_at null) or "ended"
          row,        \* incident_escalation_state, by incident
          policy,     \* the policy the targets point to
          followUp,   \* second storage calls of handlers in flight
          pc,         \* where the engine is
          batch,      \* the rows list_due_escalation_states returned, still to do
          cur,        \* the incident advance_state works on
          decision,   \* the result of next_step
          pageLog,    \* history: the rungs paged, by incident
          edited,     \* history: whether the policy was ever edited
          acknowledged, \* history: incidents whose Acknowledge was accepted
          everEnded,  \* history: incidents that ended at some time
          lateEnd,    \* history: pages sent while the incident was ended
          faults      \* history: storage errors and crashes so far

rows == <<incident, row, policy, followUp>>
engine == <<pc, batch, cur, decision>>
marks == <<acknowledged, everEnded, lateEnd, edited>>
vars == <<rows, engine, pageLog, marks, faults>>

Exhausted == [round |-> 0, level |-> 0]   \* level 0 is no rung
Places == {"idle", "loop", "policy", "page", "persist", "drop", "exhausted"}
FollowUps == [inc : Incidents, op : {"seed", "ack", "delete"}]

Init ==
    /\ incident = [i \in Incidents |-> "none"]
    /\ row = [i \in Incidents |-> NoRow]
    /\ policy \in Policies
    /\ followUp = {}
    /\ pc = "idle"
    /\ batch = [i \in Incidents |-> NoRow]
    /\ cur \in Incidents
    /\ decision = Exhausted
    /\ pageLog = [i \in Incidents |-> <<>>]
    /\ edited = FALSE
    /\ acknowledged = {}
    /\ everEnded = {}
    /\ lateEnd = [i \in Incidents |-> 0]
    /\ faults = 0

-----------------------------------------------------------------------------
(* The pure ladder walk.                                                    *)

\* Faulty variant: the current level counts as above itself.
NextIndexSame(steps, level, k) ==
    /\ k \in DOMAIN steps
    /\ steps[k] >= level
    /\ \A j \in DOMAIN steps : j < k => steps[j] < level

\* Faulty variant: the list is walked from its far end.
NextIndexSkip(steps, level, k) ==
    /\ k \in DOMAIN steps
    /\ steps[k] > level
    /\ \A j \in DOMAIN steps : j > k => steps[j] <= level

\* The first step, in list order, above `level`.
NextIndex(steps, level, k) ==
    /\ k \in DOMAIN steps
    /\ steps[k] > level
    /\ \A j \in DOMAIN steps : j < k => steps[j] <= level

\* next_step decides d: the next rung up, the first rung of another round, or
\* nothing left to page.
NextStep(p, level, round, d) ==
    \/ \E k \in DOMAIN p.steps :
          NextIndex(p.steps, level, k) /\ d = [round |-> round, level |-> p.steps[k]]
    \/ /\ \A k \in DOMAIN p.steps : p.steps[k] <= level
       /\ d = IF p.steps # <<>> /\ round < p.repeat_count
                THEN [round |-> round + 1, level |-> p.steps[1]]
                ELSE Exhausted

-----------------------------------------------------------------------------
(* The incident writer.                                                     *)

\* Auto-open: create_incident; seed_escalation_state comes after the
\* notifications.
AutoOpen(i) ==
    /\ incident[i] = "none"
    /\ incident' = [incident EXCEPT ![i] = "open"]
    /\ followUp' = followUp \cup {[inc |-> i, op |-> "seed"]}
    /\ UNCHANGED <<row, policy, engine, pageLog, marks, faults>>

\* Auto-close: update_incident sets ended_at; delete_escalation_state follows.
AutoClose(i) ==
    /\ incident[i] = "open"
    /\ incident' = [incident EXCEPT ![i] = "ended"]
    /\ followUp' = followUp \cup {[inc |-> i, op |-> "delete"]}
    /\ everEnded' = everEnded \cup {i}
    /\ UNCHANGED <<row, policy, engine, pageLog, acknowledged, lateEnd, edited, faults>>

\* seed_escalation_state: upsert of a fresh, unacknowledged row.
Seed(i) ==
    /\ [inc |-> i, op |-> "seed"] \in followUp
    /\ followUp' = followUp \ {[inc |-> i, op |-> "seed"]}
    /\ row' = [row EXCEPT ![i] = [round |-> 0, level |-> 0, acked |-> FALSE, due |-> FALSE]]
    /\ UNCHANGED <<incident, policy, engine, pageLog, marks, faults>>

\* delete_escalation_state, after an auto-close or a resolve by PATCH /ops.
DeleteState(i) ==
    /\ [inc |-> i, op |-> "delete"] \in followUp
    /\ followUp' = followUp \ {[inc |-> i, op |-> "delete"]}
    /\ row' = [row EXCEPT ![i] = NoRow]
    /\ UNCHANGED <<incident, policy, engine, pageLog, marks, faults>>

-----------------------------------------------------------------------------
(* Operators.                                                               *)

\* storage.apply_incident_ops: next_state over the two states it derives from
\* ended_at.  An acknowledge leaves the incident row as it is.
ApplyIncidentOps(i, transition) ==
    \/ /\ transition = "acknowledge"
       /\ incident[i] = "open"
       /\ acknowledged' = acknowledged \cup {i}
       /\ UNCHANGED <<incident, everEnded, lateEnd>>
    \/ /\ transition = "resolve"
       /\ incident[i] \in {"open", "ended"}
       /\ incident' = [incident EXCEPT ![i] = "ended"]
       /\ everEnded' = everEnded \cup {i}
       /\ UNCHANGED <<acknowledged, lateEnd>>
    \/ /\ transition = "reopen"
       /\ incident[i] = "ended"
       /\ incident' = [incident EXCEPT ![i] = "open"]
       /\ acknowledged' = acknowledged \ {i}
       /\ lateEnd' = [lateEnd EXCEPT ![i] = 0]
       /\ UNCHANGED everEnded

\* POST /acknowledge, /resolve, /reopen: the storage transition and nothing else.
\* A PATCH /incidents/{id} that writes ended_at changes the same column.
Shortcut(i, transition) ==
    /\ Shortcuts
    /\ ApplyIncidentOps(i, transition)
    /\ UNCHANGED <<row, policy, followUp, engine, pageLog, edited, faults>>

\* What PATCH /ops mirrors into the engine's bookkeeping.
Mirror(i, transition) ==
    CASE transition = "acknowledge" -> {[inc |-> i, op |-> "ack"]}
      [] transition = "resolve" -> {[inc |-> i, op |-> "delete"]}
      [] OTHER -> {}

OpsPatch(i, transition) ==
    /\ ApplyIncidentOps(i, transition)
    /\ followUp' = followUp \cup Mirror(i, transition)
    /\ UNCHANGED <<row, policy, engine, pageLog, edited, faults>>

\* ack_escalation_state: without a row it is NotFound, which is logged.
AckState(i) ==
    /\ [inc |-> i, op |-> "ack"] \in followUp
    /\ followUp' = followUp \ {[inc |-> i, op |-> "ack"]}
    /\ row' = IF row[i] = NoRow THEN row ELSE [row EXCEPT ![i].acked = TRUE]
    /\ UNCHANGED <<incident, policy, engine, pageLog, marks, faults>>

\* PATCH (an upsert, so it also recreates) and DELETE of the policy.
EditPolicy ==
    /\ CanEdit
    /\ policy' \in (Policies \cup {NoPolicy}) \ {policy}
    /\ edited' = TRUE
    /\ UNCHANGED <<incident, row, followUp, engine, pageLog, acknowledged, everEnded, lateEnd, faults>>

-----------------------------------------------------------------------------
(* The engine.                                                              *)

\* Time reaches a row's next_check_at.
RowDue(i) ==
    /\ row[i] # NoRow
    /\ ~row[i].due
    /\ row' = [row EXCEPT ![i].due = TRUE]
    /\ UNCHANGED <<incident, policy, followUp, engine, pageLog, marks, faults>>

\* Faulty variant: acknowledged rows are listed too.
ListDueAcked == [i \in Incidents |-> IF row[i] # NoRow /\ row[i].due THEN row[i] ELSE NoRow]

\* Faulty variant: rows that were paged once are not listed again.
ListDueFresh == [i \in Incidents |-> IF row[i] # NoRow /\ row[i].due /\ row[i].level = 0
                                        THEN row[i] ELSE NoRow]

\* Faulty variant: freshly seeded rows are not listed.
ListDuePaged == [i \in Incidents |-> IF row[i] # NoRow /\ row[i].due /\ row[i].level > 0
                                        THEN row[i] ELSE NoRow]

\* list_due_escalation_states.
ListDue == [i \in Incidents |-> IF row[i] # NoRow /\ row[i].due /\ ~row[i].acked
                                  THEN row[i] ELSE NoRow]

\* A tick with something due.
Sweep ==
    /\ pc = "idle"
    /\ \E i \in Incidents : ListDue[i] # NoRow
    /\ batch' = ListDue
    /\ pc' = "loop"
    /\ UNCHANGED <<rows, cur, decision, pageLog, marks, faults>>

\* Faulty variant: ended incidents are not recognised.
LoadIncidentAnyway(i) ==
    /\ pc = "loop"
    /\ batch[i] # NoRow
    /\ cur' = i
    /\ decision' = Exhausted
    /\ pc' = "policy"
    /\ UNCHANGED <<rows, batch, pageLog, marks, faults>>

\* advance_state: get_incident.  The snapshot is not read again from here on.
LoadIncident(i) ==
    /\ pc = "loop"
    /\ batch[i] # NoRow
    /\ cur' = i
    /\ decision' = Exhausted
    /\ pc' = IF incident[i] = "open" THEN "policy" ELSE "drop"
    /\ UNCHANGED <<rows, batch, pageLog, marks, faults>>

\* The current state of the batch is finished, whatever the outcome.
DoneWithCurrent ==
    /\ batch' = [batch EXCEPT ![cur] = NoRow]
    /\ pc' = "loop"
    /\ UNCHANGED cur

\* get_escalation_policy and next_step; a deleted policy is an error that leaves
\* the row as it is.
Decide ==
    /\ pc = "policy"
    /\ IF policy = NoPolicy
         THEN DoneWithCurrent /\ UNCHANGED decision
         ELSE /\ NextStep(policy, batch[cur].level, batch[cur].round, decision')
              /\ pc' = IF decision' = Exhausted THEN "exhausted" ELSE "page"
              /\ UNCHANGED <<batch, cur>>
    /\ UNCHANGED <<rows, pageLog, marks, faults>>

\* dispatch_target for every target of the rung; their errors are swallowed.
Page ==
    /\ pc = "page"
    /\ pageLog' = [pageLog EXCEPT ![cur] = Append(@, decision)]
    /\ lateEnd' = [lateEnd EXCEPT ![cur] = IF incident[cur] = "ended" THEN @ + 1 ELSE @]
    /\ pc' = "persist"
    /\ UNCHANGED <<rows, batch, cur, decision, acknowledged, everEnded, edited, faults>>

\* upsert_escalation_state of the snapshot, moved to the paged rung; the
\* snapshot was read unacknowledged.
Persist ==
    /\ pc = "persist"
    /\ row' = [row EXCEPT ![cur] = [round |-> decision.round, level |-> decision.level,
                                    acked |-> batch[cur].acked, due |-> FALSE]]
    /\ DoneWithCurrent
    /\ decision' = Exhausted
    /\ UNCHANGED <<incident, policy, followUp, pageLog, marks, faults>>

\* delete_escalation_state: the incident ended or the ladder is exhausted.
Drop ==
    /\ pc \in {"drop", "exhausted"}
    /\ row' = [row EXCEPT ![cur] = NoRow]
    /\ DoneWithCurrent
    /\ UNCHANGED <<incident, policy, followUp, decision, pageLog, marks, faults>>

EndSweep ==
    /\ pc = "loop"
    /\ \A i \in Incidents : batch[i] = NoRow
    /\ pc' = "idle"
    /\ UNCHANGED <<rows, batch, cur, decision, pageLog, marks, faults>>

\* A storage call of advance_state fails: logged, on to the next state.
AdvanceFails ==
    /\ faults < MaxFaults
    /\ pc \in {"policy", "persist", "drop", "exhausted"}
    /\ faults' = faults + 1
    /\ DoneWithCurrent
    /\ decision' = Exhausted
    /\ UNCHANGED <<rows, pageLog, marks>>

\* The process dies: the engine's position and the handlers in flight are gone.
Crash ==
    /\ faults < MaxFaults
    /\ faults' = faults + 1
    /\ pc' = "idle"
    /\ batch' = [i \in Incidents |-> NoRow]
    /\ decision' = Exhausted
    /\ followUp' = {}
    /\ UNCHANGED <<incident, row, policy, cur, pageLog, marks>>

-----------------------------------------------------------------------------

EngineStep ==
    \/ Sweep
    \/ \E i \in Incidents : LoadIncident(i)
    \/ Decide
    \/ Page
    \/ Persist
    \/ Drop
    \/ EndSweep

FollowUpStep(i) == Seed(i) \/ DeleteState(i) \/ AckState(i)

Transitions == {"acknowledge", "resolve", "reopen"}

Next ==
    \/ \E i \in Incidents :
          \/ AutoOpen(i)
          \/ AutoClose(i)
          \/ FollowUpStep(i)
          \/ \E t \in Transitions : Shortcut(i, t) \/ OpsPatch(i, t)
          \/ RowDue(i)
    \/ EditPolicy
    \/ EngineStep
    \/ AdvanceFails
    \/ Crash

Spec == Init /\ [][Next]_vars

\* The engine's loop and the handlers are polled; every page times out; time passes.
Fairness ==
    /\ WF_vars(EngineStep)
    /\ \A i \in Incidents :
          WF_vars(Seed(i)) /\ WF_vars(DeleteState(i)) /\ WF_vars(AckState(i)) /\ WF_vars(RowDue(i))

FairSpec == Spec /\ Fairness

-----------------------------------------------------------------------------
(* Properties.                                                              *)

\* Every variable has its type.
TypeOK ==
    /\ incident \in [Incidents -> {"none", "open", "ended"}]
    /\ row \in [Incidents -> Row \cup {NoRow}]
    /\ policy \in Policies \cup {NoPolicy}
    /\ followUp \subseteq FollowUps
    /\ pc \in Places
    /\ batch \in [Incidents -> Row \cup {NoRow}]
    /\ cur \in Incidents
    /\ decision \in Rung
    /\ pageLog \in [Incidents -> Seq(Rung)]
    /\ edited \in BOOLEAN
    /\ acknowledged \subseteq Incidents
    /\ everEnded \subseteq Incidents
    /\ lateEnd \in [Incidents -> Nat]
    /\ faults \in Nat

\* Rung a comes strictly before rung b in the walk of a ladder.
Before(a, b) == a.round < b.round \/ (a.round = b.round /\ a.level < b.level)

\* The pages of i that do not go beyond the page before.
Setbacks(i) ==
    {<<i, k>> : k \in {n \in 1 .. Len(pageLog[i]) - 1 : ~Before(pageLog[i][n], pageLog[i][n + 1])}}

\* A storage error or a crash between the page and the upsert makes the engine
\* page a rung again, or an earlier one that an edit has put in: at most one such
\* page for each fault, and none without.
SetbacksNeedFaults ==
    Cardinality(UNION {Setbacks(i) : i \in Incidents}) <= faults

\* A ladder in the documented order.
Climbs(p) == \A j, k \in DOMAIN p.steps : j < k => p.steps[j] <= p.steps[k]

\* When the engine gives an unedited ladder up as exhausted, every rung of every
\* round has been paged, whatever storage errors and crashes came between a page
\* and its upsert and however often the incident was acknowledged and reopened
\* (next_step over the row advance_state leaves).
NoRungSkipped ==
    pc = "exhausted" /\ ~edited /\ Climbs(policy) =>
        \A r \in 0 .. policy.repeat_count, k \in DOMAIN policy.steps :
            \E n \in DOMAIN pageLog[cur] :
                pageLog[cur][n] = [round |-> r, level |-> policy.steps[k]]

\* After an incident ends, the page the engine was already sending is the last
\* one, whether or not the handler that ended it also deleted the row.
AtMostOnePageAfterEnd ==
    \A i \in Incidents : lateEnd[i] <= 1

\* The engine is working on a snapshot of i's row.
InFlight(i) == batch[i] # NoRow

\* An acknowledgement that lands on a row while the engine is not working on it
\* holds: the row stays acknowledged until it is deleted, and is not picked up.
SettledAckHolds ==
    [][\A i \in Incidents :
          row[i] # NoRow /\ row[i].acked /\ ~InFlight(i)
          /\ [inc |-> i, op |-> "seed"] \notin followUp =>
              /\ ~InFlight(i)'
              /\ row'[i] # NoRow => row'[i].acked]_vars

\* escalation_engine.rs: the engine skips acknowledged rows, so an acknowledged
\* row stays acknowledged for as long as it is there.
AckNotLost ==
    [][\A i \in Incidents :
          row[i] # NoRow /\ row[i].acked /\ row'[i] # NoRow => row'[i].acked]_vars

\* An unacknowledged row does not stay for ever: the ladder is walked to its end,
\* unless the row is acknowledged or the policy deleted.
LadderEnds ==
    \A i \in Incidents :
        (row[i] # NoRow /\ ~row[i].acked) ~>
            (row[i] = NoRow \/ row[i].acked \/ policy = NoPolicy)

\* A crash took the seed of i away before it was a row.
SeedLost(i) ==
    faults > 0 /\ [inc |-> i, op |-> "seed"] \notin followUp /\ row[i] = NoRow

\* An auto-opened incident is paged, through edits and storage errors, unless it
\* ends, is acknowledged or has no ladder, or its seed is lost: the seed that
\* follows the open is picked up by the engine.
OpenIsPaged ==
    \A i \in Incidents :
        ([inc |-> i, op |-> "seed"] \in followUp) ~>
            \/ pageLog[i] # <<>>
            \/ SeedLost(i)
            \/ i \in everEnded
            \/ i \in acknowledged
            \/ policy = NoPolicy
            \/ policy.steps = <<>>
=============================================================================
