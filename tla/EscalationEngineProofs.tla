------------------------ MODULE EscalationEngineProofs ------------------------
(***************************************************************************)
(* Proofs about EscalationEngine for any incidents, any set of policies the *)
(* API accepts (sorted or not), edits included.                             *)
(***************************************************************************)
EXTENDS EscalationEngine, FiniteSetTheorems, TLAPS

\* next_step never stays where it is: what it decides to page comes strictly
\* after the rung it was given, for every step list the API accepts.
LEMMA NextStepAdvances ==
  ASSUME NEW p, ValidPolicy(p), NEW level \in Nat, NEW round \in Nat, NEW d,
         NextStep(p, level, round, d)
  PROVE  /\ d \in Rung
         /\ d = Exhausted \/ (d.level > 0 /\ Before([round |-> round, level |-> level], d))
<1>1. CASE \E k \in DOMAIN p.steps :
             NextIndex(p.steps, level, k) /\ d = [round |-> round, level |-> p.steps[k]]
  BY <1>1 DEF NextIndex, ValidPolicy, Rung, Before
<1>2. CASE p.steps # <<>> /\ round < p.repeat_count /\ d = [round |-> round + 1, level |-> p.steps[1]]
  BY <1>2 DEF ValidPolicy, Rung, Before
<1>3. CASE d = Exhausted
  BY <1>3 DEF Exhausted, Rung
<1> QED
  BY <1>1, <1>2, <1>3 DEF NextStep

-----------------------------------------------------------------------------
(* Type correctness.                                                        *)

Busy == {"policy", "page", "persist", "drop", "exhausted"}

\* Types, and the one fact they need: inside advance_state there is a snapshot.
Base ==
    /\ TypeOK
    /\ pc \in Busy => batch[cur] # NoRow

\* The initial states satisfy Base.
LEMMA BaseInit == Init => Base
<1> SUFFICES ASSUME Init PROVE Base
  OBVIOUS
<1>1. edited \in BOOLEAN
  BY DEF Init
<1> QED
  BY <1>1, EscalationAssumption DEF Init, Base, Busy, TypeOK, Exhausted, Rung, Places

\* apply_incident_ops keeps the types of what it writes.
LEMMA OpsTypes ==
  ASSUME TypeOK, NEW i \in Incidents, NEW t, ApplyIncidentOps(i, t)
  PROVE  /\ incident' \in [Incidents -> {"none", "open", "ended"}]
         /\ acknowledged' \subseteq Incidents
         /\ everEnded' \subseteq Incidents
         /\ lateEnd' \in [Incidents -> Nat]
<1>1. CASE t = "acknowledge"
  BY <1>1 DEF TypeOK, ApplyIncidentOps
<1>2. CASE t = "resolve"
  BY <1>2 DEF TypeOK, ApplyIncidentOps
<1>3. CASE t = "reopen"
  <2>1. /\ incident' = [incident EXCEPT ![i] = "open"]
        /\ acknowledged' = acknowledged \ {i}
        /\ lateEnd' = [lateEnd EXCEPT ![i] = 0]
        /\ everEnded' = everEnded
    BY <1>3 DEF ApplyIncidentOps
  <2> QED
    BY <2>1 DEF TypeOK
<1> QED
  BY <1>1, <1>2, <1>3 DEF ApplyIncidentOps

\* Every step preserves Base.
LEMMA BaseStep == Base /\ [Next]_vars => Base'
<1> SUFFICES ASSUME Base, [Next]_vars PROVE Base'
  OBVIOUS
<1> USE EscalationAssumption DEF Base, Busy
<1>1. ASSUME NEW i \in Incidents, AutoOpen(i) \/ AutoClose(i) PROVE Base'
  <2>1. CASE AutoOpen(i)
    BY <2>1 DEF TypeOK, AutoOpen, FollowUps, engine, marks
  <2>2. CASE AutoClose(i)
    <3>1. incident' \in [Incidents -> {"none", "open", "ended"}] /\ followUp' \subseteq FollowUps
      BY <2>2 DEF TypeOK, AutoClose, FollowUps
    <3>2. everEnded' \subseteq Incidents
      BY <2>2 DEF TypeOK, AutoClose
    <3> QED
      BY <2>2, <3>1, <3>2 DEF TypeOK, AutoClose, engine
  <2> QED
    BY <1>1, <2>1, <2>2
<1>2. ASSUME NEW i \in Incidents, Seed(i) PROVE Base'
  BY <1>2 DEF TypeOK, Seed, Row, engine, marks
<1>3. ASSUME NEW i \in Incidents, DeleteState(i) PROVE Base'
  BY <1>3 DEF TypeOK, DeleteState, engine, marks
<1>4. ASSUME NEW i \in Incidents, AckState(i) PROVE Base'
  <2>1. CASE row[i] = NoRow
    BY <1>4, <2>1 DEF TypeOK, AckState, engine, marks
  <2>2. CASE row[i] # NoRow
    <3>1. row[i] \in Row
      BY <2>2 DEF TypeOK
    <3>2. [row[i] EXCEPT !.acked = TRUE] \in Row
      BY <3>1 DEF Row
    <3>3. row' \in [Incidents -> Row \cup {NoRow}]
      BY <1>4, <2>2, <3>2 DEF TypeOK, AckState
    <3> QED
      BY <1>4, <3>3 DEF TypeOK, AckState, engine, marks
  <2> QED
    BY <2>1, <2>2
<1>5. ASSUME NEW i \in Incidents, RowDue(i) PROVE Base'
  <2>1. row[i] \in Row
    BY <1>5 DEF TypeOK, RowDue
  <2>2. [row[i] EXCEPT !.due = TRUE] \in Row
    BY <2>1 DEF Row
  <2>3. row' \in [Incidents -> Row \cup {NoRow}]
    BY <1>5, <2>2 DEF TypeOK, RowDue
  <2> QED
    BY <1>5, <2>3 DEF TypeOK, RowDue, engine, marks
<1>6. ASSUME NEW i \in Incidents, NEW t \in Transitions, Shortcut(i, t) PROVE Base'
  <2>1. ApplyIncidentOps(i, t)
    BY <1>6 DEF Shortcut
  <2> QED
    BY <1>6, <2>1, OpsTypes DEF TypeOK, Shortcut, engine
<1>7. ASSUME NEW i \in Incidents, NEW t \in Transitions, OpsPatch(i, t) PROVE Base'
  <2>1. Mirror(i, t) \subseteq FollowUps
    BY DEF Mirror, FollowUps, Transitions
  <2>2. ApplyIncidentOps(i, t)
    BY <1>7 DEF OpsPatch
  <2> QED
    BY <1>7, <2>1, <2>2, OpsTypes DEF TypeOK, OpsPatch, engine
<1>8. CASE EditPolicy
  BY <1>8 DEF TypeOK, EditPolicy, engine, marks
<1>9. CASE Sweep
  BY <1>9 DEF TypeOK, Sweep, ListDue, Places, rows, marks
<1>10. ASSUME NEW i \in Incidents, LoadIncident(i) PROVE Base'
  BY <1>10 DEF TypeOK, LoadIncident, Places, Exhausted, Rung, rows, marks
<1>11. CASE Decide
  <2>1. CASE policy = NoPolicy
    BY <1>11, <2>1 DEF TypeOK, Decide, DoneWithCurrent, Places, rows, marks
  <2>2. CASE policy # NoPolicy
    <3>1. ValidPolicy(policy)
      BY <2>2 DEF TypeOK
    <3>2. batch[cur].level \in Nat /\ batch[cur].round \in Nat
      BY <1>11 DEF TypeOK, Row, Decide
    <3>3. NextStep(policy, batch[cur].level, batch[cur].round, decision')
      BY <1>11, <2>2 DEF Decide
    <3>4. decision' \in Rung
      BY <3>1, <3>2, <3>3, NextStepAdvances
    <3> QED
      BY <1>11, <2>2, <3>4 DEF TypeOK, Decide, Places, rows, marks
  <2> QED
    BY <2>1, <2>2
<1>12. CASE Page
  <2>1. pageLog' \in [Incidents -> Seq(Rung)]
    BY <1>12 DEF TypeOK, Page
  <2> QED
    BY <1>12, <2>1 DEF TypeOK, Page, Places, rows
<1>13. CASE Persist
  <2>1. batch[cur] \in Row
    BY <1>13 DEF TypeOK, Persist
  <2>2. [round |-> decision.round, level |-> decision.level,
         acked |-> batch[cur].acked, due |-> FALSE] \in Row
    BY <2>1 DEF TypeOK, Row, Rung
  <2> QED
    BY <1>13, <2>2 DEF TypeOK, Persist, DoneWithCurrent, Exhausted, Rung, Places, marks
<1>14. CASE Drop
  BY <1>14 DEF TypeOK, Drop, DoneWithCurrent, Places, marks
<1>15. CASE EndSweep
  BY <1>15 DEF TypeOK, EndSweep, Places, rows, marks
<1>16. CASE AdvanceFails
  BY <1>16 DEF TypeOK, AdvanceFails, DoneWithCurrent, Exhausted, Rung, Places, rows, marks
<1>17. CASE Crash
  BY <1>17 DEF TypeOK, Crash, Exhausted, Rung, Places, marks
<1>18. CASE UNCHANGED vars
  BY <1>18 DEF TypeOK, vars, rows, engine, marks
<1> QED
  BY <1>1, <1>2, <1>3, <1>4, <1>5, <1>6, <1>7, <1>8, <1>9, <1>10, <1>11, <1>12, <1>13,
     <1>14, <1>15, <1>16, <1>17, <1>18
     DEF Next, FollowUpStep, EngineStep

\* Base holds in every reachable state.
LEMMA BaseInvariance == Spec => []Base
  BY BaseInit, BaseStep, PTL DEF Spec

\* Type correctness of the rows, of the engine's locals and of the histories.
THEOREM TypeCorrect == Spec => []TypeOK
<1>1. Base => TypeOK
  BY DEF Base
<1> QED
  BY BaseInvariance, <1>1, PTL

-----------------------------------------------------------------------------
(* At most one page after the end.                                          *)

\* AtMostOnePageAfterEnd is not inductive: it does not say that the page in
\* flight has not been counted yet.  An incident that is not ended has no late
\* page, and neither has the one the engine found open.
LateInv ==
    /\ \A i \in Incidents : lateEnd[i] <= 1
    /\ \A i \in Incidents : incident[i] # "ended" => lateEnd[i] = 0
    /\ pc \in {"policy", "page"} => lateEnd[cur] = 0

\* Every step, faults included, preserves LateInv.
LEMMA LateStep == Base /\ LateInv /\ [Next]_vars => LateInv'
<1> SUFFICES ASSUME Base, LateInv, [Next]_vars PROVE LateInv'
  OBVIOUS
<1>1. ASSUME NEW i \in Incidents, AutoOpen(i) PROVE LateInv'
  BY <1>1 DEF Base, TypeOK, LateInv, AutoOpen, engine, marks
<1>2. ASSUME NEW i \in Incidents, AutoClose(i) PROVE LateInv'
  BY <1>2 DEF Base, TypeOK, LateInv, AutoClose, engine
<1>3. ASSUME NEW i \in Incidents, Seed(i) \/ DeleteState(i) \/ AckState(i) \/ RowDue(i)
      PROVE LateInv'
  BY <1>3 DEF LateInv, Seed, DeleteState, AckState, RowDue, engine, marks
<1>4. ASSUME NEW i \in Incidents, NEW t, ApplyIncidentOps(i, t), UNCHANGED engine PROVE LateInv'
  <2>1. CASE t = "acknowledge"
    BY <1>4, <2>1 DEF Base, TypeOK, LateInv, ApplyIncidentOps, engine
  <2>2. CASE t = "resolve"
    BY <1>4, <2>2 DEF Base, TypeOK, LateInv, ApplyIncidentOps, engine
  <2>3. CASE t = "reopen"
    <3>1. lateEnd' = [lateEnd EXCEPT ![i] = 0] /\ incident' = [incident EXCEPT ![i] = "open"]
      BY <1>4, <2>3 DEF ApplyIncidentOps
    <3> QED
      BY <1>4, <3>1 DEF Base, TypeOK, LateInv, engine
  <2> QED
    BY <1>4, <2>1, <2>2, <2>3 DEF ApplyIncidentOps
<1>5. CASE EditPolicy \/ Sweep \/ EndSweep \/ Persist \/ Drop \/ AdvanceFails \/ Crash
  BY <1>5 DEF LateInv, EditPolicy, Sweep, EndSweep, Persist, Drop, AdvanceFails, Crash,
              DoneWithCurrent, rows, engine, marks
<1>6. ASSUME NEW i \in Incidents, LoadIncident(i) PROVE LateInv'
  BY <1>6 DEF Base, TypeOK, LateInv, LoadIncident, rows, marks
<1>7. CASE Decide
  BY <1>7 DEF LateInv, Decide, DoneWithCurrent, rows, marks
<1>8. CASE Page
  BY <1>8 DEF Base, TypeOK, LateInv, Page, rows
<1>9. CASE UNCHANGED vars
  BY <1>9 DEF LateInv, vars, rows, engine, marks
<1> QED
  BY <1>1, <1>2, <1>3, <1>4, <1>5, <1>6, <1>7, <1>8, <1>9
     DEF Next, FollowUpStep, EngineStep, Shortcut, OpsPatch

\* Once an incident has ended, by whichever handler, the engine sends at most the
\* page it had already decided on, in every reachable state, faults included.
THEOREM OnePageAfterEnd == Spec => []AtMostOnePageAfterEnd
<1>1. Init => LateInv
  BY DEF Init, LateInv
<1>2. LateInv => AtMostOnePageAfterEnd
  BY DEF LateInv, AtMostOnePageAfterEnd
<1> QED
  BY <1>1, <1>2, LateStep, BaseInvariance, PTL DEF Spec

-----------------------------------------------------------------------------
(* Setbacks are paid for by faults.                                         *)

\* r is at or after the last page of i.
AtLastPage(i, r) ==
    pageLog[i] # <<>> => ~Before(r, pageLog[i][Len(pageLog[i])])

\* Nothing of i exists before its seed.
SeedInv(i) ==
    /\ [inc |-> i, op |-> "seed"] \in followUp => incident[i] # "none"
    /\ incident[i] = "none" \/ [inc |-> i, op |-> "seed"] \in followUp =>
          row[i] = NoRow /\ batch[i] = NoRow /\ pageLog[i] = <<>>

\* What the engine has decided comes after its snapshot, and what it has paged is
\* the last page.
WalkInv ==
    /\ pc = "page" => Before(batch[cur], decision)
    /\ pc = "persist" => pageLog[cur] # <<>> /\ pageLog[cur][Len(pageLog[cur])] = decision

\* The row or the snapshot of i is behind its last page, and no upsert is on its
\* way: the next page of i may be a setback.
Behind(i) ==
    /\ ~(pc = "persist" /\ cur = i)
    /\ \/ row[i] # NoRow /\ ~AtLastPage(i, row[i])
       \/ batch[i] # NoRow /\ ~AtLastPage(i, batch[i])

AllSetbacks == UNION {Setbacks(i) : i \in Incidents}
BehindSet == {i \in Incidents : Behind(i)}

\* SetbacksNeedFaults is not inductive: every setback, and every incident that is
\* behind and so may have one, is paid for by a fault of its own.
Budget ==
    /\ IsFiniteSet(AllSetbacks) /\ IsFiniteSet(BehindSet)
    /\ Cardinality(AllSetbacks) + Cardinality(BehindSet) <= faults
    /\ faults <= MaxFaults

Order == WalkInv /\ \A i \in Incidents : SeedInv(i)
Ladder == Order /\ Budget

\* Only a page changes the pages, and only the engine its decision.
LEMMA OrderStep == Base /\ Order /\ [Next]_vars => Order'
<1> SUFFICES ASSUME Base, Order, [Next]_vars PROVE Order'
  OBVIOUS
<1> USE EscalationAssumption DEF Order
<1>1. ASSUME NEW i \in Incidents, AutoOpen(i) \/ AutoClose(i) PROVE Order'
  BY <1>1 DEF Base, TypeOK, WalkInv, SeedInv, AutoOpen, AutoClose, engine
<1>2. ASSUME NEW i \in Incidents, Seed(i) \/ DeleteState(i) PROVE Order'
  <2>1. /\ followUp' \subseteq followUp /\ UNCHANGED <<incident, engine, pageLog>>
        /\ \A j \in Incidents \ {i} : row'[j] = row[j]
    BY <1>2 DEF Seed, DeleteState, Base, TypeOK
  <2>2. WalkInv'
    BY <2>1 DEF WalkInv, engine
  <2>3. ASSUME NEW j \in Incidents, j # i PROVE SeedInv(j)'
    BY <2>1, <2>3 DEF SeedInv, engine
  <2>4. SeedInv(i)'
    <3>1. CASE Seed(i)
      <4>1. incident[i] # "none" /\ [inc |-> i, op |-> "seed"] \notin followUp'
        BY <3>1 DEF Seed, SeedInv
      <4> QED
        BY <2>1, <4>1 DEF SeedInv
    <3>2. CASE DeleteState(i)
      BY <2>1, <3>2 DEF DeleteState, SeedInv, Base, TypeOK, engine
    <3> QED
      BY <1>2, <3>1, <3>2
  <2> QED
    BY <2>2, <2>3, <2>4
<1>3. ASSUME NEW i \in Incidents, AckState(i) \/ RowDue(i) PROVE Order'
  <2>1. /\ followUp' \subseteq followUp /\ UNCHANGED <<incident, engine, pageLog>>
        /\ \A j \in Incidents : row[j] = NoRow => row'[j] = NoRow
    BY <1>3 DEF AckState, RowDue, Base, TypeOK
  <2>2. WalkInv'
    BY <2>1 DEF WalkInv, engine
  <2>3. ASSUME NEW j \in Incidents PROVE SeedInv(j)'
    BY <2>1 DEF SeedInv, engine
  <2> QED
    BY <2>2, <2>3
<1>4. ASSUME NEW i \in Incidents, NEW t \in Transitions, Shortcut(i, t) \/ OpsPatch(i, t)
      PROVE Order'
  <2>1. /\ UNCHANGED <<row, engine, pageLog>>
        /\ ApplyIncidentOps(i, t)
        /\ followUp' = followUp \/ followUp' = followUp \cup Mirror(i, t)
    BY <1>4 DEF Shortcut, OpsPatch
  <2>2. WalkInv'
    BY <2>1 DEF WalkInv, engine
  <2>3. ASSUME NEW j \in Incidents, incident'[j] = "none" PROVE incident[j] = "none"
    BY <2>1, <2>3 DEF Base, TypeOK, ApplyIncidentOps
  <2>4. ASSUME NEW j \in Incidents, [inc |-> j, op |-> "seed"] \in followUp'
        PROVE  [inc |-> j, op |-> "seed"] \in followUp
    BY <2>1, <2>4 DEF Mirror
  <2>5. ASSUME NEW j \in Incidents PROVE SeedInv(j)'
    BY <2>1, <2>3, <2>4 DEF SeedInv, engine
  <2> QED
    BY <2>2, <2>5
<1>5. CASE EditPolicy \/ EndSweep
  BY <1>5 DEF WalkInv, SeedInv, EditPolicy, EndSweep, rows, engine
<1>6. CASE Sweep \/ \E i \in Incidents : LoadIncident(i)
  BY <1>6 DEF Base, TypeOK, WalkInv, SeedInv, Sweep, LoadIncident, ListDue, rows
<1>7. CASE Decide
  <2>1. CASE policy = NoPolicy
    BY <1>7, <2>1 DEF Base, TypeOK, WalkInv, SeedInv, Decide, DoneWithCurrent, rows
  <2>2. CASE policy # NoPolicy
    <3>1. batch[cur] \in Row /\ ValidPolicy(policy)
      BY <1>7, <2>2 DEF Base, Busy, TypeOK, Decide
    <3>2. batch[cur].level \in Nat /\ batch[cur].round \in Nat
      BY <3>1 DEF Row
    <3>3. /\ NextStep(policy, batch[cur].level, batch[cur].round, decision')
          /\ pc' = IF decision' = Exhausted THEN "exhausted" ELSE "page"
          /\ UNCHANGED <<batch, cur, row, pageLog, incident, followUp>>
      BY <1>7, <2>2 DEF Decide, rows
    <3>4. decision' # Exhausted =>
             Before([round |-> batch[cur].round, level |-> batch[cur].level], decision')
      BY <3>1, <3>2, <3>3, NextStepAdvances
    <3>5. WalkInv'
      BY <3>3, <3>4 DEF WalkInv, Before
    <3> QED
      BY <3>3, <3>5 DEF SeedInv
  <2> QED
    BY <2>1, <2>2
<1>8. CASE Page
  <2>1. /\ pageLog[cur] \in Seq(Rung) /\ decision \in Rung /\ cur \in Incidents
        /\ batch[cur] # NoRow
    BY <1>8 DEF Base, Busy, TypeOK, Page
  <2>2. /\ pageLog'[cur] = Append(pageLog[cur], decision)
        /\ \A j \in Incidents \ {cur} : pageLog'[j] = pageLog[j]
        /\ pc' = "persist" /\ UNCHANGED <<incident, row, followUp, batch, cur, decision>>
    BY <1>8, <2>1 DEF Page, rows, Base, TypeOK
  <2>3. pageLog'[cur] # <<>> /\ pageLog'[cur][Len(pageLog'[cur])] = decision
    BY <2>1, <2>2
  <2>4. WalkInv'
    BY <2>2, <2>3 DEF WalkInv
  <2>5. ASSUME NEW j \in Incidents PROVE SeedInv(j)'
    BY <2>1, <2>2 DEF SeedInv
  <2> QED
    BY <2>4, <2>5
<1>9. CASE Persist \/ Drop \/ AdvanceFails
  <2>1. /\ batch[cur] # NoRow /\ batch' = [batch EXCEPT ![cur] = NoRow]
        /\ pc' = "loop" /\ UNCHANGED <<cur, incident, followUp, pageLog>>
        /\ \A j \in Incidents \ {cur} : row'[j] = row[j]
    BY <1>9 DEF Persist, Drop, AdvanceFails, DoneWithCurrent, rows, Base, Busy, TypeOK
  <2>2. WalkInv'
    BY <2>1 DEF WalkInv
  <2>3. ASSUME NEW j \in Incidents PROVE SeedInv(j)'
    BY <2>1 DEF SeedInv, Base, TypeOK
  <2> QED
    BY <2>2, <2>3
<1>10. CASE Crash
  BY <1>10 DEF WalkInv, SeedInv, Crash
<1>11. CASE UNCHANGED vars
  BY <1>11 DEF WalkInv, SeedInv, vars, rows, engine
<1> QED
  BY <1>1, <1>2, <1>3, <1>4, <1>5, <1>6, <1>7, <1>8, <1>9, <1>10, <1>11
     DEF Next, FollowUpStep, EngineStep

\* One element more.
LEMMA OneMore ==
  ASSUME NEW S, IsFiniteSet(S), NEW x
  PROVE  /\ IsFiniteSet(S \cup {x})
         /\ Cardinality(S \cup {x}) \in Nat /\ Cardinality(S) \in Nat
         /\ Cardinality(S \cup {x}) <= Cardinality(S) + 1
<1>1. Cardinality(S) \in Nat
  BY FS_CardinalityType
<1>2. /\ IsFiniteSet(S \cup {x})
      /\ Cardinality(S \cup {x}) = IF x \in S THEN Cardinality(S) ELSE Cardinality(S) + 1
  BY FS_AddElement
<1> QED
  BY <1>1, <1>2

\* A step that neither pages nor fails brings nobody behind.
LEMMA BudgetKept ==
  ASSUME Base, Budget, UNCHANGED pageLog, BehindSet' \subseteq BehindSet, UNCHANGED faults
  PROVE  Budget'
<1>1. AllSetbacks' = AllSetbacks
  BY DEF AllSetbacks, Setbacks
<1>2. /\ IsFiniteSet(BehindSet') /\ Cardinality(BehindSet') <= Cardinality(BehindSet)
      /\ Cardinality(BehindSet') \in Nat /\ Cardinality(BehindSet) \in Nat
  BY FS_Subset, FS_CardinalityType DEF Budget
<1>3. Cardinality(AllSetbacks) \in Nat
  BY FS_CardinalityType DEF Budget
<1>4. faults' = faults /\ faults \in Nat
  BY DEF Base, TypeOK
<1> QED
  BY <1>1, <1>2, <1>3, <1>4 DEF Budget

\* A fault brings at most the incident the engine was working on behind.
LEMMA BudgetFault ==
  ASSUME Base, Budget, UNCHANGED pageLog, faults < MaxFaults, faults' = faults + 1,
         BehindSet' \subseteq BehindSet \cup {cur}
  PROVE  Budget'
<1>1. AllSetbacks' = AllSetbacks
  BY DEF AllSetbacks, Setbacks
<1>2. /\ IsFiniteSet(BehindSet \cup {cur})
      /\ Cardinality(BehindSet \cup {cur}) <= Cardinality(BehindSet) + 1
      /\ Cardinality(BehindSet) \in Nat
  BY OneMore DEF Budget
<1>3. /\ IsFiniteSet(BehindSet') /\ Cardinality(BehindSet') <= Cardinality(BehindSet \cup {cur})
      /\ Cardinality(BehindSet') \in Nat /\ Cardinality(BehindSet \cup {cur}) \in Nat
  BY <1>2, FS_Subset, FS_CardinalityType
<1>4. Cardinality(AllSetbacks) \in Nat /\ faults \in Nat /\ MaxFaults \in Nat
  BY FS_CardinalityType, EscalationAssumption DEF Budget, Base, TypeOK
<1> QED
  BY <1>1, <1>2, <1>3, <1>4 DEF Budget

\* A page is a setback only of an incident that was behind, which it catches up.
LEMMA BudgetPage ==
  ASSUME Base, Order, Budget, Page
  PROVE  Budget'
<1> USE DEF Order
<1>a. PICK n \in Nat : n = Len(pageLog[cur])
  BY DEF Base, TypeOK
<1>1. /\ pageLog[cur] \in Seq(Rung) /\ decision \in Rung /\ cur \in Incidents
      /\ batch[cur] \in Row /\ batch[cur] # NoRow
  BY DEF Base, Busy, TypeOK, Page
<1>2. /\ pageLog'[cur] = Append(pageLog[cur], decision)
      /\ \A j \in Incidents \ {cur} : pageLog'[j] = pageLog[j]
      /\ pc = "page" /\ pc' = "persist"
      /\ UNCHANGED <<row, batch, cur, faults>>
  BY <1>1 DEF Page, rows, Base, TypeOK
<1>3. /\ Len(pageLog'[cur]) = n + 1
      /\ pageLog'[cur][n + 1] = decision
      /\ \A k \in 1 .. n : pageLog'[cur][k] = pageLog[cur][k]
  BY <1>a, <1>1, <1>2
<1>4. /\ cur \notin BehindSet'
      /\ BehindSet' \subseteq BehindSet
  <2>1. cur \notin BehindSet'
    BY <1>2 DEF BehindSet, Behind
  <2>2. ASSUME NEW j \in Incidents, j # cur, Behind(j)' PROVE Behind(j)
    BY <1>2, <2>2 DEF Behind, AtLastPage
  <2> QED
    BY <2>1, <2>2 DEF BehindSet
<1>5. \A j \in Incidents \ {cur} : Setbacks(j)' = Setbacks(j)
  BY <1>2 DEF Setbacks
<1>6. Setbacks(cur)' \subseteq Setbacks(cur) \cup {<<cur, n>>}
  <2>1. Setbacks(cur)' = {<<cur, k>> : k \in {m \in 1 .. n : ~Before(pageLog'[cur][m], pageLog'[cur][m + 1])}}
    <3>1. cur' = cur /\ Len(pageLog'[cur]) - 1 = n
      BY <1>a, <1>2, <1>3
    <3> QED
      BY <3>1 DEF Setbacks
  <2>2. Setbacks(cur) = {<<cur, k>> : k \in {m \in 1 .. n - 1 : ~Before(pageLog[cur][m], pageLog[cur][m + 1])}}
    BY <1>a DEF Setbacks
  <2>3. ASSUME NEW k \in 1 .. n, ~Before(pageLog'[cur][k], pageLog'[cur][k + 1]), k # n
        PROVE  k \in 1 .. n - 1 /\ ~Before(pageLog[cur][k], pageLog[cur][k + 1])
    <3>1. k \in 1 .. n - 1 /\ k + 1 \in 1 .. n
      BY <1>a, <2>3
    <3> QED
      BY <1>3, <2>3, <3>1
  <2> QED
    BY <2>1, <2>2, <2>3
<1>7. AllSetbacks' \subseteq AllSetbacks \cup {<<cur, n>>}
  BY <1>1, <1>2, <1>5, <1>6 DEF AllSetbacks
<1>8. cur \notin BehindSet => <<cur, n>> \notin AllSetbacks'
  <2> SUFFICES ASSUME cur \notin BehindSet, <<cur, n>> \in AllSetbacks' PROVE FALSE
    OBVIOUS
  <2>1. <<cur, n>> \in Setbacks(cur)'
    BY <1>2 DEF AllSetbacks, Setbacks
  <2>2. n \in 1 .. n /\ ~Before(pageLog'[cur][n], pageLog'[cur][n + 1])
    BY <1>a, <1>2, <1>3, <2>1 DEF Setbacks
  <2>3. pageLog[cur] # <<>> /\ pageLog[cur][n] \in Rung /\ ~Before(pageLog[cur][n], decision)
    BY <1>a, <1>1, <1>3, <2>2
  <2>4. ~Before(batch[cur], pageLog[cur][n])
    BY <1>a, <1>1, <1>2, <2>3 DEF BehindSet, Behind, AtLastPage
  <2>5. Before(batch[cur], decision)
    BY <1>2 DEF WalkInv
  <2>6. /\ batch[cur].round \in Nat /\ batch[cur].level \in Nat
        /\ pageLog[cur][n].round \in Nat /\ pageLog[cur][n].level \in Nat
        /\ decision.round \in Nat /\ decision.level \in Nat
    BY <1>1, <2>3 DEF Row, Rung
  <2> QED
    BY <2>3, <2>4, <2>5, <2>6 DEF Before
<1>9. /\ IsFiniteSet(AllSetbacks \cup {<<cur, n>>})
      /\ Cardinality(AllSetbacks \cup {<<cur, n>>}) <= Cardinality(AllSetbacks) + 1
      /\ Cardinality(AllSetbacks) \in Nat /\ Cardinality(BehindSet) \in Nat
  BY OneMore, FS_CardinalityType DEF Budget
<1>10. /\ IsFiniteSet(AllSetbacks') /\ IsFiniteSet(BehindSet')
       /\ Cardinality(AllSetbacks') \in Nat /\ Cardinality(BehindSet') \in Nat
  BY <1>4, <1>7, <1>9, FS_Subset, FS_CardinalityType DEF Budget
<1>11. Cardinality(AllSetbacks') + Cardinality(BehindSet') <= Cardinality(AllSetbacks) + Cardinality(BehindSet)
  <2>1. CASE cur \notin BehindSet
    <3>1. AllSetbacks' \in SUBSET AllSetbacks /\ BehindSet' \in SUBSET BehindSet
      BY <1>4, <1>7, <1>8, <2>1
    <3>2. /\ Cardinality(AllSetbacks') <= Cardinality(AllSetbacks)
          /\ Cardinality(BehindSet') <= Cardinality(BehindSet)
      BY <3>1, FS_Subset DEF Budget
    <3> QED
      BY <1>9, <1>10, <3>2
  <2>2. CASE cur \in BehindSet
    <3>1. /\ Cardinality(BehindSet \ {cur}) = Cardinality(BehindSet) - 1
          /\ IsFiniteSet(BehindSet \ {cur})
      BY <2>2, FS_RemoveElement DEF Budget
    <3>2. BehindSet' \in SUBSET (BehindSet \ {cur})
      BY <1>4
    <3>3. Cardinality(BehindSet') <= Cardinality(BehindSet) - 1
      BY <3>1, <3>2, FS_Subset
    <3>4. Cardinality(AllSetbacks') <= Cardinality(AllSetbacks \cup {<<cur, n>>})
      BY <1>7, <1>9, FS_Subset
    <3>5. Cardinality(AllSetbacks \cup {<<cur, n>>}) \in Nat
      BY <1>9, FS_CardinalityType
    <3> QED
      BY <1>9, <1>10, <3>3, <3>4, <3>5
  <2> QED
    BY <2>1, <2>2
<1> QED
  BY <1>2, <1>9, <1>10, <1>11, EscalationAssumption DEF Budget, Base, TypeOK

\* Of all steps only a fault adds to what is owed.
LEMMA BudgetStep == Base /\ Ladder /\ [Next]_vars => Budget'
<1> SUFFICES ASSUME Base, Ladder, [Next]_vars PROVE Budget'
  OBVIOUS
<1> USE EscalationAssumption DEF Ladder, Order
<1>1. ASSUME NEW i \in Incidents, Seed(i) PROVE Budget'
  <2>1. /\ pageLog[i] = <<>> /\ UNCHANGED <<engine, pageLog, faults>>
        /\ \A j \in Incidents \ {i} : row'[j] = row[j]
    BY <1>1 DEF Seed, SeedInv, Base, TypeOK
  <2>2. ASSUME NEW j \in Incidents, Behind(j)' PROVE Behind(j)
    BY <2>1, <2>2 DEF Behind, AtLastPage, engine
  <2> QED
    BY <2>1, <2>2, BudgetKept DEF BehindSet
<1>2. ASSUME NEW i \in Incidents, DeleteState(i) PROVE Budget'
  <2>1. /\ row'[i] = NoRow /\ UNCHANGED <<engine, pageLog, faults>>
        /\ \A j \in Incidents \ {i} : row'[j] = row[j]
    BY <1>2 DEF DeleteState, Base, TypeOK
  <2>2. ASSUME NEW j \in Incidents, Behind(j)' PROVE Behind(j)
    BY <2>1, <2>2 DEF Behind, AtLastPage, engine
  <2> QED
    BY <2>1, <2>2, BudgetKept DEF BehindSet
<1>3. ASSUME NEW i \in Incidents, AckState(i) \/ RowDue(i) PROVE Budget'
  <2>1. /\ UNCHANGED <<engine, pageLog, faults>>
        /\ \A j \in Incidents : row'[j] # NoRow =>
              row[j] # NoRow /\ row'[j].round = row[j].round /\ row'[j].level = row[j].level
    <3>1. CASE row[i] = NoRow
      BY <1>3, <3>1 DEF AckState, RowDue
    <3>2. CASE row[i] # NoRow
      <4>1. row[i] \in Row
        BY <3>2 DEF Base, TypeOK
      <4>2. \/ row' = [row EXCEPT ![i] = [row[i] EXCEPT !.acked = TRUE]]
            \/ row' = [row EXCEPT ![i] = [row[i] EXCEPT !.due = TRUE]]
        BY <1>3, <3>2 DEF AckState, RowDue
      <4>3. row'[i].round = row[i].round /\ row'[i].level = row[i].level
        BY <4>1, <4>2 DEF Row, Base, TypeOK
      <4>4. \A j \in Incidents \ {i} : row'[j] = row[j]
        BY <4>2 DEF Base, TypeOK
      <4> QED
        BY <1>3, <3>2, <4>3, <4>4 DEF AckState, RowDue
    <3> QED
      BY <3>1, <3>2
  <2>2. ASSUME NEW j \in Incidents, Behind(j)' PROVE Behind(j)
    BY <2>1, <2>2 DEF Behind, AtLastPage, Before, engine
  <2> QED
    BY <2>1, <2>2, BudgetKept DEF BehindSet
<1>4. ASSUME UNCHANGED <<row, engine, pageLog, faults>> PROVE Budget'
  <2>1. BehindSet' = BehindSet
    BY <1>4 DEF BehindSet, Behind, AtLastPage, engine
  <2> QED
    BY <1>4, <2>1, BudgetKept
<1>5. CASE Sweep
  <2>1. /\ pc = "idle" /\ pc' = "loop" /\ UNCHANGED <<row, cur, pageLog, faults>>
        /\ \A j \in Incidents : batch'[j] # NoRow => row[j] # NoRow /\ batch'[j] = row[j]
    BY <1>5 DEF Sweep, ListDue, rows
  <2>2. ASSUME NEW j \in Incidents, Behind(j)' PROVE Behind(j)
    BY <2>1, <2>2 DEF Behind, AtLastPage
  <2> QED
    BY <2>1, <2>2, BudgetKept DEF BehindSet
<1>6. CASE (\E i \in Incidents : LoadIncident(i)) \/ Decide \/ EndSweep
  <2>1. /\ pc # "persist" /\ UNCHANGED <<row, pageLog, faults>>
        /\ \A j \in Incidents : batch'[j] # NoRow => batch'[j] = batch[j]
    BY <1>6 DEF LoadIncident, Decide, EndSweep, DoneWithCurrent, rows, Base, TypeOK
  <2>2. ASSUME NEW j \in Incidents, Behind(j)' PROVE Behind(j)
    BY <2>1, <2>2 DEF Behind, AtLastPage
  <2> QED
    BY <2>1, <2>2, BudgetKept DEF BehindSet
<1>7. CASE Persist
  <2>1. /\ row'[cur] = [round |-> decision.round, level |-> decision.level,
                         acked |-> batch[cur].acked, due |-> FALSE]
        /\ batch'[cur] = NoRow
        /\ \A j \in Incidents \ {cur} : row'[j] = row[j] /\ batch'[j] = batch[j]
        /\ pc = "persist" /\ pc' = "loop" /\ UNCHANGED <<cur, pageLog, faults>>
    BY <1>7 DEF Persist, DoneWithCurrent, Base, TypeOK
  <2>2. ASSUME NEW j \in Incidents, j # cur, Behind(j)' PROVE Behind(j)
    BY <2>1, <2>2 DEF Behind, AtLastPage
  <2>3. ~Behind(cur)'
    <3>1. pageLog[cur] # <<>> /\ pageLog[cur][Len(pageLog[cur])] = decision
      BY <2>1 DEF WalkInv
    <3>2. decision.round \in Nat /\ decision.level \in Nat
      BY DEF Base, TypeOK, Rung
    <3>3. row'[cur].round = decision.round /\ row'[cur].level = decision.level
      BY <2>1
    <3> QED
      BY <2>1, <3>1, <3>2, <3>3 DEF Behind, AtLastPage, Before
  <2> QED
    BY <2>1, <2>2, <2>3, BudgetKept DEF BehindSet
<1>8. CASE Drop
  <2>1. /\ row'[cur] = NoRow /\ batch'[cur] = NoRow
        /\ \A j \in Incidents \ {cur} : row'[j] = row[j] /\ batch'[j] = batch[j]
        /\ pc # "persist" /\ UNCHANGED <<cur, pageLog, faults>>
    BY <1>8 DEF Drop, DoneWithCurrent, Base, TypeOK
  <2>2. ASSUME NEW j \in Incidents, Behind(j)' PROVE Behind(j)
    BY <2>1, <2>2 DEF Behind, AtLastPage
  <2> QED
    BY <2>1, <2>2, BudgetKept DEF BehindSet
<1>9. CASE AdvanceFails \/ Crash
  <2>1. /\ UNCHANGED <<row, cur, pageLog>> /\ faults < MaxFaults /\ faults' = faults + 1
        /\ \A j \in Incidents : batch'[j] # NoRow => batch'[j] = batch[j]
    BY <1>9 DEF AdvanceFails, Crash, DoneWithCurrent, rows, Base, TypeOK
  <2>2. ASSUME NEW j \in Incidents, j # cur, Behind(j)' PROVE Behind(j)
    BY <2>1, <2>2 DEF Behind, AtLastPage
  <2> QED
    BY <2>1, <2>2, BudgetFault DEF BehindSet
<1> QED
  BY <1>1, <1>2, <1>3, <1>4, <1>5, <1>6, <1>7, <1>8, <1>9, BudgetPage
     DEF Next, FollowUpStep, EngineStep, AutoOpen, AutoClose, Shortcut, OpsPatch, EditPolicy, vars, rows

\* At the start nothing is owed.
LEMMA LadderInitial == Init => Ladder
<1> SUFFICES ASSUME Init PROVE Ladder
  OBVIOUS
<1>1. Order
  BY DEF Init, Order, WalkInv, SeedInv
<1>2. AllSetbacks = {} /\ BehindSet = {}
  BY DEF Init, AllSetbacks, Setbacks, BehindSet, Behind
<1> QED
  BY <1>1, <1>2, FS_EmptySet, EscalationAssumption DEF Init, Ladder, Budget

LEMMA LadderInvariance == Spec => [](Base /\ Ladder)
<1>1. Base /\ Ladder /\ [Next]_vars => Ladder'
  BY OrderStep, BudgetStep DEF Ladder
<1> QED
  BY <1>1, LadderInitial, BaseInvariance, PTL DEF Spec

\* However operators acknowledge, reopen and edit the policy, and wherever storage
\* calls fail or the process dies, a page that does not go beyond the one before is
\* owed to a fault, and no two such pages to the same (advance_state pages before
\* it writes the row).
THEOREM SetbacksArePaidFor == Spec => []SetbacksNeedFaults
<1>1. ASSUME Base, Ladder PROVE SetbacksNeedFaults
  <2>1. Cardinality(AllSetbacks) \in Nat /\ Cardinality(BehindSet) \in Nat
    BY <1>1, FS_CardinalityType DEF Ladder, Budget
  <2> QED
    BY <1>1, <2>1 DEF Base, TypeOK, Ladder, Budget, SetbacksNeedFaults, AllSetbacks
<1> QED
  BY <1>1, LadderInvariance, PTL
-----------------------------------------------------------------------------
(* No rung is skipped.                                                      *)

Paged(i, r, k) ==
    \E n \in DOMAIN pageLog[i] : pageLog[i][n] = [round |-> r, level |-> policy.steps[k]]

WalkDone ==
    pc = "exhausted" => \A r \in 0 .. policy.repeat_count, k \in DOMAIN policy.steps : Paged(cur, r, k)

\* Every rung of the policy up to `at`, in the order of the walk, has been paged.
Covered(i, at) ==
    \A r \in Nat, k \in DOMAIN policy.steps :
        ~Before(at, [round |-> r, level |-> policy.steps[k]]) => Paged(i, r, k)

\* NoRungSkipped is not inductive: a row stands for everything below it, and so
\* does the snapshot the engine decides from.
ClimbInv ==
    /\ policy \in Policies
    /\ \A i \in Incidents : row[i] # NoRow => Covered(i, row[i])
    /\ \A i \in Incidents : batch[i] # NoRow => Covered(i, batch[i])
    /\ pc = "page" =>
          \A r \in Nat, k \in DOMAIN policy.steps :
              Before([round |-> r, level |-> policy.steps[k]], decision) => Paged(cur, r, k)
    /\ pc = "persist" => Covered(cur, decision)
    /\ WalkDone

\* A fresh row stands for nothing: levels are positive.
LEMMA FreshCovers ==
  ASSUME policy \in Policies, NEW i, NEW at, at.round = 0, at.level = 0
  PROVE  Covered(i, at)
<1> SUFFICES ASSUME NEW r \in Nat, NEW k \in DOMAIN policy.steps
             PROVE  Before(at, [round |-> r, level |-> policy.steps[k]])
  BY DEF Covered
<1>1. policy.steps[k] \in Nat \ {0}
  BY EscalationAssumption DEF ValidPolicy
<1> QED
  BY <1>1 DEF Before

\* next_step goes on with the next rung: below it there is only what the row it
\* was given stands for, and when it gives up that is everything.
LEMMA DecideCovers ==
  ASSUME Climbs(policy), policy \in Policies, NEW i, NEW L \in Nat, NEW R \in Nat, NEW d,
         Covered(i, [round |-> R, level |-> L]), NextStep(policy, L, R, d)
  PROVE  /\ d # Exhausted => \A r \in Nat, k \in DOMAIN policy.steps :
               Before([round |-> r, level |-> policy.steps[k]], d) => Paged(i, r, k)
         /\ d = Exhausted => \A r \in 0 .. policy.repeat_count, k \in DOMAIN policy.steps : Paged(i, r, k)
<1>0. /\ policy.repeat_count \in Nat
      /\ \A k \in DOMAIN policy.steps : policy.steps[k] \in Nat \ {0} /\ k \in Nat /\ k >= 1
      /\ policy.steps # <<>> => 1 \in DOMAIN policy.steps
  BY EscalationAssumption DEF ValidPolicy
<1>1. \A r \in Nat, k \in DOMAIN policy.steps : r < R => Paged(i, r, k)
  BY <1>0 DEF Covered, Before
<1>2. \A k \in DOMAIN policy.steps : policy.steps[k] <= L => Paged(i, R, k)
  BY <1>0 DEF Covered, Before
<1>3. ASSUME NEW n \in DOMAIN policy.steps, NextIndex(policy.steps, L, n),
             d = [round |-> R, level |-> policy.steps[n]]
      PROVE  /\ d # Exhausted
             /\ \A r \in Nat, k \in DOMAIN policy.steps :
                   Before([round |-> r, level |-> policy.steps[k]], d) => Paged(i, r, k)
  <2>1. d # Exhausted
    BY <1>0, <1>3 DEF Exhausted
  <2>2. ASSUME NEW k \in DOMAIN policy.steps, policy.steps[k] < policy.steps[n]
        PROVE  policy.steps[k] <= L
    <3>1. k < n
      BY <1>0, <2>2 DEF Climbs
    <3> QED
      BY <1>3, <3>1 DEF NextIndex
  <2> QED
    BY <1>0, <1>1, <1>2, <1>3, <2>1, <2>2 DEF Before
<1>4. CASE /\ \A k \in DOMAIN policy.steps : policy.steps[k] <= L
           /\ policy.steps # <<>> /\ R < policy.repeat_count
           /\ d = [round |-> R + 1, level |-> policy.steps[1]]
  <2>1. d # Exhausted
    BY <1>0, <1>4 DEF Exhausted
  <2>2. \A k \in DOMAIN policy.steps : policy.steps[1] <= policy.steps[k]
    BY <1>0, <1>4 DEF Climbs
  <2> QED
    BY <1>0, <1>1, <1>2, <1>4, <2>1, <2>2 DEF Before
<1>5. CASE /\ \A k \in DOMAIN policy.steps : policy.steps[k] <= L
           /\ ~(policy.steps # <<>> /\ R < policy.repeat_count)
           /\ d = Exhausted
  BY <1>0, <1>1, <1>2, <1>5
<1> QED
  BY <1>3, <1>4, <1>5 DEF NextStep

\* Only an edit moves the policy, and it is remembered.
LEMMA Unedited ==
  ASSUME [Next]_vars, edited' = FALSE
  PROVE  edited = FALSE /\ policy' = policy
BY DEF Next, FollowUpStep, EngineStep, AutoOpen, AutoClose, Seed, DeleteState, AckState, Shortcut, OpsPatch,
   RowDue, EditPolicy, Sweep, LoadIncident, Decide, Page, Persist, Drop, EndSweep, AdvanceFails, Crash,
   vars, rows, marks

\* Every step, faults included, preserves ClimbInv when it leaves the policy alone.
LEMMA ClimbStep ==
  ASSUME Base, ClimbInv, [Next]_vars, Climbs(policy), policy' = policy
  PROVE  ClimbInv'
<1>0. policy \in Policies /\ policy # NoPolicy /\ policy' = policy
  BY EscalationAssumption DEF ClimbInv
<1>1. ASSUME UNCHANGED pageLog PROVE \A j \in Incidents : \A at : Covered(j, at) => Covered(j, at)'
  BY <1>0, <1>1 DEF Covered, Paged
<1>2. ASSUME NEW i \in Incidents, Seed(i) \/ DeleteState(i) \/ AckState(i) \/ RowDue(i) PROVE ClimbInv'
  <2>1. UNCHANGED <<engine, pageLog>>
    BY <1>2 DEF Seed, DeleteState, AckState, RowDue
  <2>2. \A j \in Incidents \ {i} : row'[j] = row[j]
    BY <1>2 DEF Seed, DeleteState, AckState, RowDue, Base, TypeOK
  <2>3. \/ row'[i] = NoRow
        \/ row'[i].round = 0 /\ row'[i].level = 0
        \/ row[i] # NoRow /\ row'[i].round = row[i].round /\ row'[i].level = row[i].level
    <3>1. CASE row[i] = NoRow
      BY <1>2, <3>1 DEF Seed, DeleteState, AckState, RowDue, Base, TypeOK
    <3>2. CASE row[i] # NoRow
      <4>1. row[i] \in Row
        BY <3>2 DEF Base, TypeOK
      <4>2. \/ row' = [row EXCEPT ![i] = NoRow]
            \/ row' = [row EXCEPT ![i] = [round |-> 0, level |-> 0, acked |-> FALSE, due |-> FALSE]]
            \/ row' = [row EXCEPT ![i] = [row[i] EXCEPT !.acked = TRUE]]
            \/ row' = [row EXCEPT ![i] = [row[i] EXCEPT !.due = TRUE]]
        BY <1>2, <3>2 DEF Seed, DeleteState, AckState, RowDue
      <4> QED
        BY <3>2, <4>1, <4>2 DEF Row, Base, TypeOK
    <3> QED
      BY <3>1, <3>2
  <2>4. row'[i] # NoRow => Covered(i, row'[i])
    <3>1. CASE row'[i].round = 0 /\ row'[i].level = 0
      BY <1>0, <3>1, FreshCovers
    <3>2. CASE row[i] # NoRow /\ row'[i].round = row[i].round /\ row'[i].level = row[i].level
      BY <3>2 DEF ClimbInv, Covered, Before
    <3> QED
      BY <2>3, <3>1, <3>2
  <2>5. \A j \in Incidents : row'[j] # NoRow => Covered(j, row[j])'
    BY <1>1, <2>1, <2>2, <2>4 DEF ClimbInv
  <2>6. \A j \in Incidents : batch'[j] # NoRow => Covered(j, batch[j])'
    BY <1>1, <2>1 DEF ClimbInv, engine
  <2> QED
    BY <1>0, <2>1, <2>5, <2>6 DEF ClimbInv, Covered, Paged, WalkDone, engine
<1>3. ASSUME UNCHANGED <<row, engine, pageLog>> PROVE ClimbInv'
  <2>1. /\ row' = row /\ pageLog' = pageLog /\ policy' = policy
        /\ batch' = batch /\ pc' = pc /\ cur' = cur /\ decision' = decision
    BY <1>0, <1>3 DEF engine
  <2>2. WalkDone'
    BY <2>1 DEF ClimbInv, WalkDone, Paged
  <2>3. \A j \in Incidents : /\ row'[j] # NoRow => Covered(j, row[j])'
                             /\ batch'[j] # NoRow => Covered(j, batch[j])'
    BY <2>1, <1>1 DEF ClimbInv
  <2>4. pc' = "persist" => Covered(cur, decision)'
    BY <2>1 DEF ClimbInv, Covered, Paged
  <2>5. (pc = "page" => \A r \in Nat, k \in DOMAIN policy.steps :
            Before([round |-> r, level |-> policy.steps[k]], decision) => Paged(cur, r, k))'
    BY <2>1 DEF ClimbInv, Paged
  <2> QED
    BY <1>0, <2>2, <2>3, <2>4, <2>5 DEF ClimbInv
<1>4. CASE Sweep \/ EndSweep \/ Crash \/ \E i \in Incidents : LoadIncident(i)
  <2>1. /\ pc' \in {"loop", "idle", "policy", "drop"} /\ UNCHANGED <<row, pageLog>>
        /\ \A j \in Incidents : \/ batch'[j] = NoRow
                                \/ batch'[j] = batch[j]
                                \/ batch'[j] = row[j]
    BY <1>4 DEF Sweep, ListDue, EndSweep, Crash, LoadIncident, rows
  <2>2. \A j \in Incidents : row'[j] # NoRow => Covered(j, row[j])'
    BY <1>1, <2>1 DEF ClimbInv
  <2>3. \A j \in Incidents : batch'[j] # NoRow => Covered(j, batch[j])'
    BY <1>1, <2>1 DEF ClimbInv
  <2> QED
    BY <1>0, <2>1, <2>2, <2>3 DEF ClimbInv, WalkDone
<1>5. CASE Decide
  <2>1. batch[cur] \in Row /\ cur \in Incidents /\ batch[cur] # NoRow
    BY <1>5 DEF Base, Busy, TypeOK, Decide
  <2>2. PICK L \in Nat, R \in Nat : L = batch[cur].level /\ R = batch[cur].round
    BY <2>1 DEF Row
  <2>3. /\ NextStep(policy, L, R, decision')
        /\ pc' = IF decision' = Exhausted THEN "exhausted" ELSE "page"
        /\ UNCHANGED <<batch, cur, row, pageLog>>
    BY <1>0, <1>5, <2>2 DEF Decide, rows
  <2>4. Covered(cur, [round |-> R, level |-> L])
    BY <2>1, <2>2 DEF ClimbInv, Covered, Before
  <2>5. PICK d : d = decision'
    OBVIOUS
  <2>6. /\ d # Exhausted => \A r \in Nat, k \in DOMAIN policy.steps :
              Before([round |-> r, level |-> policy.steps[k]], d) => Paged(cur, r, k)
        /\ d = Exhausted => \A r \in 0 .. policy.repeat_count, k \in DOMAIN policy.steps : Paged(cur, r, k)
    BY <1>0, <2>3, <2>4, <2>5, DecideCovers
  <2>7. /\ \A j \in Incidents : row'[j] # NoRow => Covered(j, row[j])'
        /\ \A j \in Incidents : batch'[j] # NoRow => Covered(j, batch[j])'
    BY <1>1, <2>3 DEF ClimbInv
  <2>8. \A r \in Nat, k \in DOMAIN policy.steps : Paged(cur, r, k) => Paged(cur, r, k)'
    BY <1>0, <2>3 DEF Paged
  <2>9. pc' = "page" => \A r \in Nat, k \in DOMAIN policy'.steps :
              Before([round |-> r, level |-> policy'.steps[k]], decision') => Paged(cur, r, k)'
    BY <1>0, <2>3, <2>5, <2>6, <2>8
  <2>10. WalkDone'
    BY <1>0, <2>3, <2>5, <2>6 DEF WalkDone, Paged
  <2> QED
    BY <1>0, <2>3, <2>7, <2>9, <2>10 DEF ClimbInv
<1>6. CASE Page
  <2>1. pageLog[cur] \in Seq(Rung) /\ decision \in Rung /\ cur \in Incidents
    BY DEF Base, TypeOK
  <2>2. /\ pageLog'[cur] = Append(pageLog[cur], decision)
        /\ \A j \in Incidents \ {cur} : pageLog'[j] = pageLog[j]
        /\ pc = "page" /\ pc' = "persist" /\ UNCHANGED <<row, batch, cur, decision>>
    BY <1>6, <2>1 DEF Page, rows, Base, TypeOK
  <2>3. PICK m \in Nat : /\ m = Len(pageLog[cur]) /\ DOMAIN pageLog[cur] = 1 .. m
                         /\ DOMAIN pageLog'[cur] = 1 .. m + 1 /\ pageLog'[cur][m + 1] = decision
                         /\ \A n \in 1 .. m : pageLog'[cur][n] = pageLog[cur][n]
    <3>1. Len(pageLog[cur]) \in Nat /\ DOMAIN pageLog[cur] = 1 .. Len(pageLog[cur])
      BY <2>1
    <3>2. /\ Len(pageLog'[cur]) = Len(pageLog[cur]) + 1 /\ pageLog'[cur] \in Seq(Rung)
          /\ pageLog'[cur][Len(pageLog[cur]) + 1] = decision
          /\ \A n \in 1 .. Len(pageLog[cur]) : pageLog'[cur][n] = pageLog[cur][n]
      BY <2>1, <2>2
    <3>3. DOMAIN pageLog'[cur] = 1 .. Len(pageLog[cur]) + 1
      BY <3>2
    <3> QED
      BY <3>1, <3>2, <3>3
  <2>4. \A j \in Incidents, r \in Nat, k \in DOMAIN policy.steps : Paged(j, r, k) => Paged(j, r, k)'
    <3>1. \A n \in DOMAIN pageLog[cur] : n \in DOMAIN pageLog'[cur] /\ pageLog'[cur][n] = pageLog[cur][n]
      BY <2>3
    <3> QED
      BY <1>0, <2>2, <3>1 DEF Paged
  <2>5. \A j \in Incidents : \A at : Covered(j, at) => Covered(j, at)'
    BY <1>0, <2>4 DEF Covered
  <2>6. Covered(cur, decision)'
    <3> SUFFICES ASSUME NEW r \in Nat, NEW k \in DOMAIN policy.steps,
                        ~Before(decision, [round |-> r, level |-> policy.steps[k]])
                 PROVE  Paged(cur, r, k)'
      BY <1>0, <2>2 DEF Covered
    <3>1. policy.steps[k] \in Nat /\ decision.round \in Nat /\ decision.level \in Nat
      BY <1>0, <2>1, EscalationAssumption DEF ValidPolicy, Rung
    <3>2. CASE Before([round |-> r, level |-> policy.steps[k]], decision)
      BY <2>1, <2>2, <2>4, <3>2 DEF ClimbInv
    <3>3. CASE r = decision.round /\ policy.steps[k] = decision.level
      <4>1. decision = [round |-> r, level |-> policy.steps[k]]
        BY <2>1, <3>3 DEF Rung
      <4>2. m + 1 \in DOMAIN pageLog'[cur]
        BY <2>3
      <4> QED
        BY <1>0, <2>2, <2>3, <4>1, <4>2 DEF Paged
    <3> QED
      BY <3>1, <3>2, <3>3 DEF Before
  <2> QED
    BY <1>0, <2>2, <2>5, <2>6 DEF ClimbInv, WalkDone
<1>7. CASE Persist \/ Drop \/ AdvanceFails
  <2>1. /\ pc' = "loop" /\ UNCHANGED <<cur, pageLog>> /\ cur \in Incidents
        /\ \A j \in Incidents : batch'[j] = NoRow \/ batch'[j] = batch[j]
        /\ \A j \in Incidents \ {cur} : row'[j] = row[j]
    BY <1>7 DEF Persist, Drop, AdvanceFails, DoneWithCurrent, rows, Base, TypeOK
  <2>2. row'[cur] # NoRow => Covered(cur, row'[cur])
    <3>1. CASE Persist
      <4>1. Covered(cur, decision) /\ row'[cur].round = decision.round /\ row'[cur].level = decision.level
        BY <3>1 DEF Persist, ClimbInv, Base, TypeOK
      <4> QED
        BY <4>1 DEF Covered, Before
    <3>2. CASE Drop \/ AdvanceFails
      BY <2>1, <3>2 DEF Drop, AdvanceFails, ClimbInv, rows, Base, TypeOK
    <3> QED
      BY <1>7, <3>1, <3>2
  <2>3. /\ \A j \in Incidents : row'[j] # NoRow => Covered(j, row[j])'
        /\ \A j \in Incidents : batch'[j] # NoRow => Covered(j, batch[j])'
    BY <1>1, <2>1, <2>2 DEF ClimbInv
  <2> QED
    BY <1>0, <2>1, <2>3 DEF ClimbInv, WalkDone
<1> QED
  BY <1>2, <1>3, <1>4, <1>5, <1>6, <1>7
     DEF Next, FollowUpStep, EngineStep, AutoOpen, AutoClose, Shortcut, OpsPatch, EditPolicy, vars, rows

\* When next_step gives a ladder up, every rung of every round of the policy has
\* been paged, for every ladder whose levels do not descend and that nobody edited,
\* through storage errors, crashes, acknowledgements and reopenings.
THEOREM LadderWalkedToTheEnd == Spec => []NoRungSkipped
<1> DEFINE Kept == ~edited /\ Climbs(policy)
           KeptInv == Kept => ClimbInv
<1>1. Init => KeptInv
  BY DEF Init, ClimbInv, WalkDone
<1>2. KeptInv => NoRungSkipped
  <2>1. CASE Kept
    BY <2>1 DEF ClimbInv, WalkDone, NoRungSkipped, Paged
  <2>2. CASE ~Kept
    BY <2>2 DEF NoRungSkipped
  <2> QED
    BY <2>1, <2>2
<1>3. ASSUME Base, KeptInv, [Next]_vars PROVE KeptInv'
  <2> SUFFICES ASSUME Kept' PROVE ClimbInv'
    OBVIOUS
  <2>1. edited' = FALSE
    BY BaseStep, <1>3 DEF Base, TypeOK
  <2>2. edited = FALSE /\ policy' = policy
    BY <1>3, <2>1, Unedited
  <2>3. Climbs(policy)
    BY <2>2 DEF Climbs
  <2> QED
    BY <1>3, <2>2, <2>3, ClimbStep
<1> QED
  BY <1>1, <1>2, <1>3, BaseInvariance, PTL DEF Spec

-----------------------------------------------------------------------------
(* Acknowledgements.                                                        *)

\* An acknowledgement that finds the row settled holds until the row is deleted:
\* only the engine's upsert of an older snapshot and the writer's seed write a row
\* unacknowledged, and neither is under way (list_due_escalation_states).
THEOREM SettledAcksHold == Spec => SettledAckHolds
<1> DEFINE Holds ==
      \A i \in Incidents :
          row[i] # NoRow /\ row[i].acked /\ ~InFlight(i)
          /\ [inc |-> i, op |-> "seed"] \notin followUp =>
              /\ ~InFlight(i)'
              /\ row'[i] # NoRow => row'[i].acked
<1>1. ASSUME Base, [Next]_vars PROVE [Holds]_vars
  <2> SUFFICES ASSUME Next, NEW i \in Incidents, row[i] # NoRow, row[i].acked, batch[i] = NoRow,
                      [inc |-> i, op |-> "seed"] \notin followUp
               PROVE  batch'[i] = NoRow /\ (row'[i] # NoRow => row'[i].acked)
    BY <1>1 DEF InFlight
  <2>0. row[i] \in Row
    BY <1>1 DEF Base, TypeOK
  <2>1. ASSUME UNCHANGED <<row, batch>> PROVE batch'[i] = NoRow /\ row'[i].acked
    BY <2>1
  <2>2. ASSUME NEW j \in Incidents, Seed(j) \/ DeleteState(j)
        PROVE  batch'[i] = NoRow /\ (row'[i] # NoRow => row'[i].acked)
    <3>1. UNCHANGED batch /\ (row'[i] = NoRow \/ row'[i] = row[i])
      BY <1>1, <2>2 DEF Seed, DeleteState, engine, Base, TypeOK
    <3> QED
      BY <3>1
  <2>3. ASSUME NEW j \in Incidents, AckState(j) \/ RowDue(j)
        PROVE  batch'[i] = NoRow /\ row'[i].acked
    <3>1. CASE j # i \/ row' = row
      BY <1>1, <2>3, <3>1 DEF AckState, RowDue, engine, Base, TypeOK
    <3>2. CASE j = i /\ row' # row
      <4>1. \/ row' = [row EXCEPT ![i] = [row[i] EXCEPT !.acked = TRUE]]
            \/ row' = [row EXCEPT ![i] = [row[i] EXCEPT !.due = TRUE]]
        BY <2>3, <3>2 DEF AckState, RowDue
      <4>2. /\ [row[i] EXCEPT !.acked = TRUE].acked
            /\ [row[i] EXCEPT !.due = TRUE].acked
        BY <2>0 DEF Row
      <4>3. row'[i].acked
        BY <1>1, <4>1, <4>2 DEF Base, TypeOK
      <4> QED
        BY <2>3, <4>3 DEF AckState, RowDue, engine
    <3> QED
      BY <3>1, <3>2
  <2>4. CASE Sweep
    BY <1>1, <2>4 DEF Sweep, ListDue, rows
  <2>5. CASE Persist \/ Drop \/ AdvanceFails
    <3>1. batch[cur] # NoRow /\ cur # i
      BY <1>1, <2>5 DEF Base, Busy, Persist, Drop, AdvanceFails
    <3> QED
      BY <1>1, <2>5, <3>1 DEF Persist, Drop, AdvanceFails, DoneWithCurrent, rows, Base, TypeOK
  <2>6. CASE Decide
    BY <1>1, <2>6 DEF Decide, DoneWithCurrent, rows, Base, TypeOK
  <2>7. CASE Crash
    BY <2>7 DEF Crash
  <2> QED
    BY <2>1, <2>2, <2>3, <2>4, <2>5, <2>6, <2>7
       DEF Next, FollowUpStep, EngineStep, AutoOpen, AutoClose, Shortcut, OpsPatch, EditPolicy,
           LoadIncident, Page, EndSweep, rows, engine
<1> QED
  BY BaseInvariance, <1>1, PTL DEF Spec, SettledAckHolds
=============================================================================
