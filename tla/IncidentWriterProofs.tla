------------------------- MODULE IncidentWriterProofs -------------------------
(***************************************************************************)
(* Proofs about IncidentWriter for any targets, any number of check-now     *)
(* requests in flight, any threshold and window, errors and crashes.        *)
(***************************************************************************)
EXTENDS IncidentWriter, SequenceTheorems, FiniteSetTheorems, TLAPS

-----------------------------------------------------------------------------
(* Type correctness.                                                        *)

\* Types, and what they need: an evaluator about to close an incident, or to
\* announce it, has one, and so has an edit in flight.
Base ==
    /\ TypeOK
    /\ \A e \in Evaluators : pc[e] \in {"close", "opened", "closed"} => found[e] # 0
    /\ editor.id = 0 => editor = Idle

\* The initial states satisfy Base.
LEMMA BaseInit == Init => Base
  BY DEF Init, Base, TypeOK, Places, Result, Idle, Null

\* Appending an incident, with its count of notices, keeps the tables well-formed
\* and what refers to them.
LEMMA AppendIncident ==
  ASSUME TypeOK, NEW x \in Incident,
         incidents' = Append(incidents, x), notices' = Append(notices, 0)
  PROVE  /\ incidents' \in Seq(Incident)
         /\ notices' \in Seq(Nat)
         /\ Len(incidents') = Len(incidents) + 1
         /\ Len(notices') = Len(incidents')
         /\ incidents'[Len(incidents) + 1] = x
         /\ \A i \in DOMAIN incidents : incidents'[i] = incidents[i]
         /\ DOMAIN incidents' = 1 .. Len(incidents) + 1
<1>1. incidents \in Seq(Incident) /\ notices \in Seq(Nat) /\ Len(notices) = Len(incidents)
  BY DEF TypeOK
<1>2. Len(incidents) \in Nat /\ DOMAIN incidents = 1 .. Len(incidents)
  BY <1>1
<1> QED
  BY <1>1, <1>2, AppendProperties

\* Writing the end of an incident changes nothing else.
LEMMA WriteEnd ==
  ASSUME TypeOK, NEW i \in 1 .. Len(incidents), NEW end \in Nat,
         incidents' = [incidents EXCEPT ![i].ended = end]
  PROVE  /\ incidents' \in Seq(Incident)
         /\ Len(incidents') = Len(incidents)
         /\ DOMAIN incidents' = DOMAIN incidents
         /\ incidents'[i] = [incidents[i] EXCEPT !.ended = end]
         /\ \A j \in DOMAIN incidents : j # i => incidents'[j] = incidents[j]
<1>1. incidents \in Seq(Incident) /\ DOMAIN incidents = 1 .. Len(incidents)
  BY DEF TypeOK
<1>2. incidents[i] \in Incident
  BY <1>1
<1>3. [incidents[i] EXCEPT !.ended = end] \in Incident
  BY <1>2 DEF Incident
<1>4. incidents' = [incidents EXCEPT ![i] = [incidents[i] EXCEPT !.ended = end]]
  OBVIOUS
<1> QED
  BY <1>1, <1>3, <1>4, ExceptSeq

\* Done keeps the types of the locals, and leaves no incident to announce.
LEMMA DoneTypes ==
  ASSUME Base, NEW e \in Evaluators, Done(e), UNCHANGED incidents
  PROVE  /\ pc' \in [Evaluators -> Places] /\ pc'[e] \in {"idle", "loop"}
         /\ win' \in [Evaluators -> SUBSET Result]
         /\ found' \in [Evaluators -> 0 .. Len(incidents')]
         /\ \A f \in Evaluators : f # e => pc'[f] = pc[f] /\ found'[f] = found[f]
         /\ tgt' = tgt /\ probe' = probe /\ batch' = batch
<1>1. Len(incidents) \in Nat
  BY DEF Base, TypeOK
<1>2. After(e) \in {"idle", "loop"}
  BY DEF After
<1> QED
  BY <1>1, <1>2 DEF Base, TypeOK, Done, Places

\* Every step preserves Base.
LEMMA BaseStep == Base /\ [Next]_vars => Base'
<1> SUFFICES ASSUME Base, [Next]_vars PROVE Base'
  OBVIOUS
<1>0. Len(incidents) \in Nat /\ DOMAIN incidents = 1 .. Len(incidents)
  BY DEF Base, TypeOK
<1>1. ASSUME NEW e \in Evaluators, NEW t \in Targets, StartProbe(e, t) PROVE Base'
  <2>1. probe' \in [Evaluators -> Result]
    BY <1>1 DEF Base, TypeOK, StartProbe, Result
  <2>2. pc' \in [Evaluators -> Places] /\ tgt' \in [Evaluators -> Targets]
    BY <1>1 DEF Base, TypeOK, StartProbe, Places
  <2> QED
    BY <1>1, <2>1, <2>2 DEF Base, TypeOK, StartProbe, tables, flags
<1>2. ASSUME NEW e \in Evaluators, RecordResult(e) PROVE Base'
  <2>1. hist' \in [Targets -> SUBSET Result]
    BY <1>2 DEF Base, TypeOK, RecordResult
  <2>2. pc' \in [Evaluators -> Places]
    BY <1>2 DEF Base, TypeOK, RecordResult, Places
  <2> QED
    BY <1>2, <2>1, <2>2 DEF Base, TypeOK, RecordResult, flags
<1>3. ASSUME NEW e \in Evaluators, RecordFails(e) PROVE Base'
  <2>1. pc' \in [Evaluators -> Places]
    BY <1>3 DEF Base, TypeOK, RecordFails, Places
  <2> QED
    BY <1>3, <2>1 DEF Base, TypeOK, RecordFails, tables, flags
<1>4. CASE StartSweep
  <2>1. batch' \in [Targets -> SUBSET Result]
    BY <1>4 DEF Base, TypeOK, StartSweep, Latest
  <2>2. pc' \in [Evaluators -> Places]
    BY <1>4 DEF Base, TypeOK, StartSweep, Places
  <2> QED
    BY <1>4, <2>1, <2>2 DEF Base, TypeOK, StartSweep, tables, flags
<1>5. ASSUME NEW t \in Targets, SweepTarget(t) PROVE Base'
  <2>1. batch' \in [Targets -> SUBSET Result] /\ win' \in [Evaluators -> SUBSET Result]
    BY <1>5 DEF Base, TypeOK, SweepTarget
  <2>2. pc' \in [Evaluators -> Places] /\ tgt' \in [Evaluators -> Targets]
    BY <1>5 DEF Base, TypeOK, SweepTarget, Places
  <2> QED
    BY <1>5, <2>1, <2>2 DEF Base, TypeOK, SweepTarget, tables, flags
<1>6. CASE EndSweep
  <2>1. pc' \in [Evaluators -> Places]
    BY <1>6 DEF Base, TypeOK, EndSweep, Places
  <2> QED
    BY <1>6, <2>1 DEF Base, TypeOK, EndSweep, tables, flags
<1>7. ASSUME NEW e \in Evaluators, CheckMaintenance(e) PROVE Base'
  <2>1. CASE tgt[e] \in maintenance
    <3>1. Done(e) /\ UNCHANGED incidents
      BY <1>7, <2>1 DEF CheckMaintenance, tables
    <3> QED
      BY <1>7, <3>1, DoneTypes DEF Base, TypeOK, CheckMaintenance, tables, flags
  <2>2. CASE tgt[e] \notin maintenance
    <3>1. pc' \in [Evaluators -> Places]
      BY <1>7, <2>2 DEF Base, TypeOK, CheckMaintenance, Places
    <3> QED
      BY <1>7, <2>2, <3>1 DEF Base, TypeOK, CheckMaintenance, tables, flags
  <2> QED
    BY <2>1, <2>2
<1>8. ASSUME NEW e \in Evaluators, ListResults(e) PROVE Base'
  <2>1. CASE hist[tgt[e]] = {}
    <3>1. Done(e) /\ UNCHANGED incidents
      BY <1>8, <2>1 DEF ListResults, tables
    <3> QED
      BY <1>8, <3>1, DoneTypes DEF Base, TypeOK, ListResults, tables, flags
  <2>2. CASE hist[tgt[e]] # {}
    <3>1. pc' \in [Evaluators -> Places]
      BY <1>8, <2>2 DEF Base, TypeOK, ListResults, Places
    <3>2. win' \in [Evaluators -> SUBSET Result]
      <4>1. Latest(hist[tgt[e]]) \subseteq hist[tgt[e]] /\ hist[tgt[e]] \subseteq Result
        BY DEF Base, TypeOK, Latest
      <4>2. win' = [win EXCEPT ![e] = Latest(hist[tgt[e]])] /\ win \in [Evaluators -> SUBSET Result]
        BY <1>8, <2>2 DEF ListResults, Base, TypeOK
      <4> HIDE DEF Latest
      <4> QED
        BY <4>1, <4>2
    <3> QED
      BY <1>8, <2>2, <3>1, <3>2 DEF Base, TypeOK, ListResults, tables, flags
  <2> QED
    BY <2>1, <2>2
<1>9. ASSUME NEW e \in Evaluators, FindOpen(e) PROVE Base'
  <2>1. PICK i \in 0 .. Len(incidents) :
          /\ FindOpenIncident(tgt[e], i)
          /\ IF Decision(win[e], i) = "nothing"
               THEN Done(e)
               ELSE /\ found' = [found EXCEPT ![e] = i]
                    /\ pc' = [pc EXCEPT ![e] = Decision(win[e], i)]
                    /\ UNCHANGED <<tgt, probe, win, batch>>
    BY <1>9 DEF FindOpen
  <2>2. CASE Decision(win[e], i) = "nothing"
    <3>1. Done(e) /\ UNCHANGED incidents
      BY <1>9, <2>1, <2>2 DEF FindOpen, tables
    <3> QED
      BY <1>9, <3>1, DoneTypes DEF Base, TypeOK, FindOpen, tables, flags
  <2>3. CASE Decision(win[e], i) # "nothing"
    <3>1. Decision(win[e], i) \in {"create", "close"} /\ (Decision(win[e], i) = "close" => i # 0)
      BY <2>3 DEF Decision
    <3>2. pc' \in [Evaluators -> Places] /\ found' \in [Evaluators -> 0 .. Len(incidents)]
      BY <2>1, <2>3, <3>1 DEF Base, TypeOK, Places
    <3>3. \A f \in Evaluators : pc'[f] \in {"close", "opened", "closed"} => found'[f] # 0
      BY <2>1, <2>3, <3>1 DEF Base, TypeOK
    <3> QED
      BY <1>9, <2>1, <2>3, <3>2, <3>3 DEF Base, TypeOK, FindOpen, tables, flags
  <2> QED
    BY <2>2, <2>3
<1>10. ASSUME NEW e \in Evaluators, CreateIncident(e) PROVE Base'
  <2>1. PICK r \in win[e] :
          /\ First(win[e], FALSE, r)
          /\ incidents' = Append(incidents, [target |-> tgt[e], started |-> r.ts,
                                             ended |-> Null, auto |-> TRUE])
    BY <1>10 DEF CreateIncident
  <2>2. [target |-> tgt[e], started |-> r.ts, ended |-> Null, auto |-> TRUE] \in Incident
    BY DEF Base, TypeOK, Incident, Result, Null
  <2>3. /\ incidents' \in Seq(Incident) /\ notices' \in Seq(Nat)
        /\ Len(incidents') = Len(incidents) + 1 /\ Len(notices') = Len(incidents')
        /\ DOMAIN incidents' = 1 .. Len(incidents) + 1
    BY <1>10, <2>1, <2>2, AppendIncident DEF Base, CreateIncident
  <2>4. pc' \in [Evaluators -> Places] /\ found' \in [Evaluators -> 0 .. Len(incidents')]
    BY <1>0, <1>10, <2>3 DEF Base, TypeOK, CreateIncident, Places
  <2>5. \A f \in Evaluators : pc'[f] \in {"close", "opened", "closed"} => found'[f] # 0
    BY <1>0, <1>10 DEF Base, TypeOK, CreateIncident
  <2>6. touched' \subseteq DOMAIN incidents' /\ editor' \in [id : 0 .. Len(incidents'), ended : Nat]
    BY <1>0, <1>10, <2>3 DEF Base, TypeOK, CreateIncident
  <2> QED
    BY <1>10, <2>3, <2>4, <2>5, <2>6 DEF Base, TypeOK, CreateIncident, flags
<1>11. ASSUME NEW e \in Evaluators, CloseIncident(e) PROVE Base'
  <2>1. PICK r \in win[e] : incidents' = [incidents EXCEPT ![found[e]].ended = r.ts]
    BY <1>11 DEF CloseIncident
  <2>2. found[e] \in 1 .. Len(incidents) /\ r.ts \in Nat
    BY <1>0, <1>11 DEF Base, TypeOK, CloseIncident, Result
  <2>3. /\ incidents' \in Seq(Incident) /\ Len(incidents') = Len(incidents)
        /\ DOMAIN incidents' = DOMAIN incidents
    BY <2>1, <2>2, WriteEnd DEF Base
  <2>4. pc' \in [Evaluators -> Places]
        /\ \A f \in Evaluators : pc'[f] \in {"close", "opened", "closed"} => found'[f] # 0
    BY <1>11 DEF Base, TypeOK, CloseIncident, Places
  <2> QED
    BY <1>11, <2>3, <2>4 DEF Base, TypeOK, CloseIncident, flags
<1>12. ASSUME NEW e \in Evaluators, Notify(e) PROVE Base'
  <2>1. Done(e) /\ UNCHANGED incidents
    BY <1>12 DEF Notify, tables
  <2>2. found[e] \in 1 .. Len(notices) /\ notices \in Seq(Nat)
    BY <1>0, <1>12 DEF Base, TypeOK, Notify
  <2>3. notices[found[e]] + 1 \in Nat
    BY <2>2
  <2>4. notices' \in Seq(Nat) /\ Len(notices') = Len(notices)
    <3>1. CASE pc[e] = "closed"
      <4>1. notices' = [notices EXCEPT ![found[e]] = notices[found[e]] + 1]
        BY <1>12, <3>1 DEF Notify
      <4> QED
        BY <2>2, <2>3, <4>1, ExceptSeq
    <3>2. CASE pc[e] # "closed"
      BY <1>12, <2>2, <3>2 DEF Notify
    <3> QED
      BY <3>1, <3>2
  <2> QED
    BY <1>12, <2>1, <2>4, DoneTypes DEF Base, TypeOK, Notify, tables, flags
<1>13. ASSUME NEW e \in Evaluators, StepFails(e) PROVE Base'
  <2>1. CASE e = Sweeper /\ pc[e] = "maintenance"
    <3>1. /\ pc' \in [Evaluators -> Places] /\ win' \in [Evaluators -> SUBSET Result]
          /\ batch' \in [Targets -> SUBSET Result]
      BY <1>13, <2>1 DEF Base, TypeOK, StepFails, Places
    <3> QED
      BY <1>13, <2>1, <3>1 DEF Base, TypeOK, StepFails, tables, flags
  <2>2. CASE ~(e = Sweeper /\ pc[e] = "maintenance")
    <3>1. Done(e) /\ UNCHANGED incidents
      BY <1>13, <2>2 DEF StepFails, tables
    <3>2. /\ pc' \in [Evaluators -> Places] /\ pc'[e] \in {"idle", "loop"}
          /\ win' \in [Evaluators -> SUBSET Result]
          /\ found' \in [Evaluators -> 0 .. Len(incidents')]
          /\ \A f \in Evaluators : f # e => pc'[f] = pc[f] /\ found'[f] = found[f]
          /\ tgt' = tgt /\ probe' = probe /\ batch' = batch
      BY <3>1, DoneTypes
    <3>3. \A f \in Evaluators : pc'[f] \in {"close", "opened", "closed"} => found'[f] # 0
      BY <3>2 DEF Base
    <3>4. /\ UNCHANGED <<clock, tables, flags, editor, touched, notices, ops>>
          /\ faults' = faults + 1
      BY <1>13 DEF StepFails
    <3> QED
      BY <3>2, <3>3, <3>4 DEF Base, TypeOK, tables, flags
  <2> QED
    BY <2>1, <2>2
<1>14. CASE Crash
  BY <1>0, <1>14 DEF Base, TypeOK, Crash, Places, Idle, Null, tables, flags
<1>15. ASSUME NEW t \in Targets, OpenManually(t) PROVE Base'
  <2>1. [target |-> t, started |-> clock, ended |-> Null, auto |-> FALSE] \in Incident
    BY DEF Base, TypeOK, Incident, Null
  <2>2. /\ incidents' \in Seq(Incident) /\ notices' \in Seq(Nat)
        /\ Len(incidents') = Len(incidents) + 1 /\ Len(notices') = Len(incidents')
        /\ DOMAIN incidents' = 1 .. Len(incidents) + 1
    BY <1>15, <2>1, AppendIncident DEF Base, OpenManually
  <2>3. found' \in [Evaluators -> 0 .. Len(incidents')]
    BY <1>0, <1>15, <2>2 DEF Base, TypeOK, OpenManually, task
  <2>4. touched' \subseteq DOMAIN incidents' /\ editor' \in [id : 0 .. Len(incidents'), ended : Nat]
    BY <1>0, <1>15, <2>2 DEF Base, TypeOK, OpenManually
  <2> QED
    BY <1>15, <2>2, <2>3, <2>4 DEF Base, TypeOK, OpenManually, Request, flags, task
<1>16. ASSUME NEW i \in DOMAIN incidents, Transition(i) PROVE Base'
  <2>1. PICK end \in {clock, Null} : incidents' = [incidents EXCEPT ![i].ended = end]
    BY <1>16 DEF Transition
  <2>2. i \in 1 .. Len(incidents) /\ end \in Nat
    BY <1>0, <2>1 DEF Base, TypeOK, Null
  <2>3. /\ incidents' \in Seq(Incident) /\ Len(incidents') = Len(incidents)
        /\ DOMAIN incidents' = DOMAIN incidents
    BY <2>1, <2>2, WriteEnd DEF Base
  <2> QED
    BY <1>16, <2>3 DEF Base, TypeOK, Transition, Request, flags, task
<1>17. ASSUME NEW i \in DOMAIN incidents, EditRead(i) PROVE Base'
  <2>0. incidents[i] \in Incident
    BY DEF Base, TypeOK
  <2>1. i \in 1 .. Len(incidents) /\ incidents[i].ended \in Nat
    BY <1>0, <2>0 DEF Incident
  <2>2. editor' \in [id : 0 .. Len(incidents), ended : Nat] /\ editor'.id # 0
    BY <1>0, <1>17, <2>1 DEF EditRead
  <2> QED
    BY <1>17, <2>2 DEF Base, TypeOK, EditRead, Request, tables, flags, task
<1>18. CASE EditWrite
  <2>1. PICK end \in {editor.ended, clock} : incidents' = [incidents EXCEPT ![editor.id].ended = end]
    BY <1>18 DEF EditWrite
  <2>2. editor.id \in 1 .. Len(incidents) /\ end \in Nat
    BY <1>0, <1>18, <2>1 DEF Base, TypeOK, EditWrite
  <2>3. /\ incidents' \in Seq(Incident) /\ Len(incidents') = Len(incidents)
        /\ DOMAIN incidents' = DOMAIN incidents
    BY <2>1, <2>2, WriteEnd DEF Base
  <2>4. editor' \in [id : 0 .. Len(incidents), ended : Nat] /\ editor' = Idle
    BY <1>0, <1>18 DEF EditWrite, Idle, Null
  <2>5. touched' \subseteq DOMAIN incidents
    BY <1>0, <1>18, <2>2 DEF Base, TypeOK, EditWrite
  <2> QED
    BY <1>18, <2>3, <2>4, <2>5 DEF Base, TypeOK, EditWrite, flags, task
<1>19. ASSUME NEW t \in Targets, SetMaintenance(t) \/ SetEnabled(t) PROVE Base'
  BY <1>19 DEF Base, TypeOK, SetMaintenance, SetEnabled, Request, tables, task
<1>20. CASE UNCHANGED vars
  BY <1>20 DEF Base, TypeOK, vars, tables, flags, task
<1>21. Probers \subseteq Evaluators
  BY DEF Evaluators
<1> QED
  BY <1>1, <1>2, <1>3, <1>4, <1>5, <1>6, <1>7, <1>8, <1>9, <1>10, <1>11, <1>12, <1>13, <1>14,
     <1>15, <1>16, <1>17, <1>18, <1>19, <1>20, <1>21
     DEF Next, EvalStep, SweepStep, OperatorStep

\* Base holds in every reachable state.
LEMMA BaseInvariance == Spec => []Base
  BY BaseInit, BaseStep, PTL DEF Spec

\* Type correctness of the tables, of the tasks' locals and of the histories; no
\* reference to an incident dangles.
THEOREM TypeCorrect == Spec => []TypeOK
<1>1. Base => TypeOK
  BY DEF Base
<1> QED
  BY BaseInvariance, <1>1, PTL

-----------------------------------------------------------------------------
(* What the evaluators' windows are worth.                                  *)

\* A window holds recorded results of the evaluator's target, with timestamps
\* that are not Null, however stale it is; it is empty between two evaluations.
WindowsRecorded ==
    /\ \A t \in Targets :
          /\ IsFiniteSet(hist[t])
          /\ batch[t] \subseteq hist[t]
          /\ \A r \in hist[t] : r.ts > 0
    /\ \A e \in Evaluators :
          /\ win[e] \subseteq hist[tgt[e]]
          /\ pc[e] \in {"idle", "probing", "loop"} => win[e] = {}
          /\ pc[e] = "probing" => probe[e].ts > 0

\* An evaluator about to write an incident has a run in its window that calls
\* for it, and the incident it is about to close is one of its target.
WritesCalledFor ==
    \A e \in Evaluators :
        /\ pc[e] = "create" => Cardinality(Run(win[e], FALSE)) >= FLAP_THRESHOLD
        /\ pc[e] = "close" => /\ Cardinality(Run(win[e], TRUE)) >= FLAP_THRESHOLD
                              /\ incidents[found[e]].target = tgt[e]

\* The initial states satisfy WindowsRecorded and WritesCalledFor.
LEMMA WindowsInit == Init => WindowsRecorded /\ WritesCalledFor
  BY FS_EmptySet DEF Init, WindowsRecorded, WritesCalledFor

\* Latest returns part of its argument.
LEMMA LatestSubset == ASSUME NEW h PROVE Latest(h) \subseteq h
  BY DEF Latest

\* Every step preserves WindowsRecorded.
LEMMA WindowsStep ==
  Base /\ WindowsRecorded /\ [Next]_vars => WindowsRecorded'
<1> SUFFICES ASSUME Base, WindowsRecorded, [Next]_vars PROVE WindowsRecorded'
  OBVIOUS
<1>a. Probers \subseteq Evaluators /\ Sweeper \in Evaluators /\ Sweeper \notin Probers
  BY IncidentWriterAssumption DEF Evaluators
<1>b. /\ pc \in [Evaluators -> Places] /\ win \in [Evaluators -> SUBSET Result]
      /\ tgt \in [Evaluators -> Targets] /\ probe \in [Evaluators -> Result]
      /\ batch \in [Targets -> SUBSET Result] /\ hist \in [Targets -> SUBSET Result] /\ clock \in Nat
  BY DEF Base, TypeOK
<1>1. ASSUME NEW e \in Probers, NEW t \in Targets, StartProbe(e, t) PROVE WindowsRecorded'
  <2>1. /\ hist' = hist /\ batch' = batch /\ win' = win
        /\ tgt' = [tgt EXCEPT ![e] = t] /\ pc[e] = "idle" /\ pc' = [pc EXCEPT ![e] = "probing"]
        /\ \E up \in BOOLEAN : probe' = [probe EXCEPT ![e] = [ts |-> clock + 1, up |-> up]]
    BY <1>1 DEF StartProbe, tables
  <2>2. probe'[e].ts = clock + 1 /\ \A f \in Evaluators : f # e => probe'[f] = probe[f]
    BY <1>a, <1>b, <2>1
  <2> QED
    BY <1>a, <1>b, <2>1, <2>2 DEF WindowsRecorded
<1>2. ASSUME NEW e \in Evaluators, RecordResult(e) PROVE WindowsRecorded'
  <2>1. /\ pc[e] = "probing" /\ hist' = [hist EXCEPT ![tgt[e]] = hist[tgt[e]] \cup {probe[e]}]
        /\ pc' = [pc EXCEPT ![e] = "maintenance"]
        /\ UNCHANGED <<tgt, probe, win, batch>>
    BY <1>2 DEF RecordResult
  <2>2. IsFiniteSet(hist[tgt[e]] \cup {probe[e]})
    <3>1. tgt[e] \in Targets /\ IsFiniteSet(hist[tgt[e]])
      BY <1>b DEF WindowsRecorded
    <3> QED
      BY <3>1, FS_AddElement
  <2>3. \A t \in Targets : /\ hist[t] \subseteq hist'[t] /\ IsFiniteSet(hist'[t])
                           /\ \A r \in hist'[t] : r.ts > 0
    BY <1>b, <2>1, <2>2 DEF WindowsRecorded
  <2> QED
    BY <1>b, <2>1, <2>3 DEF WindowsRecorded
<1>3. ASSUME NEW e \in Evaluators, RecordFails(e) PROVE WindowsRecorded'
  <2>1. /\ hist' = hist /\ UNCHANGED <<tgt, probe, win, batch>>
        /\ pc[e] = "probing" /\ pc' = [pc EXCEPT ![e] = IF e = Scheduler THEN "maintenance" ELSE "idle"]
    BY <1>3 DEF RecordFails, tables
  <2> QED
    BY <1>b, <2>1 DEF WindowsRecorded
<1>4. CASE StartSweep
  <2>1. /\ hist' = hist /\ UNCHANGED <<tgt, probe, win>>
        /\ pc[Sweeper] = "idle" /\ pc' = [pc EXCEPT ![Sweeper] = "loop"]
        /\ batch' = [t \in Targets |-> IF t \in enabled THEN Latest(hist[t]) ELSE {}]
    BY <1>4 DEF StartSweep, tables
  <2>2. \A t \in Targets : batch'[t] \subseteq hist[t]
    BY <2>1, LatestSubset
  <2> QED
    BY <1>a, <1>b, <2>1, <2>2 DEF WindowsRecorded
<1>5. ASSUME NEW t \in Targets, SweepTarget(t) PROVE WindowsRecorded'
  <2>1. /\ hist' = hist /\ probe' = probe
        /\ tgt' = [tgt EXCEPT ![Sweeper] = t] /\ win' = [win EXCEPT ![Sweeper] = batch[t]]
        /\ batch' = [batch EXCEPT ![t] = {}] /\ pc' = [pc EXCEPT ![Sweeper] = "maintenance"]
    BY <1>5 DEF SweepTarget, tables
  <2> QED
    BY <1>a, <1>b, <2>1 DEF WindowsRecorded
<1>6. CASE EndSweep
  <2>1. /\ hist' = hist /\ UNCHANGED <<tgt, probe, win, batch>>
        /\ pc[Sweeper] = "loop" /\ pc' = [pc EXCEPT ![Sweeper] = "idle"]
    BY <1>6 DEF EndSweep, tables
  <2> QED
    BY <1>a, <1>b, <2>1 DEF WindowsRecorded
<1>7. ASSUME NEW e \in Evaluators, Done(e), hist' = hist PROVE WindowsRecorded'
  BY <1>7, <1>b DEF WindowsRecorded, Done, After
<1>8. ASSUME NEW e \in Evaluators, NEW p \in Places \ {"idle", "probing", "loop"},
             pc' = [pc EXCEPT ![e] = p], hist' = hist, UNCHANGED <<tgt, probe, win, batch>>
      PROVE  WindowsRecorded'
  BY <1>8, <1>b DEF WindowsRecorded
<1>9. ASSUME NEW e \in Evaluators, CheckMaintenance(e) PROVE WindowsRecorded'
  <2>1. CASE tgt[e] \in maintenance
    BY <1>7, <1>9, <2>1 DEF CheckMaintenance, tables
  <2>2. CASE tgt[e] \notin maintenance
    BY <1>8, <1>9, <2>2 DEF CheckMaintenance, tables, Places
  <2> QED
    BY <2>1, <2>2
<1>10. ASSUME NEW e \in Evaluators, ListResults(e) PROVE WindowsRecorded'
  <2>1. CASE hist[tgt[e]] = {}
    BY <1>7, <1>10, <2>1 DEF ListResults, tables
  <2>2. CASE hist[tgt[e]] # {}
    <3>1. /\ hist' = hist /\ UNCHANGED <<tgt, probe, batch>>
          /\ pc' = [pc EXCEPT ![e] = "find"]
          /\ win' = [win EXCEPT ![e] = Latest(hist[tgt[e]])]
      BY <1>10, <2>2 DEF ListResults, tables
    <3>2. win'[e] \subseteq hist[tgt[e]] /\ \A f \in Evaluators : f # e => win'[f] = win[f]
      BY <1>b, <3>1, LatestSubset
    <3> QED
      BY <1>b, <3>1, <3>2 DEF WindowsRecorded
  <2> QED
    BY <2>1, <2>2
<1>11. ASSUME NEW e \in Evaluators, FindOpen(e) PROVE WindowsRecorded'
  <2>1. hist' = hist
    BY <1>11 DEF FindOpen, tables
  <2>2. PICK i \in 0 .. Len(incidents) :
          IF Decision(win[e], i) = "nothing"
            THEN Done(e)
            ELSE /\ pc' = [pc EXCEPT ![e] = Decision(win[e], i)]
                 /\ UNCHANGED <<tgt, probe, win, batch>>
    BY <1>11 DEF FindOpen
  <2>3. Decision(win[e], i) # "nothing" => Decision(win[e], i) \in {"create", "close"}
    BY DEF Decision
  <2> QED
    BY <1>7, <1>8, <2>1, <2>2, <2>3 DEF Places
<1>12. ASSUME NEW e \in Evaluators, CreateIncident(e) \/ CloseIncident(e) PROVE WindowsRecorded'
  BY <1>8, <1>12 DEF CreateIncident, CloseIncident, Places
<1>13. ASSUME NEW e \in Evaluators, Notify(e) PROVE WindowsRecorded'
  BY <1>7, <1>13 DEF Notify, tables
<1>14. ASSUME NEW e \in Evaluators, StepFails(e) PROVE WindowsRecorded'
  <2>1. CASE e = Sweeper /\ pc[e] = "maintenance"
    <3>1. /\ hist' = hist /\ UNCHANGED <<tgt, probe>>
          /\ pc' = [pc EXCEPT ![e] = "idle"] /\ win' = [win EXCEPT ![e] = {}]
          /\ batch' = [t \in Targets |-> {}]
      BY <1>14, <2>1 DEF StepFails, tables
    <3> QED
      BY <1>b, <3>1 DEF WindowsRecorded
  <2>2. CASE ~(e = Sweeper /\ pc[e] = "maintenance")
    BY <1>7, <1>14, <2>2 DEF StepFails, tables
  <2> QED
    BY <2>1, <2>2
<1>15. CASE Crash
  <2>1. /\ hist' = hist /\ UNCHANGED <<tgt, probe>>
        /\ pc' = [e \in Evaluators |-> "idle"] /\ win' = [e \in Evaluators |-> {}]
        /\ batch' = [t \in Targets |-> {}]
    BY <1>15 DEF Crash, tables
  <2> QED
    BY <1>b, <2>1 DEF WindowsRecorded
<1>16. CASE OperatorStep \/ UNCHANGED vars
  <2>1. hist' = hist /\ UNCHANGED task
    BY <1>16 DEF OperatorStep, OpenManually, Transition, EditRead, EditWrite, SetMaintenance,
                 SetEnabled, tables, vars
  <2> QED
    BY <2>1 DEF WindowsRecorded, task
<1> QED
  BY <1>a, <1>1, <1>2, <1>3, <1>4, <1>5, <1>6, <1>9, <1>10, <1>11, <1>12, <1>13, <1>14, <1>15, <1>16
     DEF Next, EvalStep, SweepStep

\* No step removes an incident or moves it to another target.
LEMMA TargetsStay ==
  ASSUME Base, [Next]_vars, NEW i \in DOMAIN incidents
  PROVE  i \in DOMAIN incidents' /\ incidents'[i].target = incidents[i].target
<1>a. /\ incidents \in Seq(Incident) /\ Len(incidents) \in Nat
      /\ DOMAIN incidents = 1 .. Len(incidents)
      /\ found \in [Evaluators -> 0 .. Len(incidents)]
  BY DEF Base, TypeOK
<1>1. CASE UNCHANGED incidents
  BY <1>1
<1>2. ASSUME NEW x, incidents' = Append(incidents, x)
      PROVE  i \in DOMAIN incidents' /\ incidents'[i] = incidents[i]
  BY <1>2, <1>a
<1>3. ASSUME NEW j, NEW end, incidents' = [incidents EXCEPT ![j].ended = end]
      PROVE  i \in DOMAIN incidents' /\ incidents'[i].target = incidents[i].target
  <2>1. incidents[i] \in Incident
    BY <1>a
  <2>2. DOMAIN incidents' = DOMAIN incidents
    BY <1>3
  <2>3. incidents'[i] = IF i = j THEN [incidents[i] EXCEPT !.ended = end] ELSE incidents[i]
    BY <1>3
  <2> QED
    BY <2>1, <2>2, <2>3 DEF Incident
<1>4. \/ UNCHANGED incidents
      \/ \E x : incidents' = Append(incidents, x)
      \/ \E j, end : incidents' = [incidents EXCEPT ![j].ended = end]
  <2>1. CASE \E e \in Evaluators : CreateIncident(e)
    BY <2>1 DEF CreateIncident
  <2>2. CASE \E e \in Evaluators : CloseIncident(e)
    BY <2>2 DEF CloseIncident
  <2>3. CASE \E t \in Targets : OpenManually(t)
    BY <2>3 DEF OpenManually
  <2>4. CASE \E j \in DOMAIN incidents : Transition(j)
    BY <2>4 DEF Transition
  <2>5. CASE EditWrite
    BY <2>5 DEF EditWrite
  <2>6. CASE /\ ~\E e \in Evaluators : CreateIncident(e) \/ CloseIncident(e)
             /\ ~\E t \in Targets : OpenManually(t)
             /\ ~\E j \in DOMAIN incidents : Transition(j)
             /\ ~EditWrite
    BY <2>6 DEF Next, EvalStep, SweepStep, OperatorStep, RecordFails, StartProbe, RecordResult,
       CheckMaintenance, ListResults, FindOpen, Notify, StepFails, StartSweep, SweepTarget, EndSweep,
       SetMaintenance, SetEnabled, EditRead, Crash, tables, vars
  <2> QED
    BY <2>1, <2>2, <2>3, <2>4, <2>5, <2>6
<1> QED
  BY <1>1, <1>2, <1>3, <1>4

\* An evaluator at a write after a step other than its FindOpen was there before,
\* with the same locals.
LEMMA QuietStep ==
  ASSUME Base, [Next]_vars, NEW f \in Evaluators, pc'[f] \in {"create", "close"}, ~FindOpen(f)
  PROVE  pc[f] = pc'[f] /\ win'[f] = win[f] /\ tgt'[f] = tgt[f] /\ found'[f] = found[f]
<1>a. /\ pc \in [Evaluators -> Places] /\ win \in [Evaluators -> SUBSET Result]
      /\ tgt \in [Evaluators -> Targets] /\ found \in [Evaluators -> 0 .. Len(incidents)]
      /\ Sweeper \in Evaluators /\ Probers \subseteq Evaluators
  BY DEF Base, TypeOK, Evaluators
<1>1. ASSUME NEW e \in Evaluators, Done(e)
      PROVE  pc[f] = pc'[f] /\ win'[f] = win[f] /\ tgt'[f] = tgt[f] /\ found'[f] = found[f]
  BY <1>a, <1>1 DEF Done, After
<1>3. ASSUME NEW e \in Probers, RecordFails(e) \/ \E t \in Targets : StartProbe(e, t)
      PROVE  pc[f] = pc'[f] /\ win'[f] = win[f] /\ tgt'[f] = tgt[f] /\ found'[f] = found[f]
  BY <1>a, <1>3 DEF RecordFails, StartProbe
<1>4. ASSUME NEW e \in Evaluators, RecordResult(e) \/ CreateIncident(e) \/ CloseIncident(e)
      PROVE  pc[f] = pc'[f] /\ win'[f] = win[f] /\ tgt'[f] = tgt[f] /\ found'[f] = found[f]
  BY <1>a, <1>4 DEF RecordResult, CreateIncident, CloseIncident
<1>5. ASSUME NEW e \in Evaluators, CheckMaintenance(e) \/ ListResults(e)
      PROVE  pc[f] = pc'[f] /\ win'[f] = win[f] /\ tgt'[f] = tgt[f] /\ found'[f] = found[f]
  BY <1>a, <1>1, <1>5 DEF CheckMaintenance, ListResults
<1>6. ASSUME NEW e \in Evaluators, FindOpen(e)
      PROVE  pc[f] = pc'[f] /\ win'[f] = win[f] /\ tgt'[f] = tgt[f] /\ found'[f] = found[f]
  BY <1>a, <1>1, <1>6 DEF FindOpen
<1>7. ASSUME NEW e \in Evaluators, Notify(e) \/ StepFails(e)
      PROVE  pc[f] = pc'[f] /\ win'[f] = win[f] /\ tgt'[f] = tgt[f] /\ found'[f] = found[f]
  BY <1>a, <1>1, <1>7 DEF Notify, StepFails
<1>8. CASE SweepStep
  BY <1>a, <1>8 DEF SweepStep, StartSweep, SweepTarget, EndSweep
<1>9. CASE Crash
  BY <1>9 DEF Crash
<1>10. CASE OperatorStep \/ UNCHANGED vars
  <2>1. UNCHANGED task
    BY <1>10 DEF OperatorStep, OpenManually, Transition, EditRead, EditWrite, SetMaintenance,
                 SetEnabled, vars
  <2> QED
    BY <2>1 DEF task
<1> QED
  BY <1>3, <1>4, <1>5, <1>6, <1>7, <1>8, <1>9, <1>10 DEF Next, EvalStep

\* Every step preserves WritesCalledFor: only FindOpen gets an evaluator to a
\* write, and what it saw of the incident's target cannot change.
LEMMA WritesStep ==
  Base /\ WritesCalledFor /\ [Next]_vars => WritesCalledFor'
<1> SUFFICES ASSUME Base, WritesCalledFor, [Next]_vars,
                    NEW f \in Evaluators, pc'[f] \in {"create", "close"}
             PROVE  /\ pc'[f] = "create" => Cardinality(Run(win'[f], FALSE)) >= FLAP_THRESHOLD
                    /\ pc'[f] = "close" =>
                          /\ Cardinality(Run(win'[f], TRUE)) >= FLAP_THRESHOLD
                          /\ incidents'[found'[f]].target = tgt'[f]
  BY DEF WritesCalledFor, Run
<1>a. /\ pc \in [Evaluators -> Places] /\ win \in [Evaluators -> SUBSET Result]
      /\ tgt \in [Evaluators -> Targets] /\ found \in [Evaluators -> 0 .. Len(incidents)]
      /\ Sweeper \in Evaluators
  BY DEF Base, TypeOK, Evaluators
<1>b. /\ DOMAIN incidents = 1 .. Len(incidents) /\ Len(incidents) \in Nat
      /\ pc[f] = "close" => found[f] \in DOMAIN incidents
  BY DEF Base, TypeOK
<1>1. \A i \in DOMAIN incidents : i \in DOMAIN incidents' /\ incidents'[i].target = incidents[i].target
  BY TargetsStay
<1>2. ASSUME pc[f] = pc'[f], win'[f] = win[f], tgt'[f] = tgt[f], found'[f] = found[f]
      PROVE  /\ pc'[f] = "create" => Cardinality(Run(win'[f], FALSE)) >= FLAP_THRESHOLD
             /\ pc'[f] = "close" =>
                   /\ Cardinality(Run(win'[f], TRUE)) >= FLAP_THRESHOLD
                   /\ incidents'[found'[f]].target = tgt'[f]
  BY <1>b, <1>1, <1>2 DEF WritesCalledFor
<1>3. CASE FindOpen(f)
  <2>1. PICK i \in 0 .. Len(incidents) :
          /\ FindOpenIncident(tgt[f], i)
          /\ IF Decision(win[f], i) = "nothing"
               THEN Done(f)
               ELSE /\ found' = [found EXCEPT ![f] = i]
                    /\ pc' = [pc EXCEPT ![f] = Decision(win[f], i)]
                    /\ UNCHANGED <<tgt, probe, win, batch>>
    BY <1>3 DEF FindOpen
  <2>2. Decision(win[f], i) # "nothing"
    BY <1>a, <2>1 DEF Done, After
  <2>3. pc'[f] = Decision(win[f], i) /\ win'[f] = win[f] /\ tgt'[f] = tgt[f] /\ found'[f] = i
    BY <1>a, <2>1, <2>2
  <2>4. /\ pc'[f] = "create" => Cardinality(Run(win[f], FALSE)) >= FLAP_THRESHOLD
        /\ pc'[f] = "close" => Cardinality(Run(win[f], TRUE)) >= FLAP_THRESHOLD /\ i # 0
    BY <2>3 DEF Decision
  <2>5. i # 0 => i \in DOMAIN incidents /\ incidents[i].target = tgt[f]
    BY <2>1 DEF FindOpenIncident, OpenOf
  <2> QED
    BY <1>1, <2>3, <2>4, <2>5
<1>4. CASE ~FindOpen(f)
  <2>1. pc[f] = pc'[f] /\ win'[f] = win[f] /\ tgt'[f] = tgt[f] /\ found'[f] = found[f]
    BY <1>4, QuietStep
  <2> QED
    BY <1>2, <2>1
<1> QED
  BY <1>3, <1>4

-----------------------------------------------------------------------------
(* Justified.                                                               *)

\* The results of a history that are Up (or not), since n: Since(t, up, n) is
\* Counted(hist[t], up, n).
Counted(h, up, n) == {r \in h : r.up = up /\ r.ts >= n}

\* A run of a recorded window, counted from the window's first result of its
\* kind, is found again in the history.
LEMMA RunSince ==
  ASSUME Base, WindowsRecorded, NEW t \in Targets, NEW w \in SUBSET hist[t], NEW up \in BOOLEAN,
         NEW r \in w, First(w, up, r), Cardinality(Run(w, up)) >= FLAP_THRESHOLD
  PROVE  Cardinality(Counted(hist[t], up, r.ts)) >= FLAP_THRESHOLD
<1>1. hist[t] \subseteq Result /\ IsFiniteSet(hist[t])
  BY DEF Base, TypeOK, WindowsRecorded
<1>2. \A x \in Run(w, up) : x \in hist[t] /\ x.up = up /\ x.ts >= r.ts
  <2> SUFFICES ASSUME NEW x \in Run(w, up) PROVE x \in hist[t] /\ x.up = up /\ x.ts >= r.ts
    OBVIOUS
  <2>1. x \in w /\ x \in Result /\ r \in Result
    BY <1>1 DEF Run
  <2>2. x.ts \in Nat /\ r.ts \in Nat
    BY <2>1 DEF Result
  <2>3. x.up = up
    BY <2>1, <2>2 DEF Run
  <2> QED
    BY <2>1, <2>2, <2>3 DEF First
<1>3. Run(w, up) \subseteq Counted(hist[t], up, r.ts)
  BY <1>2 DEF Counted
<1>4. IsFiniteSet(Counted(hist[t], up, r.ts))
  BY <1>1, FS_Subset DEF Counted
<1>5. Cardinality(Run(w, up)) <= Cardinality(Counted(hist[t], up, r.ts)) /\ IsFiniteSet(Run(w, up))
  BY <1>3, <1>4, FS_Subset
<1>6. Cardinality(Run(w, up)) \in Nat /\ Cardinality(Counted(hist[t], up, r.ts)) \in Nat
  BY <1>4, <1>5, FS_CardinalityType
<1> QED
  BY <1>5, <1>6, IncidentWriterAssumption

\* Histories only grow, so what they show stays shown.
LEMMA HistoryGrows ==
  ASSUME Base, WindowsRecorded, WindowsRecorded', [Next]_vars, NEW t \in Targets, NEW up, NEW n,
         Cardinality(Counted(hist[t], up, n)) >= FLAP_THRESHOLD
  PROVE  Cardinality(Counted(hist'[t], up, n)) >= FLAP_THRESHOLD
<1>1. hist[t] \subseteq hist'[t]
  <2>1. CASE \E e \in Evaluators : RecordResult(e)
    BY <2>1 DEF RecordResult, Base, TypeOK
  <2>2. CASE ~\E e \in Evaluators : RecordResult(e)
    <3>1. hist' = hist
      BY <2>2 DEF Next, EvalStep, SweepStep, OperatorStep, RecordFails, StartProbe,
         CheckMaintenance, ListResults, FindOpen, CreateIncident, CloseIncident, Notify, StepFails,
         StartSweep, SweepTarget, EndSweep, SetMaintenance, SetEnabled, OpenManually, Transition,
         EditRead, EditWrite, Crash, tables, vars
    <3> QED
      BY <3>1
  <2> QED
    BY <2>1, <2>2
<1>2. Counted(hist[t], up, n) \subseteq Counted(hist'[t], up, n)
  BY <1>1 DEF Counted
<1>3. IsFiniteSet(hist'[t])
  BY DEF WindowsRecorded
<1>4. IsFiniteSet(Counted(hist'[t], up, n))
  BY <1>3, FS_Subset DEF Counted
<1>5. Cardinality(Counted(hist[t], up, n)) <= Cardinality(Counted(hist'[t], up, n)) /\ IsFiniteSet(Counted(hist[t], up, n))
  BY <1>2, <1>4, FS_Subset
<1>6. Cardinality(Counted(hist[t], up, n)) \in Nat /\ Cardinality(Counted(hist'[t], up, n)) \in Nat
  BY <1>4, <1>5, FS_CardinalityType
<1> QED
  BY <1>5, <1>6, IncidentWriterAssumption

\* An incident that operators have not written is as it was, or has just been
\* created or closed by an evaluator.
LEMMA UntouchedStep ==
  ASSUME Base, [Next]_vars, NEW i \in DOMAIN incidents', i \notin touched'
  PROVE  /\ i \notin touched
         /\ \/ i \in DOMAIN incidents /\ incidents'[i] = incidents[i]
            \/ \E e \in Evaluators : /\ CreateIncident(e) /\ i = Len(incidents) + 1
                                     /\ i \notin DOMAIN incidents
            \/ \E e \in Evaluators : CloseIncident(e) /\ i = found[e] /\ i \in DOMAIN incidents
<1>a. /\ incidents \in Seq(Incident) /\ Len(incidents) \in Nat
      /\ DOMAIN incidents = 1 .. Len(incidents)
      /\ found \in [Evaluators -> 0 .. Len(incidents)]
  BY DEF Base, TypeOK
<1>b. touched \subseteq touched'
  BY DEF Next, EvalStep, SweepStep, OperatorStep, RecordFails, StartProbe, RecordResult,
     CheckMaintenance, ListResults, FindOpen, CreateIncident, CloseIncident, Notify, StepFails,
     StartSweep, SweepTarget, EndSweep, SetMaintenance, SetEnabled, OpenManually, Transition,
     EditRead, EditWrite, Crash, vars
<1>c. ASSUME NEW x, incidents' = Append(incidents, x), i # Len(incidents) + 1
      PROVE  i \in DOMAIN incidents /\ incidents'[i] = incidents[i]
  BY <1>a, <1>c
<1>d. ASSUME NEW j, NEW end, incidents' = [incidents EXCEPT ![j].ended = end]
      PROVE  i \in DOMAIN incidents /\ (i # j => incidents'[i] = incidents[i])
  BY <1>a, <1>d
<1>1. ASSUME NEW e \in Evaluators, CreateIncident(e)
      PROVE  i = Len(incidents) + 1 \/ (i \in DOMAIN incidents /\ incidents'[i] = incidents[i])
  BY <1>1, <1>c DEF CreateIncident
<1>2. ASSUME NEW e \in Evaluators, CloseIncident(e)
      PROVE  i \in DOMAIN incidents /\ (i = found[e] \/ incidents'[i] = incidents[i])
  BY <1>2, <1>d DEF CloseIncident
<1>3. ASSUME NEW t \in Targets, OpenManually(t)
      PROVE  i \in DOMAIN incidents /\ incidents'[i] = incidents[i]
  BY <1>3, <1>c DEF OpenManually
<1>4. ASSUME NEW j \in DOMAIN incidents, Transition(j)
      PROVE  i \in DOMAIN incidents /\ incidents'[i] = incidents[i]
  BY <1>4, <1>d DEF Transition
<1>5. CASE EditWrite
  <2>1. i \in DOMAIN incidents /\ incidents'[i] = incidents[i]
    BY <1>5, <1>d DEF EditWrite
  <2> QED
    BY <1>b, <2>1
<1>6. CASE UNCHANGED incidents
  BY <1>b, <1>6
<1>7. \/ UNCHANGED incidents
      \/ \E e \in Evaluators : CreateIncident(e) \/ CloseIncident(e)
      \/ \E t \in Targets : OpenManually(t)
      \/ \E j \in DOMAIN incidents : Transition(j)
      \/ EditWrite
  BY DEF Next, EvalStep, SweepStep, OperatorStep, RecordFails, StartProbe, RecordResult,
     CheckMaintenance, ListResults, FindOpen, Notify, StepFails, StartSweep, SweepTarget, EndSweep,
     SetMaintenance, SetEnabled, EditRead, Crash, tables, vars
<1>8. Len(incidents) + 1 \notin DOMAIN incidents
  BY <1>a
<1> QED
  BY <1>b, <1>1, <1>2, <1>3, <1>4, <1>5, <1>6, <1>7, <1>8

\* Every step preserves Justified, given what the windows are worth.
LEMMA JustifiedStep ==
  Base /\ WindowsRecorded /\ WritesCalledFor /\ Justified /\ WindowsRecorded' /\ [Next]_vars
    => Justified'
<1> SUFFICES ASSUME Base, WindowsRecorded, WritesCalledFor, Justified, WindowsRecorded', [Next]_vars,
                    NEW t \in Targets, NEW i \in Untouched(t)'
             PROVE  /\ Cardinality(Counted(hist'[t], FALSE, incidents'[i].started)) >= FLAP_THRESHOLD
                    /\ incidents'[i].ended # Null =>
                          Cardinality(Counted(hist'[t], TRUE, incidents'[i].ended)) >= FLAP_THRESHOLD
  BY DEF Justified, Since, Counted, Null
<1>1. i \in DOMAIN incidents' /\ incidents'[i].target = t /\ i \notin touched'
  BY DEF Untouched
<1>2. i \notin touched
  BY <1>1, UntouchedStep
<1>3. CASE i \in DOMAIN incidents /\ incidents'[i] = incidents[i]
  <2>1. i \in Untouched(t)
    BY <1>1, <1>2, <1>3 DEF Untouched
  <2>2. /\ Cardinality(Counted(hist[t], FALSE, incidents[i].started)) >= FLAP_THRESHOLD
        /\ incidents[i].ended # Null =>
              Cardinality(Counted(hist[t], TRUE, incidents[i].ended)) >= FLAP_THRESHOLD
    BY <2>1 DEF Justified, Since, Counted
  <2>3. Cardinality(Counted(hist'[t], FALSE, incidents[i].started)) >= FLAP_THRESHOLD
    BY <2>2, HistoryGrows
  <2>4. incidents[i].ended # Null =>
           Cardinality(Counted(hist'[t], TRUE, incidents[i].ended)) >= FLAP_THRESHOLD
    BY <2>2, HistoryGrows
  <2> QED
    BY <1>3, <2>3, <2>4
<1>4. ASSUME NEW e \in Evaluators, CreateIncident(e), i = Len(incidents) + 1
      PROVE  /\ Cardinality(Counted(hist'[t], FALSE, incidents'[i].started)) >= FLAP_THRESHOLD
             /\ incidents'[i].ended = Null
  <2>1. PICK r \in win[e] :
          /\ First(win[e], FALSE, r)
          /\ incidents' = Append(incidents, [target |-> tgt[e], started |-> r.ts,
                                             ended |-> Null, auto |-> TRUE])
    BY <1>4 DEF CreateIncident
  <2>2. incidents'[i] = [target |-> tgt[e], started |-> r.ts, ended |-> Null, auto |-> TRUE]
    BY <1>4, <2>1 DEF Base, TypeOK
  <2>3. tgt[e] = t /\ incidents'[i].started = r.ts /\ incidents'[i].ended = Null
    BY <1>1, <2>2
  <2>4. Cardinality(Run(win[e], FALSE)) >= FLAP_THRESHOLD /\ win[e] \in SUBSET hist[t]
    BY <1>4, <2>3 DEF CreateIncident, WritesCalledFor, WindowsRecorded
  <2>5. Cardinality(Counted(hist[t], FALSE, r.ts)) >= FLAP_THRESHOLD
    BY <2>1, <2>4, RunSince
  <2>6. hist' = hist
    BY <1>4 DEF CreateIncident
  <2> QED
    BY <2>3, <2>5, <2>6
<1>5. ASSUME NEW e \in Evaluators, CloseIncident(e), i = found[e], i \in DOMAIN incidents
      PROVE  /\ Cardinality(Counted(hist'[t], FALSE, incidents'[i].started)) >= FLAP_THRESHOLD
             /\ Cardinality(Counted(hist'[t], TRUE, incidents'[i].ended)) >= FLAP_THRESHOLD
  <2>1. PICK r \in win[e] :
          First(win[e], TRUE, r) /\ incidents' = [incidents EXCEPT ![found[e]].ended = r.ts]
    BY <1>5 DEF CloseIncident
  <2>2. incidents[i] \in Incident /\ incidents'[i] = [incidents[i] EXCEPT !.ended = r.ts]
    BY <1>5, <2>1 DEF Base, TypeOK
  <2>3. /\ incidents'[i].started = incidents[i].started /\ incidents'[i].ended = r.ts
        /\ incidents'[i].target = incidents[i].target
    BY <2>2 DEF Incident
  <2>4. /\ Cardinality(Run(win[e], TRUE)) >= FLAP_THRESHOLD /\ tgt[e] = t
        /\ win[e] \in SUBSET hist[t] /\ hist' = hist
    BY <1>1, <1>5, <2>3 DEF CloseIncident, WritesCalledFor, WindowsRecorded
  <2>5. Cardinality(Counted(hist[t], TRUE, r.ts)) >= FLAP_THRESHOLD
    BY <2>1, <2>4, RunSince
  <2>6. i \in Untouched(t)
    BY <1>1, <1>2, <1>5, <2>3 DEF Untouched
  <2>7. Cardinality(Counted(hist[t], FALSE, incidents[i].started)) >= FLAP_THRESHOLD
    BY <2>6 DEF Justified, Since, Counted
  <2> QED
    BY <2>3, <2>4, <2>5, <2>7
<1> QED
  BY <1>1, <1>3, <1>4, <1>5, UntouchedStep

\* The windows are worth what WindowsRecorded and WritesCalledFor say, always.
LEMMA WindowsInvariance == Spec => [](WindowsRecorded /\ WritesCalledFor)
<1>1. Base /\ (WindowsRecorded /\ WritesCalledFor) /\ [Next]_vars
        => (WindowsRecorded /\ WritesCalledFor)'
  BY WindowsStep, WritesStep
<1> QED
  BY WindowsInit, BaseInvariance, <1>1, PTL DEF Spec

\* An incident the writer opened or closed, and that operators have not written
\* since, rests on FLAP_THRESHOLD recorded results, whichever evaluator wrote it
\* and however stale its window was.
THEOREM WritesJustified == Spec => []Justified
<1>1. Init => Justified
  BY DEF Init, Justified, Untouched
<1>2. Base /\ (WindowsRecorded /\ WritesCalledFor) /\ (WindowsRecorded /\ WritesCalledFor)'
      /\ Justified /\ [Next]_vars => Justified'
  BY JustifiedStep
<1> QED
  BY <1>1, <1>2, BaseInvariance, WindowsInvariance, PTL DEF Spec

-----------------------------------------------------------------------------
(* BoundedDuplicates: the open incidents of a target are counted together    *)
(* with the evaluators that are about to create one.                        *)

\* The open incidents of t that only the writer has written.
WriterOpen(t) == OpenOf(t) \cap Untouched(t)

\* The evaluators that found no open incident of t and will create one.
Creating(t) == {e \in Evaluators : pc[e] = "create" /\ tgt[e] = t}

OpenAndComing ==
    \A t \in Targets :
        Cardinality(WriterOpen(t)) + Cardinality(Creating(t)) <= Cardinality(Evaluators)

\* There are finitely many evaluators.
LEMMA EvaluatorsFinite == IsFiniteSet(Evaluators) /\ Cardinality(Evaluators) \in Nat
<1>1. IsFiniteSet({Scheduler} \cup Handlers)
  BY IncidentWriterAssumption, FS_Singleton, FS_Union
<1>2. IsFiniteSet(Evaluators)
  BY <1>1, FS_AddElement DEF Evaluators, Probers
<1> QED
  BY <1>2, FS_CardinalityType

\* Sets of evaluators and of incidents are finite.
LEMMA CountsFinite ==
  ASSUME TypeOK
  PROVE  /\ \A S \in SUBSET Evaluators : /\ IsFiniteSet(S) /\ Cardinality(S) \in Nat
                                         /\ Cardinality(S) <= Cardinality(Evaluators)
         /\ \A S \in SUBSET DOMAIN incidents : IsFiniteSet(S) /\ Cardinality(S) \in Nat
<1>1. IsFiniteSet(DOMAIN incidents)
  <2>1. DOMAIN incidents = 1 .. Len(incidents) /\ Len(incidents) \in Nat
    BY DEF TypeOK
  <2> QED
    BY <2>1, FS_Interval
<1> QED
  BY <1>1, EvaluatorsFinite, FS_Subset, FS_CardinalityType

\* An open incident that only the writer wrote was one before, unless it has just
\* been created.
LEMMA WriterOpenStep ==
  ASSUME Base, WindowsRecorded, [Next]_vars, NEW t \in Targets, NEW i \in WriterOpen(t)',
         i \notin WriterOpen(t)
  PROVE  \E e \in Evaluators : CreateIncident(e) /\ tgt[e] = t /\ i = Len(incidents) + 1
<1>1. /\ i \in DOMAIN incidents' /\ i \notin touched'
      /\ incidents'[i].target = t /\ incidents'[i].ended = Null
  BY DEF WriterOpen, OpenOf, Untouched, Null
<1>2. ~(i \in DOMAIN incidents /\ incidents'[i] = incidents[i])
  BY <1>1, UntouchedStep DEF WriterOpen, OpenOf, Untouched
<1>3. ASSUME NEW e \in Evaluators, CloseIncident(e), i = found[e], i \in DOMAIN incidents
      PROVE  FALSE
  <2>1. PICK r \in win[e] : incidents' = [incidents EXCEPT ![found[e]].ended = r.ts]
    BY <1>3 DEF CloseIncident
  <2>2. incidents[i] \in Incident /\ incidents'[i] = [incidents[i] EXCEPT !.ended = r.ts]
    BY <1>3, <2>1 DEF Base, TypeOK
  <2>3. r \in hist[tgt[e]] /\ tgt[e] \in Targets /\ r \in Result
    BY DEF Base, TypeOK, WindowsRecorded
  <2>4. r.ts > 0 /\ r.ts \in Nat
    BY <2>3 DEF WindowsRecorded, Result
  <2> QED
    BY <1>1, <2>2, <2>4 DEF Incident, Null
<1>4. PICK e \in Evaluators : CreateIncident(e) /\ i = Len(incidents) + 1
  BY <1>1, <1>2, <1>3, UntouchedStep
<1>5. incidents'[i].target = tgt[e]
  <2>1. PICK r \in win[e] :
          incidents' = Append(incidents, [target |-> tgt[e], started |-> r.ts,
                                          ended |-> Null, auto |-> TRUE])
    BY <1>4 DEF CreateIncident
  <2> QED
    BY <1>4, <2>1 DEF Base, TypeOK
<1> QED
  BY <1>1, <1>4, <1>5

\* Every step preserves OpenAndComing.
LEMMA OpenAndComingStep ==
  Base /\ WindowsRecorded /\ OpenAndComing /\ Base' /\ [Next]_vars => OpenAndComing'
<1> SUFFICES ASSUME Base, WindowsRecorded, OpenAndComing, Base', [Next]_vars, NEW t \in Targets
             PROVE  Cardinality(WriterOpen(t)') + Cardinality(Creating(t)') <= Cardinality(Evaluators)
  BY DEF OpenAndComing
<1> DEFINE W == WriterOpen(t)
           V == WriterOpen(t)'
           C == Creating(t)
           D == Creating(t)'
<1>a. /\ pc \in [Evaluators -> Places] /\ tgt \in [Evaluators -> Targets] /\ Len(incidents) \in Nat
  BY DEF Base, TypeOK
<1>b. W \in SUBSET DOMAIN incidents /\ V \in SUBSET DOMAIN incidents'
  BY DEF WriterOpen, OpenOf
<1>c. C \in SUBSET Evaluators /\ D \in SUBSET Evaluators
  BY DEF Creating
<1>d. /\ IsFiniteSet(W) /\ IsFiniteSet(V) /\ IsFiniteSet(C) /\ IsFiniteSet(D)
      /\ Cardinality(W) \in Nat /\ Cardinality(V) \in Nat /\ Cardinality(C) \in Nat
      /\ Cardinality(D) \in Nat /\ Cardinality(D) <= Cardinality(Evaluators)
      /\ Cardinality(Evaluators) \in Nat
  <2>1. /\ IsFiniteSet(W) /\ Cardinality(W) \in Nat
        /\ IsFiniteSet(C) /\ Cardinality(C) \in Nat
        /\ IsFiniteSet(D) /\ Cardinality(D) \in Nat /\ Cardinality(D) <= Cardinality(Evaluators)
    BY <1>b, <1>c, CountsFinite DEF Base
  <2>2. IsFiniteSet(V) /\ Cardinality(V) \in Nat
    <3>1. IsFiniteSet(DOMAIN incidents')
      <4>1. DOMAIN incidents' = 1 .. Len(incidents') /\ Len(incidents') \in Nat
        BY DEF Base, TypeOK
      <4> QED
        BY <4>1, FS_Interval
    <3> QED
      BY <1>b, <3>1, FS_Subset, FS_CardinalityType
  <2> QED
    BY <2>1, <2>2, EvaluatorsFinite
<1>e. Cardinality(W) + Cardinality(C) <= Cardinality(Evaluators)
  BY DEF OpenAndComing
<1>1. CASE \E f \in D : FindOpen(f)
  <2>1. PICK f \in D : FindOpen(f)
    BY <1>1
  <2>2. f \in Evaluators /\ pc'[f] = "create" /\ tgt'[f] = t
    BY DEF Creating
  <2>3. PICK i \in 0 .. Len(incidents) :
          /\ FindOpenIncident(tgt[f], i)
          /\ IF Decision(win[f], i) = "nothing"
               THEN Done(f)
               ELSE /\ pc' = [pc EXCEPT ![f] = Decision(win[f], i)]
                    /\ UNCHANGED <<tgt, probe, win, batch>>
    BY <2>1 DEF FindOpen
  <2>4. Decision(win[f], i) = "create" /\ tgt[f] = t
    BY <1>a, <2>2, <2>3 DEF Done, After
  <2>5. i = 0
    BY <2>4 DEF Decision
  <2>6. OpenOf(t) = {}
    BY <2>3, <2>4, <2>5, <1>a DEF FindOpenIncident, OpenOf, Base, TypeOK
  <2>7. V = {}
    BY <2>1, <2>6 DEF FindOpen, tables, WriterOpen, OpenOf, Untouched, Null
  <2>8. Cardinality(V) = 0
    BY <2>7, FS_EmptySet
  <2> QED
    BY <1>d, <2>8
<1>2. CASE ~\E f \in D : FindOpen(f)
  <2>1. D \subseteq C
    <3> SUFFICES ASSUME NEW f \in D PROVE f \in C
      OBVIOUS
    <3>1. f \in Evaluators /\ pc'[f] = "create" /\ tgt'[f] = t /\ ~FindOpen(f)
      BY <1>2 DEF Creating
    <3>2. pc[f] = pc'[f] /\ tgt'[f] = tgt[f]
      BY <3>1, QuietStep
    <3> QED
      BY <3>1, <3>2 DEF Creating
  <2>2. CASE V \subseteq W
    <3>1. Cardinality(V) <= Cardinality(W) /\ Cardinality(D) <= Cardinality(C)
      BY <1>d, <2>1, <2>2, FS_Subset
    <3> QED
      BY <1>d, <1>e, <3>1
  <2>3. CASE ~(V \subseteq W)
    <3>1. PICK n \in V : n \notin W
      BY <2>3
    <3>2. PICK e \in Evaluators : CreateIncident(e) /\ tgt[e] = t /\ n = Len(incidents) + 1
      BY <3>1, WriterOpenStep
    <3>3. e \in C /\ e \notin D
      BY <3>2, <1>a DEF CreateIncident, Creating
    <3>4. V \subseteq W \cup {n}
      BY <3>2, WriterOpenStep
    <3>5. D \subseteq C \ {e}
      BY <2>1, <3>3
    <3>6. IsFiniteSet(W \cup {n}) /\ Cardinality(W \cup {n}) = Cardinality(W) + 1
      BY <1>d, <3>1, FS_AddElement
    <3>7. IsFiniteSet(C \ {e}) /\ Cardinality(C \ {e}) = Cardinality(C) - 1
      BY <1>d, <3>3, FS_RemoveElement
    <3>8. Cardinality(V) <= Cardinality(W) + 1 /\ Cardinality(D) <= Cardinality(C) - 1
      BY <3>4, <3>5, <3>6, <3>7, FS_Subset
    <3> QED
      BY <1>d, <1>e, <3>8
  <2> QED
    BY <2>2, <2>3
<1> QED
  BY <1>1, <1>2

\* The writer never has more open incidents for a target than there are
\* evaluators, with any number of check-now requests, errors and crashes.
THEOREM DuplicatesBounded == Spec => []BoundedDuplicates
<1>1. Init => OpenAndComing
  <2> SUFFICES ASSUME Init, NEW t \in Targets
               PROVE  Cardinality(WriterOpen(t)) + Cardinality(Creating(t)) <= Cardinality(Evaluators)
    BY DEF OpenAndComing
  <2>1. WriterOpen(t) = {} /\ Creating(t) = {}
    BY DEF Init, WriterOpen, OpenOf, Creating
  <2> QED
    BY <2>1, FS_EmptySet, EvaluatorsFinite
<1>2. Base /\ Base' /\ (WindowsRecorded /\ WritesCalledFor) /\ OpenAndComing /\ [Next]_vars
        => OpenAndComing'
  BY OpenAndComingStep
<1>3. Base /\ OpenAndComing => BoundedDuplicates
  <2> SUFFICES ASSUME Base, OpenAndComing, NEW t \in Targets
               PROVE  Cardinality(OpenOf(t) \cap Untouched(t)) <= Cardinality(Evaluators)
    BY DEF BoundedDuplicates
  <2>1. WriterOpen(t) \in SUBSET DOMAIN incidents /\ Creating(t) \in SUBSET Evaluators
    BY DEF WriterOpen, OpenOf, Creating
  <2>2. Cardinality(WriterOpen(t)) \in Nat /\ Cardinality(Creating(t)) \in Nat
    BY <2>1, CountsFinite DEF Base
  <2>3. Cardinality(WriterOpen(t)) <= Cardinality(Evaluators)
    BY <2>2, EvaluatorsFinite DEF OpenAndComing
  <2> QED
    BY <2>3 DEF WriterOpen
<1> QED
  BY <1>1, <1>2, <1>3, BaseInvariance, WindowsInvariance, PTL DEF Spec

-----------------------------------------------------------------------------
(* BoundedNotices: the notices sent for an incident are counted together     *)
(* with the evaluators that found it open and will send one.                *)

\* The evaluators that found i open and will close it and announce it.
Closing(i) == {e \in Evaluators : pc[e] \in {"close", "closed"} /\ found[e] = i}

SentAndComing ==
    \A i \in DOMAIN incidents : i \notin touched =>
        /\ notices[i] + Cardinality(Closing(i)) <= Cardinality(Evaluators)
        /\ incidents[i].ended = Null =>
              notices[i] = 0 /\ \A e \in Evaluators : ~(pc[e] = "closed" /\ found[e] = i)

\* An evaluator that has closed an incident had done so before, or does it in
\* this step.
LEMMA ClosedStep ==
  ASSUME Base, [Next]_vars, NEW f \in Evaluators, pc'[f] = "closed"
  PROVE  found'[f] = found[f] /\ (pc[f] = "closed" \/ CloseIncident(f))
<1>a. /\ pc \in [Evaluators -> Places] /\ found \in [Evaluators -> 0 .. Len(incidents)]
      /\ Sweeper \in Evaluators /\ Probers \subseteq Evaluators
  BY DEF Base, TypeOK, Evaluators
<1>1. ASSUME NEW e \in Evaluators, Done(e) PROVE pc[f] = "closed" /\ found'[f] = found[f]
  BY <1>a, <1>1 DEF Done, After
<1>2. ASSUME NEW e \in Probers, RecordFails(e) \/ \E t \in Targets : StartProbe(e, t)
      PROVE  pc[f] = "closed" /\ found'[f] = found[f]
  BY <1>a, <1>2 DEF RecordFails, StartProbe
<1>3. ASSUME NEW e \in Evaluators, RecordResult(e) \/ CreateIncident(e)
      PROVE  pc[f] = "closed" /\ found'[f] = found[f]
  BY <1>a, <1>3 DEF RecordResult, CreateIncident
<1>4. ASSUME NEW e \in Evaluators, CloseIncident(e)
      PROVE  (pc[f] = "closed" \/ CloseIncident(f)) /\ found'[f] = found[f]
  <2>1. found' = found /\ pc' = [pc EXCEPT ![e] = "closed"]
    BY <1>4 DEF CloseIncident
  <2> QED
    BY <1>a, <1>4, <2>1
<1>5. ASSUME NEW e \in Evaluators, CheckMaintenance(e) \/ ListResults(e)
      PROVE  pc[f] = "closed" /\ found'[f] = found[f]
  BY <1>a, <1>1, <1>5 DEF CheckMaintenance, ListResults
<1>6. ASSUME NEW e \in Evaluators, FindOpen(e) PROVE pc[f] = "closed" /\ found'[f] = found[f]
  <2>1. PICK i \in 0 .. Len(incidents) :
          IF Decision(win[e], i) = "nothing"
            THEN Done(e)
            ELSE found' = [found EXCEPT ![e] = i] /\ pc' = [pc EXCEPT ![e] = Decision(win[e], i)]
    BY <1>6 DEF FindOpen
  <2>2. Decision(win[e], i) \in {"create", "close", "nothing"}
    BY DEF Decision
  <2> QED
    BY <1>a, <1>1, <2>1, <2>2
<1>7. ASSUME NEW e \in Evaluators, Notify(e) \/ StepFails(e)
      PROVE  pc[f] = "closed" /\ found'[f] = found[f]
  BY <1>a, <1>1, <1>7 DEF Notify, StepFails
<1>8. CASE SweepStep
  BY <1>a, <1>8 DEF SweepStep, StartSweep, SweepTarget, EndSweep
<1>9. CASE Crash
  BY <1>9 DEF Crash
<1>10. CASE OperatorStep \/ UNCHANGED vars
  <2>1. UNCHANGED task
    BY <1>10 DEF OperatorStep, OpenManually, Transition, EditRead, EditWrite, SetMaintenance,
                 SetEnabled, vars
  <2> QED
    BY <2>1 DEF task
<1> QED
  BY <1>2, <1>3, <1>4, <1>5, <1>6, <1>7, <1>8, <1>9, <1>10 DEF Next, EvalStep

\* A notice is counted by the evaluator that sends it, and by no other step.
LEMMA NoticesStep ==
  ASSUME Base, [Next]_vars, NEW i \in DOMAIN incidents
  PROVE  \/ notices'[i] = notices[i]
         \/ \E e \in Evaluators : /\ Notify(e) /\ pc[e] = "closed" /\ found[e] = i
                                  /\ notices'[i] = notices[i] + 1
<1>a. /\ notices \in Seq(Nat) /\ i \in 1 .. Len(notices) /\ Len(notices) \in Nat
      /\ DOMAIN notices = 1 .. Len(notices)
  BY DEF Base, TypeOK
<1>1. ASSUME notices' = Append(notices, 0) PROVE notices'[i] = notices[i]
  BY <1>a, <1>1
<1>2. ASSUME NEW e \in Evaluators, Notify(e), notices'[i] # notices[i]
      PROVE  pc[e] = "closed" /\ found[e] = i /\ notices'[i] = notices[i] + 1
  BY <1>a, <1>2 DEF Notify
<1>3. CASE \E e \in Evaluators : Notify(e)
  BY <1>2, <1>3
<1>4. CASE ~\E e \in Evaluators : Notify(e)
  <2>1. UNCHANGED notices \/ notices' = Append(notices, 0)
    BY <1>4 DEF Next, EvalStep, SweepStep, OperatorStep, RecordFails, StartProbe, RecordResult,
       CheckMaintenance, ListResults, FindOpen, CreateIncident, CloseIncident, StepFails,
       StartSweep, SweepTarget, EndSweep, SetMaintenance, SetEnabled, OpenManually, Transition,
       EditRead, EditWrite, Crash, vars
  <2> QED
    BY <1>1, <2>1
<1> QED
  BY <1>3, <1>4

\* Every step preserves SentAndComing.
LEMMA SentAndComingStep ==
  Base /\ WindowsRecorded /\ SentAndComing /\ Base' /\ [Next]_vars => SentAndComing'
<1> SUFFICES ASSUME Base, WindowsRecorded, SentAndComing, Base', [Next]_vars,
                    NEW i \in DOMAIN incidents', i \notin touched'
             PROVE  /\ notices'[i] + Cardinality(Closing(i)') <= Cardinality(Evaluators)
                    /\ incidents'[i].ended = Null =>
                          /\ notices'[i] = 0
                          /\ \A e \in Evaluators : ~(pc'[e] = "closed" /\ found'[e] = i)
  BY DEF SentAndComing, Null
<1> DEFINE C == Closing(i)
           D == Closing(i)'
<1>a. /\ pc \in [Evaluators -> Places] /\ found \in [Evaluators -> 0 .. Len(incidents)]
      /\ Len(incidents) \in Nat /\ DOMAIN incidents = 1 .. Len(incidents)
      /\ incidents \in Seq(Incident) /\ notices \in Seq(Nat) /\ Len(notices) = Len(incidents)
  BY DEF Base, TypeOK
<1>b. C \in SUBSET Evaluators /\ D \in SUBSET Evaluators
  BY DEF Closing
<1>c. /\ IsFiniteSet(C) /\ IsFiniteSet(D) /\ Cardinality(C) \in Nat /\ Cardinality(D) \in Nat
      /\ Cardinality(D) <= Cardinality(Evaluators) /\ Cardinality(Evaluators) \in Nat
  BY <1>b, CountsFinite, EvaluatorsFinite DEF Base
<1>1. ASSUME NEW e \in Evaluators, CreateIncident(e), i = Len(incidents) + 1
      PROVE  notices'[i] = 0 /\ \A f \in Evaluators : ~(pc'[f] = "closed" /\ found'[f] = i)
  <2>1. notices'[i] = 0
    BY <1>a, <1>1 DEF CreateIncident
  <2> SUFFICES ASSUME NEW f \in Evaluators, pc'[f] = "closed", found'[f] = i PROVE FALSE
    BY <2>1
  <2>2. found'[f] = found[f]
    BY ClosedStep
  <2> QED
    BY <1>a, <1>1, <2>2
<1>2. ASSUME i \in DOMAIN incidents, i \notin touched,
             incidents'[i].ended = Null => incidents[i].ended = Null,
             \A e \in Evaluators : CloseIncident(e) /\ found[e] = i => incidents'[i].ended # Null
      PROVE  /\ notices'[i] + Cardinality(D) <= Cardinality(Evaluators)
             /\ incidents'[i].ended = Null =>
                   /\ notices'[i] = 0
                   /\ \A e \in Evaluators : ~(pc'[e] = "closed" /\ found'[e] = i)
  <2>1. /\ notices[i] + Cardinality(C) <= Cardinality(Evaluators)
        /\ incidents[i].ended = Null =>
              notices[i] = 0 /\ \A e \in Evaluators : ~(pc[e] = "closed" /\ found[e] = i)
    BY <1>2 DEF SentAndComing
  <2>2. notices[i] \in Nat
    BY <1>a, <1>2
  <2>3. CASE \E f \in D : FindOpen(f)
    <3>1. PICK f \in D : FindOpen(f)
      BY <2>3
    <3>2. PICK j \in 0 .. Len(incidents) :
            /\ FindOpenIncident(tgt[f], j)
            /\ IF Decision(win[f], j) = "nothing"
                 THEN Done(f)
                 ELSE /\ found' = [found EXCEPT ![f] = j]
                      /\ pc' = [pc EXCEPT ![f] = Decision(win[f], j)]
      BY <3>1 DEF FindOpen
    <3>3. f \in Evaluators /\ pc'[f] \in {"close", "closed"} /\ found'[f] = i
      BY DEF Closing
    <3>4. j = i /\ i # 0
      BY <1>a, <1>2, <3>2, <3>3 DEF Done, After
    <3>5. incidents[i].ended = Null
      BY <3>2, <3>4 DEF FindOpenIncident, OpenOf
    <3>6. notices'[i] = 0
      BY <2>1, <3>1, <3>5 DEF FindOpen
    <3>7. \A e \in Evaluators : ~(pc'[e] = "closed" /\ found'[e] = i)
      <4> SUFFICES ASSUME NEW e \in Evaluators, pc'[e] = "closed", found'[e] = i PROVE FALSE
        OBVIOUS
      <4>1. found[e] = i /\ (pc[e] = "closed" \/ CloseIncident(e))
        BY ClosedStep
      <4>2. incidents' = incidents
        BY <3>1 DEF FindOpen, tables
      <4> QED
        BY <1>2, <2>1, <3>5, <4>1, <4>2
    <3> QED
      BY <1>c, <3>6, <3>7
  <2>4. CASE ~\E f \in D : FindOpen(f)
    <3>1. D \subseteq C
      <4> SUFFICES ASSUME NEW f \in D PROVE f \in C
        OBVIOUS
      <4>1. f \in Evaluators /\ pc'[f] \in {"close", "closed"} /\ found'[f] = i /\ ~FindOpen(f)
        BY <2>4 DEF Closing
      <4>2. CASE pc'[f] = "close"
        BY <4>1, <4>2, QuietStep DEF Closing
      <4>3. CASE pc'[f] = "closed"
        BY <4>1, <4>3, ClosedStep DEF Closing, CloseIncident
      <4> QED
        BY <4>1, <4>2, <4>3
    <3>2. incidents'[i].ended = Null => \A e \in Evaluators : ~(pc'[e] = "closed" /\ found'[e] = i)
      <4> SUFFICES ASSUME incidents'[i].ended = Null, NEW e \in Evaluators,
                          pc'[e] = "closed", found'[e] = i
                   PROVE  FALSE
        OBVIOUS
      <4>1. found[e] = i /\ (pc[e] = "closed" \/ CloseIncident(e))
        BY ClosedStep
      <4> QED
        BY <1>2, <2>1, <4>1
    <3>3. CASE notices'[i] = notices[i]
      <4>1. Cardinality(D) <= Cardinality(C)
        BY <1>c, <3>1, FS_Subset
      <4> QED
        BY <1>2, <1>c, <2>1, <2>2, <3>2, <3>3, <4>1
    <3>4. CASE notices'[i] # notices[i]
      <4>1. PICK e \in Evaluators : /\ Notify(e) /\ pc[e] = "closed" /\ found[e] = i
                                    /\ notices'[i] = notices[i] + 1
        BY <1>2, <3>4, NoticesStep
      <4>2. e \in C /\ e \notin D
        BY <1>a, <4>1 DEF Closing, Notify, Done, After
      <4>3. D \subseteq C \ {e}
        BY <3>1, <4>2
      <4>4. IsFiniteSet(C \ {e}) /\ Cardinality(C \ {e}) = Cardinality(C) - 1
        BY <1>c, <4>2, FS_RemoveElement
      <4>5. Cardinality(D) <= Cardinality(C) - 1
        BY <4>3, <4>4, FS_Subset
      <4>6. incidents[i].ended # Null
        BY <2>1, <4>1
      <4> QED
        BY <1>2, <1>c, <2>1, <2>2, <4>1, <4>5, <4>6
    <3> QED
      BY <3>3, <3>4
  <2> QED
    BY <2>3, <2>4
<1>3. ASSUME NEW e \in Evaluators, CloseIncident(e), found[e] \in DOMAIN incidents
      PROVE  incidents'[found[e]].ended # Null
  <2>1. PICK r \in win[e] : incidents' = [incidents EXCEPT ![found[e]].ended = r.ts]
    BY <1>3 DEF CloseIncident
  <2>2. /\ incidents[found[e]] \in Incident
        /\ incidents'[found[e]] = [incidents[found[e]] EXCEPT !.ended = r.ts]
    BY <1>a, <1>3, <2>1
  <2>3. r \in hist[tgt[e]] /\ tgt[e] \in Targets /\ r \in Result
    BY DEF Base, TypeOK, WindowsRecorded
  <2>4. r.ts > 0 /\ r.ts \in Nat
    BY <2>3 DEF WindowsRecorded, Result
  <2> QED
    BY <2>2, <2>4 DEF Incident, Null
<1>4. i \notin touched
  BY UntouchedStep
<1>5. CASE i \in DOMAIN incidents
  <2>1. incidents'[i].ended = Null => incidents[i].ended = Null
    BY <1>3, <1>5, UntouchedStep
  <2> QED
    BY <1>2, <1>3, <1>4, <1>5, <2>1
<1>6. CASE i \notin DOMAIN incidents
  <2>1. PICK e \in Evaluators : CreateIncident(e) /\ i = Len(incidents) + 1
    BY <1>6, UntouchedStep
  <2> QED
    BY <1>1, <1>c, <2>1
<1> QED
  BY <1>5, <1>6

\* No incident is announced as resolved more often than there are evaluators,
\* unless an operator reopened or edited it.
THEOREM NoticesBounded == Spec => []BoundedNotices
<1>1. Init => SentAndComing
  BY DEF Init, SentAndComing
<1>2. Base /\ Base' /\ (WindowsRecorded /\ WritesCalledFor) /\ SentAndComing /\ [Next]_vars
        => SentAndComing'
  BY SentAndComingStep
<1>3. Base /\ SentAndComing => BoundedNotices
  <2> SUFFICES ASSUME Base, SentAndComing, NEW t \in Targets, NEW i \in Untouched(t)
               PROVE  notices[i] <= Cardinality(Evaluators)
    BY DEF BoundedNotices
  <2>1. /\ i \in DOMAIN incidents /\ i \notin touched
    BY DEF Untouched
  <2>2. notices[i] \in Nat
    BY <2>1 DEF Base, TypeOK
  <2>3. Closing(i) \in SUBSET Evaluators
    BY DEF Closing
  <2>4. Cardinality(Closing(i)) \in Nat
    BY <2>3, CountsFinite DEF Base
  <2> QED
    BY <2>1, <2>2, <2>4, EvaluatorsFinite DEF SentAndComing
<1> QED
  BY <1>1, <1>2, <1>3, BaseInvariance, WindowsInvariance, PTL DEF Spec

-----------------------------------------------------------------------------
(* MaintenanceSilence.                                                      *)

\* In a silent window no evaluator is past the maintenance check of the target.
SilentIsQuiet ==
    silent \subseteq maintenance /\ \A t \in silent : ~PastCheck(t)

\* Every step preserves SilentIsQuiet.
LEMMA SilentStep == Base /\ SilentIsQuiet /\ [Next]_vars => SilentIsQuiet'
<1> SUFFICES ASSUME Base, SilentIsQuiet, [Next]_vars PROVE SilentIsQuiet'
  OBVIOUS
<1>a. /\ pc \in [Evaluators -> Places] /\ tgt \in [Evaluators -> Targets]
      /\ Sweeper \in Evaluators /\ Probers \subseteq Evaluators
  BY DEF Base, TypeOK, Evaluators
<1>1. ASSUME maintenance' = maintenance, silent' = silent,
             \A t \in silent : \A e \in Evaluators :
                tgt'[e] = t /\ pc'[e] \in {"list", "find", "create", "close"} =>
                   tgt[e] = t /\ pc[e] \in {"list", "find", "create", "close"}
      PROVE  SilentIsQuiet'
  BY <1>1 DEF SilentIsQuiet, PastCheck
<1>2. ASSUME NEW e \in Evaluators, Done(e), maintenance' = maintenance, silent' = silent
      PROVE  SilentIsQuiet'
  <2>1. tgt' = tgt /\ pc' = [pc EXCEPT ![e] = After(e)] /\ After(e) \in {"idle", "loop"}
    BY <1>2 DEF Done, After
  <2> QED
    BY <1>1, <1>2, <1>a, <2>1
<1>3. ASSUME NEW e \in Evaluators, tgt' = tgt, maintenance' = maintenance, silent' = silent,
             NEW p, pc' = [pc EXCEPT ![e] = p],
             \/ p \notin {"list", "find", "create", "close"}
             \/ pc[e] \in {"list", "find", "create", "close"}
             \/ tgt[e] \notin maintenance
      PROVE  SilentIsQuiet'
  <2>1. silent \subseteq maintenance
    BY DEF SilentIsQuiet
  <2> QED
    BY <1>1, <1>3, <1>a, <2>1
<1>4. ASSUME NEW e \in Probers, NEW t \in Targets, StartProbe(e, t) PROVE SilentIsQuiet'
  <2>1. /\ maintenance' = maintenance /\ silent' = silent
        /\ tgt' = [tgt EXCEPT ![e] = t] /\ pc' = [pc EXCEPT ![e] = "probing"]
    BY <1>4 DEF StartProbe, flags
  <2> QED
    BY <1>1, <1>a, <2>1
<1>5. ASSUME NEW e \in Probers, RecordFails(e) PROVE SilentIsQuiet'
  <2>1. /\ maintenance' = maintenance /\ silent' = silent /\ tgt' = tgt
        /\ pc' = [pc EXCEPT ![e] = IF e = Scheduler THEN "maintenance" ELSE "idle"]
    BY <1>5 DEF RecordFails, flags
  <2> QED
    BY <1>1, <1>a, <2>1
<1>6. ASSUME NEW e \in Evaluators, RecordResult(e) \/ CreateIncident(e) \/ CloseIncident(e)
      PROVE  SilentIsQuiet'
  <2>1. maintenance' = maintenance /\ silent' = silent /\ tgt' = tgt
    BY <1>6 DEF RecordResult, CreateIncident, CloseIncident, flags
  <2>2. \E p \in {"maintenance", "opened", "closed"} : pc' = [pc EXCEPT ![e] = p]
    BY <1>6 DEF RecordResult, CreateIncident, CloseIncident
  <2> QED
    BY <1>1, <1>a, <2>1, <2>2
<1>7. ASSUME NEW e \in Evaluators, CheckMaintenance(e) PROVE SilentIsQuiet'
  <2>1. maintenance' = maintenance /\ silent' = silent
    BY <1>7 DEF CheckMaintenance, flags
  <2>2. CASE tgt[e] \in maintenance
    BY <1>2, <1>7, <2>1, <2>2 DEF CheckMaintenance
  <2>3. CASE tgt[e] \notin maintenance
    <3>1. tgt' = tgt /\ pc' = [pc EXCEPT ![e] = IF e = Sweeper THEN "find" ELSE "list"]
      BY <1>7, <2>3 DEF CheckMaintenance
    <3> QED
      BY <1>3, <2>1, <2>3, <3>1
  <2> QED
    BY <2>2, <2>3
<1>8. ASSUME NEW e \in Evaluators, ListResults(e) PROVE SilentIsQuiet'
  <2>1. maintenance' = maintenance /\ silent' = silent /\ pc[e] = "list"
    BY <1>8 DEF ListResults, flags
  <2>2. Done(e) \/ (tgt' = tgt /\ pc' = [pc EXCEPT ![e] = "find"])
    BY <1>8 DEF ListResults
  <2> QED
    BY <1>2, <1>3, <2>1, <2>2
<1>9. ASSUME NEW e \in Evaluators, FindOpen(e) PROVE SilentIsQuiet'
  <2>1. maintenance' = maintenance /\ silent' = silent /\ pc[e] = "find"
    BY <1>9 DEF FindOpen, flags
  <2>2. Done(e) \/ \E p : tgt' = tgt /\ pc' = [pc EXCEPT ![e] = p]
    BY <1>9 DEF FindOpen
  <2> QED
    BY <1>2, <1>3, <2>1, <2>2
<1>10. ASSUME NEW e \in Evaluators, Notify(e) \/ StepFails(e) PROVE SilentIsQuiet'
  <2>1. maintenance' = maintenance /\ silent' = silent
    BY <1>10 DEF Notify, StepFails, flags
  <2>2. Done(e) \/ (tgt' = tgt /\ pc' = [pc EXCEPT ![e] = "idle"])
    BY <1>10 DEF Notify, StepFails
  <2> QED
    BY <1>2, <1>3, <2>1, <2>2
<1>11. CASE SweepStep
  <2>1. maintenance' = maintenance /\ silent' = silent
    BY <1>11 DEF SweepStep, StartSweep, SweepTarget, EndSweep, flags
  <2>2. \E p \in {"loop", "maintenance", "idle"} : pc' = [pc EXCEPT ![Sweeper] = p]
    BY <1>11 DEF SweepStep, StartSweep, SweepTarget, EndSweep
  <2>3. \A f \in Evaluators : f # Sweeper => tgt'[f] = tgt[f]
    BY <1>11, <1>a DEF SweepStep, StartSweep, SweepTarget, EndSweep
  <2> QED
    BY <1>1, <1>a, <2>1, <2>2, <2>3
<1>12. CASE Crash
  BY <1>1, <1>12 DEF Crash, flags
<1>13. ASSUME NEW t \in Targets, SetMaintenance(t) PROVE SilentIsQuiet'
  <2>1. pc' = pc /\ tgt' = tgt
    BY <1>13 DEF SetMaintenance, task
  <2>2. \A u : PastCheck(u)' <=> PastCheck(u)
    BY <2>1 DEF PastCheck
  <2>3. CASE t \in maintenance
    <3>1. maintenance' = maintenance \ {t} /\ silent' = silent \ {t}
      BY <1>13, <2>3 DEF SetMaintenance
    <3> QED
      BY <2>2, <3>1 DEF SilentIsQuiet
  <2>4. CASE t \notin maintenance
    <3>1. /\ maintenance' = maintenance \cup {t}
          /\ silent' = IF PastCheck(t) THEN silent ELSE silent \cup {t}
      BY <1>13, <2>4 DEF SetMaintenance
    <3> QED
      BY <2>2, <3>1 DEF SilentIsQuiet
  <2> QED
    BY <2>3, <2>4
<1>14. CASE (OperatorStep /\ ~\E t \in Targets : SetMaintenance(t)) \/ UNCHANGED vars
  <2>1. maintenance' = maintenance /\ silent' = silent /\ UNCHANGED task
    BY <1>14 DEF OperatorStep, OpenManually, Transition, EditRead, EditWrite, SetEnabled, flags, vars
  <2> QED
    BY <1>1, <2>1 DEF task
<1> QED
  BY <1>4, <1>5, <1>6, <1>7, <1>8, <1>9, <1>10, <1>11, <1>12, <1>13, <1>14
     DEF Next, EvalStep, OperatorStep

\* Within a maintenance window that no evaluation straddles, no evaluator opens
\* or closes an incident of the target.
THEOREM MaintenanceIsSilent == Spec => MaintenanceSilence
<1>1. Init => SilentIsQuiet
  BY DEF Init, SilentIsQuiet
<1>2. Base /\ (WindowsRecorded /\ WritesCalledFor) /\ SilentIsQuiet /\ [Next]_vars =>
        [\A t \in silent : \A i \in Untouched(t)' :
            incidents'[i].auto => i \in Untouched(t) /\ incidents'[i] = incidents[i]]_vars
  <2> SUFFICES ASSUME Base, WritesCalledFor, SilentIsQuiet, [Next]_vars,
                      NEW t \in silent, NEW i \in Untouched(t)'
               PROVE  i \in Untouched(t) /\ incidents'[i] = incidents[i]
    OBVIOUS
  <2>1. i \in DOMAIN incidents' /\ incidents'[i].target = t /\ i \notin touched'
    BY DEF Untouched
  <2>2. ASSUME NEW e \in Evaluators, CreateIncident(e), i = Len(incidents) + 1 PROVE FALSE
    <3>1. incidents'[i].target = tgt[e]
      BY <2>2 DEF CreateIncident, Base, TypeOK
    <3> QED
      BY <2>1, <2>2, <3>1 DEF CreateIncident, SilentIsQuiet, PastCheck
  <2>3. ASSUME NEW e \in Evaluators, CloseIncident(e), i = found[e], i \in DOMAIN incidents PROVE FALSE
    <3>1. incidents'[i].target = incidents[i].target
      BY <2>3, TargetsStay
    <3> QED
      BY <2>1, <2>3, <3>1 DEF CloseIncident, WritesCalledFor, SilentIsQuiet, PastCheck
  <2> QED
    BY <2>1, <2>2, <2>3, UntouchedStep DEF Untouched
<1> QED
  BY <1>1, <1>2, SilentStep, BaseInvariance, WindowsInvariance, PTL DEF Spec, MaintenanceSilence
=============================================================================
