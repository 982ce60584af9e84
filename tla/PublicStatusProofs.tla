------------------------- MODULE PublicStatusProofs -------------------------
(***************************************************************************)
(* Proofs about the public status page: what a settled write guarantees,   *)
(* when a snapshot may contradict itself, that answers never go back, and  *)
(* that the four public surfaces agree.                                    *)
(***************************************************************************)
EXTENDS PublicStatus, FiniteSetTheorems, TLAPS

----------------------------------------------------------------------------
(* Ratings.                                                                *)
ComponentStates == {"operational", "maintenance", "degraded", "partial_outage", "major_outage"}
Outages == {"partial_outage", "major_outage"}

(* Open incidents rate a component as out, and as nothing else. *)
LEMMA WorstIncident ==
    ASSUME NEW open
    PROVE  /\ open = {} => worst_incident_status(open) = Nothing
           /\ open # {} => worst_incident_status(open) \in Outages
<1> DEFINE S == {incident_status(i.severity) : i \in open}
           P(s) == s \in S /\ \A o \in S : component_severity_rank(o) <= component_severity_rank(s)
<1>0. component_severity_rank("partial_outage") = 3 /\ component_severity_rank("major_outage") = 4
  BY DEF component_severity_rank
<1>1. S \subseteq Outages
  BY DEF incident_status, Outages
<1>2. ASSUME open # {} PROVE S # {}
  BY <1>2
<1> HIDE DEF S
<1>3. ASSUME open # {} PROVE \E s \in S : P(s)
  <2>1. CASE "major_outage" \in S
    BY <2>1, <1>0, <1>1 DEF Outages
  <2>2. CASE "major_outage" \notin S
    <3>1. S = {"partial_outage"}
      BY <2>2, <1>1, <1>2, <1>3 DEF Outages
    <3> QED BY <3>1, <1>0
  <2> QED BY <2>1, <2>2
<1>4. ASSUME open # {} PROVE WorstBy(component_severity_rank, S) \in S
  BY <1>4, <1>3 DEF WorstBy
<1>5. open # {} => worst_incident_status(open) = WorstBy(component_severity_rank, S)
  BY DEF worst_incident_status, S
<1>6. open = {} => worst_incident_status(open) = Nothing
  BY DEF worst_incident_status
<1> QED BY <1>1, <1>4, <1>5, <1>6

(* A component is rated, and one with an open incident and no maintenance  *)
(* is rated as out.                                                        *)
LEMMA RatedState ==
    ASSUME NEW t, NEW inMaintenance, NEW rows, NEW latest,
           latest[t] \in Statuses \cup {Nothing}
    PROVE  LET s == StatusOf(t, inMaintenance, rows, latest)
           IN  /\ s \in ComponentStates
               /\ t \in inMaintenance <=> s = "maintenance"
               /\ t \notin inMaintenance /\ (\E i \in rows : i.target = t /\ i.open) => s \in Outages
<1> DEFINE open == {i \in rows : i.target = t /\ i.open}
<1>1. /\ open = {} => worst_incident_status(open) = Nothing
      /\ open # {} => worst_incident_status(open) \in Outages
  BY WorstIncident
<1>2. Nothing \notin Outages
  BY PublicAssumption DEF Outages
<1>3. (\E i \in rows : i.target = t /\ i.open) <=> open # {}
  OBVIOUS
<1>4. StatusOf(t, inMaintenance, rows, latest) =
         IF t \in inMaintenance THEN "maintenance"
         ELSE IF worst_incident_status(open) # Nothing THEN worst_incident_status(open)
         ELSE IF latest[t] = Nothing THEN "operational"
         ELSE component_status_from_result(latest[t])
  BY DEF StatusOf
<1>5. latest[t] # Nothing => component_status_from_result(latest[t]) \in ComponentStates \ {"maintenance"}
  BY PublicAssumption DEF component_status_from_result, ComponentStates
<1> HIDE DEF open
<1> QED BY <1>1, <1>2, <1>3, <1>4, <1>5 DEF Outages, ComponentStates

----------------------------------------------------------------------------
(* The inductive invariant.                                                *)
TableNames == {"page", "bound", "incident", "postmortem", "window", "latest", "logo"}
IncidentTable == [Incidents -> IncidentRows \cup {Nothing}]

\* What the computations read.
TablesOK(d) ==
    /\ DOMAIN d = TableNames
    /\ d.page \in [Pages -> {"absent", "enabled", "disabled"}]
    /\ d.bound \in [Pages -> SUBSET Targets]
    /\ d.incident \in IncidentTable
    /\ d.latest \in [Targets -> Statuses \cup {Nothing}]
TableInv == TablesOK(db)

\* A row an operator holds is a row, and a write it made is one of the writes.
OperatorInv ==
    /\ DOMAIN operator = Operators
    /\ \A o \in Operators :
          /\ Holds(o, "incident") => operator[o].row \in IncidentRows
          /\ operator[o].pc = "wrote" => operator[o].at \in Nat /\ operator[o].at <= writes

SettledInv ==
    /\ writes \in Nat
    /\ settled \in [Pages -> Nat]
    /\ \A p \in Pages : settled[p] <= writes

\* The stages of a computation: before it knows the incidents, and once it has
\* listed the windows.
Early == {"page", "components", "windows", "incidents"}
Late == {"upcoming", "logo", "keep", "insert"}
ViewFields == {"pc", "leader", "began", "bound", "maintained", "looked", "incidents", "status",
               "asked", "published", "listed", "stirred", "upcoming", "logo"}

OutIn(c, t) ==
    t \notin c.maintained /\ \E i \in Rows(c.incidents) : c.incidents[i].target = t /\ c.incidents[i].open

\* What a computation has made of what it read.
RatedOK(c, t) ==
    /\ c.status[t] \in ComponentStates
    /\ t \in c.maintained <=> c.status[t] = "maintenance"
    /\ OutIn(c, t) => c.status[t] \in Outages

ViewInv(c) ==
    /\ DOMAIN c = ViewFields
    /\ c.pc \in Early \cup {"details"} \cup Late
    /\ c.bound \subseteq Targets
    /\ c.incidents \in IncidentTable
    /\ DOMAIN c.status \subseteq c.bound
    /\ \A t \in DOMAIN c.status : RatedOK(c, t)
    /\ c.pc \in Early => DOMAIN c.status = {}
    /\ c.pc \in Late => /\ DOMAIN c.status = c.bound
                        /\ \A t \in Targets \ c.stirred : t \in c.maintained <=> t \in c.listed

\* Between the two reads of the windows, a component that is not as the
\* computation saw it has moved since then.
FollowsAt(c, maintained, moves, now) ==
    c.pc \in {"incidents", "details"} =>
        /\ c.looked \in Nat /\ c.looked <= now
        /\ \A t \in Targets : (t \in c.maintained <=> t \in maintained) \/ moves[t] > c.looked

MovesInv ==
    /\ hour \in Nat
    /\ \A p \in Pages : compute[p] # NoComputation => FollowsAt(compute[p], Maintained, moved, Now)

\* No computation in flight is older than what is settled.
ComputeInv ==
    /\ DOMAIN compute = Pages
    /\ \A p \in Pages : compute[p] # NoComputation =>
          /\ ViewInv(compute[p])
          /\ compute[p].began \in Nat
          /\ settled[p] <= compute[p].began

Coherent(s) ==
    /\ \A t \in DOMAIN s.status \ s.stirred : s.status[t] = "maintenance" <=> t \in s.listed
    /\ \A a \in s.active : /\ s.status[a[2]] \in {"partial_outage", "major_outage"}
                           /\ a[2] \in s.stirred \/ a[2] \notin s.listed

\* Neither is a snapshot in the hot layer.
HotInv ==
    /\ DOMAIN hot = Pages
    /\ \A p \in Pages : hot[p] # Nothing =>
          /\ Coherent(hot[p])
          /\ hot[p].began \in Nat
          /\ settled[p] <= hot[p].began

ReaderFields == {"pc", "page", "stale", "began", "must", "known", "answer", "seen"}
\* A request must see a write the computation it waits for has seen.
ReaderOK(x) ==
    /\ ReaderFields \subseteq DOMAIN x
    /\ x.must \in Nat /\ x.must <= writes
    /\ x.pc = "waiting" =>
          /\ x.page \in Pages
          /\ compute[x.page] # NoComputation => x.must <= compute[x.page].began
    /\ x.pc = "done" /\ x.answer = "fresh" => x.seen >= x.must
ReaderInv == DOMAIN reader = Readers /\ \A r \in Readers : ReaderOK(reader[r])

PublicIInv == TableInv /\ OperatorInv /\ SettledInv /\ MovesInv /\ ComputeInv /\ HotInv /\ ReaderInv

----------------------------------------------------------------------------
(* Snapshots.                                                              *)

(* A computation that has read everything makes a snapshot that            *)
(* contradicts itself only about components that moved between its reads,  *)
(* whatever else was written.                                              *)
LEMMA SnapshotIsCoherent ==
    ASSUME NEW c, ViewInv(c), c.pc \in {"keep", "insert"}
    PROVE  Coherent(Snapshot(c)) /\ Snapshot(c).began = c.began
<1> DEFINE s == Snapshot(c)
<1>1. /\ c.bound \subseteq Targets
      /\ DOMAIN c.status = c.bound
      /\ \A t \in c.bound : RatedOK(c, t)
      /\ \A t \in Targets \ c.stirred : t \in c.maintained <=> t \in c.listed
  BY DEF ViewInv, Late
<1>2. /\ s.began = c.began /\ s.status = c.status /\ s.stirred = c.stirred /\ s.listed = c.listed
      /\ s.active = {<<i, c.incidents[i].target>> : i \in ActiveIncidents(c)}
  BY DEF Snapshot
<1> HIDE DEF s
<1>3. ASSUME NEW t \in DOMAIN s.status \ s.stirred
      PROVE  s.status[t] = "maintenance" <=> t \in s.listed
  BY <1>1, <1>2 DEF RatedOK
<1>4. ASSUME NEW a \in s.active
      PROVE  /\ s.status[a[2]] \in {"partial_outage", "major_outage"}
             /\ a[2] \in s.stirred \/ a[2] \notin s.listed
  <2>1. PICK i \in ActiveIncidents(c) : a = <<i, c.incidents[i].target>>
    BY <1>2
  <2>2. PICK t : t = c.incidents[i].target
    OBVIOUS
  <2>3. i \in Rows(c.incidents) /\ c.incidents[i].open /\ t \notin c.maintained /\ t \in c.bound
    BY <2>2 DEF ActiveIncidents, OpenRows, OnPage
  <2>4. OutIn(c, t)
    BY <2>2, <2>3 DEF OutIn
  <2>5. c.status[t] \in Outages
    BY <1>1, <2>3, <2>4 DEF RatedOK
  <2>6. t \in c.stirred \/ t \notin c.listed
    BY <1>1, <2>3
  <2>7. a[2] = t
    BY <2>1, <2>2
  <2> QED BY <1>2, <2>5, <2>6, <2>7 DEF Outages
<1> QED BY <1>2, <1>3, <1>4 DEF Coherent, s

----------------------------------------------------------------------------
(* The reads of a computation.                                             *)

(* A write or a tick of the clock moves time, and what it does to          *)
(* maintenance is noted.                                                   *)
LEMMA MovesOn ==
    ASSUME MovesInv, SettledInv, NoteMoves, UNCHANGED compute,
           \/ writes' = writes + 1 /\ hour' = hour
           \/ writes' = writes /\ hour' = hour + 1
    PROVE  MovesInv'
<1>1. hour \in Nat /\ writes \in Nat /\ hour' \in Nat /\ writes' \in Nat /\ Now \in Nat /\ Now' = Now + 1
  BY DEF MovesInv, SettledInv, Now
<1>2. PICK m : m = Maintained
  OBVIOUS
<1>3. PICK n : n = Maintained'
  OBVIOUS
<1>4. PICK k \in Nat : k = Now
  BY <1>1
<1>5. Now' = k + 1
  BY <1>1, <1>4
<1>6. moved' = [t \in Targets |-> IF (t \in m) = (t \in n) THEN moved[t] ELSE k + 1]
  BY <1>2, <1>3, <1>5 DEF NoteMoves
<1>7. ASSUME NEW p \in Pages, compute[p] # NoComputation
      PROVE  FollowsAt(compute[p], n, moved', k + 1)
  <2>1. FollowsAt(compute[p], m, moved, k)
    BY <1>2, <1>4, <1>7 DEF MovesInv
  <2>2. PICK c : c = compute[p]
    OBVIOUS
  <2>3. ASSUME c.pc \in {"incidents", "details"}
        PROVE  /\ c.looked \in Nat /\ c.looked <= k + 1
               /\ \A t \in Targets : (t \in c.maintained <=> t \in n) \/ moved'[t] > c.looked
    <3>1. c.looked \in Nat /\ c.looked <= k
      BY <2>1, <2>2, <2>3 DEF FollowsAt
    <3>2. ASSUME NEW t \in Targets, ~(t \in c.maintained <=> t \in n) PROVE moved'[t] > c.looked
      <4>1. CASE (t \in m) = (t \in n)
        BY <4>1, <1>6, <2>1, <2>2, <2>3, <3>2 DEF FollowsAt
      <4>2. CASE (t \in m) # (t \in n)
        <5>1. moved'[t] = k + 1
          BY <4>2, <1>6
        <5> QED BY <5>1, <3>1
      <4> QED BY <4>1, <4>2
    <3> QED BY <3>1, <3>2
  <2> QED BY <2>2, <2>3 DEF FollowsAt
<1> QED BY <1>1, <1>3, <1>5, <1>7 DEF MovesInv

(* Without either, maintenance is what it was. *)
LEMMA StandsStill ==
    ASSUME UNCHANGED <<db, hour, writes, moved>>
    PROVE  Maintained' = Maintained /\ Now' = Now
  BY DEF Maintained, Active, Covered, Rows, Now

(* A computation that starts has read nothing. *)
LEMMA StartsFresh ==
    ASSUME NEW r
    PROVE  /\ ViewInv(Start(r)) /\ Start(r).began = writes /\ Start(r).leader = r
           /\ Start(r).pc = "page" /\ Start(r) # NoComputation
<1>1. PICK c : c = Start(r)
  OBVIOUS
<1>2. /\ DOMAIN c = ViewFields /\ c.pc = "page" /\ c.bound = {} /\ c.began = writes /\ c.leader = r
      /\ c.incidents = [i \in Incidents |-> Nothing] /\ DOMAIN c.status = {}
  BY <1>1 DEF Start, ViewFields
<1>3. c.incidents \in IncidentTable
  BY <1>2 DEF IncidentTable
<1>4. c # NoComputation
  BY <1>2 DEF NoComputation
<1> QED BY <1>1, <1>2, <1>3, <1>4 DEF ViewInv, Early, Late

\* A computation has gone on from c to v.
GoesOn(c, v) ==
    /\ ViewInv(v) /\ FollowsAt(v, Maintained, moved, Now)
    /\ v.began = c.began /\ v.leader = c.leader

(* The reads keep what is known of a computation. *)
LEMMA ReadsGoOn ==
    ASSUME TableInv, SettledInv, MovesInv, NEW p \in Pages, NEW c, ViewInv(c), FollowsAt(c, Maintained, moved, Now)
    PROVE  /\ c.pc = "page" => GoesOn(c, ReadPage(c))
           /\ c.pc = "components" => GoesOn(c, ReadComponents(c, p))
           /\ c.pc = "windows" => GoesOn(c, ReadWindows(c))
           /\ c.pc = "incidents" => GoesOn(c, ReadIncidents(c))
           /\ c.pc = "details" => \A t \in Unrated(c) : GoesOn(c, RateComponent(c, t))
           /\ c.pc = "details" => \A i, loaded : GoesOn(c, AskPostmortem(c, i, loaded))
           /\ c.pc = "details" /\ Unrated(c) = {} => GoesOn(c, ReadActive(c))
           /\ c.pc = "upcoming" => GoesOn(c, ReadUpcoming(c))
           /\ c.pc = "logo" => GoesOn(c, ReadLogo(c, p))
           /\ c.pc = "keep" => GoesOn(c, [c EXCEPT !.pc = "insert"])
<1>0. /\ DOMAIN c = ViewFields
      /\ c.bound \subseteq Targets /\ c.incidents \in IncidentTable
      /\ DOMAIN c.status \subseteq c.bound /\ \A t \in DOMAIN c.status : RatedOK(c, t)
  BY DEF ViewInv
<1>a. /\ db.bound[p] \subseteq Targets /\ db.incident \in IncidentTable
      /\ \A t \in Targets : db.latest[t] \in Statuses \cup {Nothing}
  BY DEF TableInv, TablesOK
<1>b. ASSUME NEW v, v.bound = c.bound, v.maintained = c.maintained, v.incidents = c.incidents, v.status = c.status
      PROVE  /\ v.bound \subseteq Targets /\ v.incidents \in IncidentTable
             /\ DOMAIN v.status \subseteq v.bound /\ \A t \in DOMAIN v.status : RatedOK(v, t)
  BY <1>0, <1>b DEF RatedOK, OutIn
<1>1. ASSUME c.pc = "page" PROVE GoesOn(c, ReadPage(c))
  <2>1. PICK v : v = ReadPage(c)
    OBVIOUS
  <2>2. DOMAIN v = ViewFields /\ v.pc = "components" /\ \A f \in ViewFields \ {"pc"} : v[f] = c[f]
    BY <1>0, <2>1 DEF ReadPage, ViewFields
  <2>3. /\ v.bound = c.bound /\ v.maintained = c.maintained /\ v.incidents = c.incidents /\ v.status = c.status
        /\ v.began = c.began /\ v.leader = c.leader
    BY <2>2 DEF ViewFields
  <2>4. DOMAIN c.status = {}
    BY <1>1 DEF ViewInv, Early
  <2> QED BY <2>1, <2>2, <2>3, <2>4, <1>b DEF GoesOn, ViewInv, FollowsAt, Early, Late
<1>2. ASSUME c.pc = "components" PROVE GoesOn(c, ReadComponents(c, p))
  <2>1. PICK v : v = ReadComponents(c, p)
    OBVIOUS
  <2>2. DOMAIN v = ViewFields /\ v.pc = "windows" /\ v.bound = db.bound[p]
        /\ \A f \in ViewFields \ {"pc", "bound"} : v[f] = c[f]
    BY <1>0, <2>1 DEF ReadComponents, ViewFields
  <2>3. v.incidents = c.incidents /\ v.status = c.status /\ v.began = c.began /\ v.leader = c.leader
    BY <2>2 DEF ViewFields
  <2>4. DOMAIN c.status = {}
    BY <1>2 DEF ViewInv, Early
  <2> QED BY <2>1, <2>2, <2>3, <2>4, <1>0, <1>a DEF GoesOn, ViewInv, FollowsAt, Early, Late
<1>3. ASSUME c.pc = "windows" PROVE GoesOn(c, ReadWindows(c))
  <2>1. PICK v : v = ReadWindows(c)
    OBVIOUS
  <2>2. DOMAIN v = ViewFields /\ v.pc = "incidents" /\ v.maintained = Maintained /\ v.looked = Now
        /\ \A f \in ViewFields \ {"pc", "maintained", "looked"} : v[f] = c[f]
    BY <1>0, <2>1 DEF ReadWindows, ViewFields
  <2>3. v.bound = c.bound /\ v.incidents = c.incidents /\ v.status = c.status /\ v.began = c.began /\ v.leader = c.leader
    BY <2>2 DEF ViewFields
  <2>4. DOMAIN c.status = {}
    BY <1>3 DEF ViewInv, Early
  <2>5. Now \in Nat
    BY DEF SettledInv, MovesInv, Now
  <2>6. FollowsAt(v, Maintained, moved, Now)
    BY <2>2, <2>5 DEF FollowsAt
  <2> QED BY <2>1, <2>2, <2>3, <2>4, <2>6, <1>0 DEF GoesOn, ViewInv, Early, Late
<1>4. ASSUME c.pc = "incidents" PROVE GoesOn(c, ReadIncidents(c))
  <2>1. PICK v : v = ReadIncidents(c)
    OBVIOUS
  <2>2. DOMAIN v = ViewFields /\ v.pc = "details" /\ v.incidents = db.incident
        /\ \A f \in ViewFields \ {"pc", "incidents"} : v[f] = c[f]
    BY <1>0, <2>1 DEF ReadIncidents, ViewFields
  <2>3. /\ v.bound = c.bound /\ v.maintained = c.maintained /\ v.status = c.status /\ v.looked = c.looked
        /\ v.began = c.began /\ v.leader = c.leader
    BY <2>2 DEF ViewFields
  <2>4. DOMAIN c.status = {}
    BY <1>4 DEF ViewInv, Early
  <2>5. FollowsAt(v, Maintained, moved, Now)
    BY <1>4, <2>2, <2>3 DEF FollowsAt
  <2> QED BY <2>1, <2>2, <2>3, <2>4, <2>5, <1>0, <1>a DEF GoesOn, ViewInv, Early, Late
<1>5. ASSUME c.pc = "details", NEW t \in Unrated(c) PROVE GoesOn(c, RateComponent(c, t))
  <2> DEFINE rows == {c.incidents[i] : i \in Rows(c.incidents)}
             rating == StatusOf(t, c.maintained, rows, db.latest)
  <2>1. PICK v : v = RateComponent(c, t)
    OBVIOUS
  <2>2. PICK s : s = rating
    OBVIOUS
  <2>3. DOMAIN v = ViewFields /\ v.status = [u \in DOMAIN c.status \cup {t} |-> IF u = t THEN s ELSE c.status[u]]
        /\ \A f \in ViewFields \ {"status"} : v[f] = c[f]
    BY <1>0, <2>1, <2>2 DEF RateComponent, ViewFields
  <2>4. /\ v.bound = c.bound /\ v.maintained = c.maintained /\ v.incidents = c.incidents /\ v.looked = c.looked
        /\ v.pc = c.pc /\ v.began = c.began /\ v.leader = c.leader
    BY <2>3 DEF ViewFields
  <2>5. t \in c.bound /\ t \in Targets
    BY <1>0 DEF Unrated
  <2>6. /\ s \in ComponentStates
        /\ t \in c.maintained <=> s = "maintenance"
        /\ t \notin c.maintained /\ (\E i \in rows : i.target = t /\ i.open) => s \in Outages
    <3> HIDE DEF rows
    <3> QED BY <2>2, <2>5, <1>a, RatedState
  <2>7. ASSUME NEW u \in DOMAIN v.status PROVE RatedOK(v, u)
    <3>1. OutIn(v, u) <=> OutIn(c, u)
      BY <2>4 DEF OutIn
    <3>2. CASE u = t
      <4>1. v.status[u] = s
        BY <2>3, <3>2
      <4>2. OutIn(c, t) => t \notin c.maintained /\ \E i \in rows : i.target = t /\ i.open
        BY DEF OutIn
      <4> HIDE DEF rows
      <4> QED BY <2>4, <2>6, <3>1, <3>2, <4>1, <4>2 DEF RatedOK
    <3>3. CASE u # t
      <4>1. u \in DOMAIN c.status /\ v.status[u] = c.status[u]
        BY <2>3, <3>3
      <4> QED BY <1>0, <2>4, <3>1, <4>1 DEF RatedOK
    <3> QED BY <3>2, <3>3
  <2>8. DOMAIN v.status \subseteq v.bound
    BY <1>0, <2>3, <2>4, <2>5
  <2>9. FollowsAt(v, Maintained, moved, Now)
    BY <2>4 DEF FollowsAt
  <2>10. ViewInv(v)
    BY <1>0, <1>5, <2>3, <2>4, <2>7, <2>8 DEF ViewInv, Early, Late
  <2> QED BY <2>1, <2>4, <2>9, <2>10 DEF GoesOn
<1>6. ASSUME c.pc = "details", NEW i, NEW loaded PROVE GoesOn(c, AskPostmortem(c, i, loaded))
  <2>1. PICK v : v = AskPostmortem(c, i, loaded)
    OBVIOUS
  <2>2. DOMAIN v = ViewFields /\ \A f \in ViewFields \ {"asked", "published"} : v[f] = c[f]
    BY <1>0, <2>1 DEF AskPostmortem, ViewFields
  <2>3. /\ v.bound = c.bound /\ v.maintained = c.maintained /\ v.incidents = c.incidents /\ v.status = c.status
        /\ v.looked = c.looked /\ v.pc = c.pc /\ v.began = c.began /\ v.leader = c.leader
    BY <2>2 DEF ViewFields
  <2>4. FollowsAt(v, Maintained, moved, Now)
    BY <2>3 DEF FollowsAt
  <2> QED BY <2>1, <2>2, <2>3, <2>4, <1>6, <1>b DEF GoesOn, ViewInv, Early, Late
<1>7. ASSUME c.pc = "details", Unrated(c) = {} PROVE GoesOn(c, ReadActive(c))
  <2>1. PICK v : v = ReadActive(c)
    OBVIOUS
  <2>2. DOMAIN v = ViewFields /\ v.pc = "upcoming" /\ v.listed = Maintained
        /\ v.stirred = {t \in Targets : moved[t] > c.looked}
        /\ \A f \in ViewFields \ {"pc", "listed", "stirred"} : v[f] = c[f]
    BY <1>0, <2>1 DEF ReadActive, ViewFields
  <2>3. /\ v.bound = c.bound /\ v.maintained = c.maintained /\ v.incidents = c.incidents /\ v.status = c.status
        /\ v.began = c.began /\ v.leader = c.leader
    BY <2>2 DEF ViewFields
  <2>4. DOMAIN v.status = v.bound
    BY <1>0, <1>7, <2>3 DEF Unrated
  <2>5. \A t \in Targets \ v.stirred : t \in v.maintained <=> t \in v.listed
    BY <1>7, <2>2, <2>3 DEF FollowsAt
  <2> QED BY <2>1, <2>2, <2>3, <2>4, <2>5, <1>b DEF GoesOn, ViewInv, FollowsAt, Early, Late
<1>8. ASSUME NEW v, DOMAIN v = ViewFields, v.pc \in Late, c.pc \in Late,
             \A f \in ViewFields \ {"pc", "upcoming", "logo"} : v[f] = c[f]
      PROVE  GoesOn(c, v)
  <2>1. /\ v.bound = c.bound /\ v.maintained = c.maintained /\ v.incidents = c.incidents /\ v.status = c.status
        /\ v.listed = c.listed /\ v.stirred = c.stirred /\ v.began = c.began /\ v.leader = c.leader
    BY <1>8 DEF ViewFields
  <2>2. DOMAIN c.status = c.bound /\ \A t \in Targets \ c.stirred : t \in c.maintained <=> t \in c.listed
    BY <1>8 DEF ViewInv
  <2> QED BY <2>1, <2>2, <1>8, <1>b DEF GoesOn, ViewInv, FollowsAt, Early, Late
<1>9. ASSUME c.pc = "upcoming" PROVE GoesOn(c, ReadUpcoming(c))
  <2>1. PICK v : v = ReadUpcoming(c)
    OBVIOUS
  <2>2. DOMAIN v = ViewFields /\ v.pc = "logo" /\ \A f \in ViewFields \ {"pc", "upcoming"} : v[f] = c[f]
    BY <1>0, <2>1 DEF ReadUpcoming, ViewFields
  <2> QED BY <2>1, <2>2, <1>8, <1>9 DEF Late
<1>10. ASSUME c.pc = "logo" PROVE GoesOn(c, ReadLogo(c, p))
  <2>1. PICK v : v = ReadLogo(c, p)
    OBVIOUS
  <2>2. DOMAIN v = ViewFields /\ v.pc = "keep" /\ \A f \in ViewFields \ {"pc", "logo"} : v[f] = c[f]
    BY <1>0, <2>1 DEF ReadLogo, ViewFields
  <2> QED BY <2>1, <2>2, <1>8, <1>10 DEF Late
<1>11. ASSUME c.pc = "keep" PROVE GoesOn(c, [c EXCEPT !.pc = "insert"])
  <2>1. PICK v : v = [c EXCEPT !.pc = "insert"]
    OBVIOUS
  <2>2. DOMAIN v = ViewFields /\ v.pc = "insert" /\ \A f \in ViewFields \ {"pc"} : v[f] = c[f]
    BY <1>0, <2>1 DEF ViewFields
  <2> QED BY <2>1, <2>2, <1>8, <1>11 DEF Late
<1> QED BY <1>1, <1>2, <1>3, <1>4, <1>5, <1>6, <1>7, <1>9, <1>10, <1>11

----------------------------------------------------------------------------
(* What the console does to the tables.  A handler reads a row, writes one *)
(* or gives up.                                                            *)
ConsoleStep ==
    /\ TableInv' /\ OperatorInv' /\ SettledInv'
    /\ \/ UNCHANGED tables
       \/ writes < MaxWrites /\ writes' = writes + 1 /\ NoteMoves
    /\ UNCHANGED console

LEMMA ReadKeeps ==
    ASSUME TableInv, OperatorInv, SettledInv, NEW o \in Operators, NEW kind, NEW key, NEW row,
           Read(o, kind, key, row), kind = "incident" => row \in IncidentRows
    PROVE  ConsoleStep
<1>1. /\ operator' = [operator EXCEPT ![o] = [pc |-> "read", kind |-> kind, key |-> key, row |-> row]]
      /\ UNCHANGED <<db, writes>> /\ UNCHANGED tables /\ UNCHANGED console /\ UNCHANGED settled
  BY DEF Read, tables, console
<1>2. ASSUME NEW q \in Operators
      PROVE  /\ (Holds(q, "incident") => operator[q].row \in IncidentRows)'
             /\ (operator[q].pc = "wrote" => operator[q].at \in Nat /\ operator[q].at <= writes)'
  <2>1. CASE q = o
    BY <2>1, <1>1 DEF OperatorInv, Holds
  <2>2. CASE q # o
    BY <2>2, <1>1 DEF OperatorInv, Holds
  <2> QED BY <2>1, <2>2
<1>3. TableInv' /\ SettledInv'
  BY <1>1 DEF TableInv, SettledInv
<1>4. (DOMAIN operator = Operators)'
  BY <1>1 DEF OperatorInv
<1> QED BY <1>1, <1>2, <1>3, <1>4 DEF ConsoleStep, OperatorInv

LEMMA GiveUpKeeps ==
    ASSUME TableInv, OperatorInv, SettledInv, NEW o \in Operators, GiveUp(o)
    PROVE  ConsoleStep
<1>1. /\ operator' = [operator EXCEPT ![o] = IdleOperator]
      /\ UNCHANGED <<db, writes>> /\ UNCHANGED tables /\ UNCHANGED console /\ UNCHANGED settled
  BY DEF GiveUp, tables, console
<1>2. ASSUME NEW q \in Operators
      PROVE  /\ (Holds(q, "incident") => operator[q].row \in IncidentRows)'
             /\ (operator[q].pc = "wrote" => operator[q].at \in Nat /\ operator[q].at <= writes)'
  <2>1. CASE q = o
    BY <2>1, <1>1 DEF OperatorInv, Holds, IdleOperator
  <2>2. CASE q # o
    BY <2>2, <1>1 DEF OperatorInv, Holds
  <2> QED BY <2>1, <2>2
<1>3. TableInv' /\ SettledInv'
  BY <1>1 DEF TableInv, SettledInv
<1>4. (DOMAIN operator = Operators)'
  BY <1>1 DEF OperatorInv
<1> QED BY <1>1, <1>2, <1>3, <1>4 DEF ConsoleStep, OperatorInv

LEMMA WriteKeeps ==
    ASSUME TableInv, OperatorInv, SettledInv, NEW o \in Operators, NEW new, NEW scope,
           Write(o, new, scope), TablesOK(new)
    PROVE  ConsoleStep
<1>1. /\ operator' = [operator EXCEPT ![o] = [pc |-> "wrote", scope |-> scope, at |-> writes + 1]]
      /\ db' = new /\ writes < MaxWrites /\ writes' = writes + 1 /\ NoteMoves
      /\ UNCHANGED console /\ UNCHANGED settled
  BY DEF Write, console
<1>2. ASSUME NEW q \in Operators
      PROVE  /\ (Holds(q, "incident") => operator[q].row \in IncidentRows)'
             /\ (operator[q].pc = "wrote" => operator[q].at \in Nat /\ operator[q].at <= writes)'
  <2>1. CASE q = o
    BY <2>1, <1>1 DEF OperatorInv, Holds, SettledInv
  <2>2. CASE q # o
    BY <2>2, <1>1 DEF OperatorInv, Holds, SettledInv
  <2> QED BY <2>1, <2>2
<1>3. TableInv' /\ SettledInv'
  BY <1>1 DEF TableInv, SettledInv
<1>4. (DOMAIN operator = Operators)'
  BY <1>1 DEF OperatorInv
<1> QED BY <1>1, <1>2, <1>3, <1>4 DEF ConsoleStep, OperatorInv

LEMMA RowKeeps ==
    ASSUME TableInv, OperatorInv, SettledInv, NEW o \in Operators,
           NEW table \in TableNames, NEW key, NEW row, NEW scope,
           WriteRow(o, table, key, row, scope),
           table = "page" => row \in {"absent", "enabled", "disabled"},
           table = "bound" => row \subseteq Targets,
           table = "incident" => row \in IncidentRows \cup {Nothing},
           table = "latest" => row \in Statuses \cup {Nothing}
    PROVE  ConsoleStep
<1>1. PICK new : new = [db EXCEPT ![table] = [db[table] EXCEPT ![key] = row]]
  OBVIOUS
<1>2. Write(o, new, scope)
  BY <1>1 DEF WriteRow
<1>3. DOMAIN new = TableNames /\ \A q \in TableNames \ {table} : new[q] = db[q]
  BY <1>1 DEF TableInv, TablesOK
<1>4. new[table] = [db[table] EXCEPT ![key] = row]
  BY <1>1 DEF TableInv, TablesOK
<1>p. new.page \in [Pages -> {"absent", "enabled", "disabled"}]
  BY <1>3, <1>4 DEF TableInv, TablesOK, TableNames
<1>5. new.bound \in [Pages -> SUBSET Targets]
  BY <1>3, <1>4 DEF TableInv, TablesOK, TableNames
<1>6. new.incident \in IncidentTable
  BY <1>3, <1>4 DEF TableInv, TablesOK, TableNames, IncidentTable
<1>7. new.latest \in [Targets -> Statuses \cup {Nothing}]
  BY <1>3, <1>4 DEF TableInv, TablesOK, TableNames
<1> QED BY <1>2, <1>3, <1>p, <1>5, <1>6, <1>7, WriteKeeps DEF TablesOK

(* A row that is patched is a row. *)
LEMMA PatchedRow ==
    ASSUME NEW row \in IncidentRows, NEW severity \in Severities \cup {Nothing},
           NEW ended \in BOOLEAN, NEW titled \in BOOLEAN
    PROVE  PatchedIncident(row, severity, ended, titled) \in IncidentRows
<1>1. PICK s \in Severities : s = IF severity = Nothing THEN row.severity ELSE severity
  BY DEF IncidentRows
<1>2. PICK b \in BOOLEAN : b = (row.open /\ ~ended)
  OBVIOUS
<1>3. PICK d \in BOOLEAN : d = (row.titled \/ titled)
  OBVIOUS
<1>4. PatchedIncident(row, severity, ended, titled) = [row EXCEPT !.severity = s, !.open = b, !.titled = d]
  BY <1>1, <1>2, <1>3 DEF PatchedIncident
<1> QED BY <1>4 DEF IncidentRows

LEMMA ConsoleKeeps ==
    ASSUME TableInv, OperatorInv, SettledInv, NEW o \in Operators,
           \/ PageHandlers(o) \/ WindowHandlers(o) \/ IncidentHandlers(o)
           \/ \E t \in Targets, s \in Statuses : check_target_now(o, t, s)
    PROVE  ConsoleStep
<1>0. /\ "page" \in TableNames /\ "bound" \in TableNames /\ "incident" \in TableNames /\ "postmortem" \in TableNames
      /\ "window" \in TableNames /\ "latest" \in TableNames /\ "logo" \in TableNames
  BY DEF TableNames
<1>a. /\ db.bound \in [Pages -> SUBSET Targets] /\ db.incident \in [Incidents -> IncidentRows \cup {Nothing}]
      /\ TablesOK(db)
  BY DEF TableInv, TablesOK, IncidentTable
<1>1. CASE PageHandlers(o)
  <2>1. PICK p \in Pages :
            \/ \E e \in {"enabled", "disabled"} : create_status_page(o, p, e) \/ update_status_page(o, p, e)
            \/ delete_status_page(o, p)
            \/ \E t \in Targets : add_component(o, p, t) \/ update_component(o, p, t) \/ remove_component(o, p, t)
            \/ reorder_components(o, p)
            \/ \E hash \in 0 .. 1 : write_asset(o, p, hash)
    BY <1>1 DEF PageHandlers
  <2>2. ASSUME NEW e \in {"enabled", "disabled"}, create_status_page(o, p, e) \/ update_status_page(o, p, e)
        PROVE  ConsoleStep
    BY <2>2, <1>0, RowKeeps, ReadKeeps, GiveUpKeeps DEF create_status_page, update_status_page
  <2>3. CASE delete_status_page(o, p)
    BY <2>3, <1>0, RowKeeps DEF delete_status_page
  <2>4. ASSUME NEW t \in Targets, add_component(o, p, t) \/ update_component(o, p, t) \/ remove_component(o, p, t)
        PROVE  ConsoleStep
    <3>1. db.bound[p] \cup {t} \subseteq Targets /\ db.bound[p] \ {t} \subseteq Targets
      BY <1>a
    <3> QED BY <2>4, <3>1, <1>0, RowKeeps, ReadKeeps DEF add_component, update_component, remove_component
  <2>5. CASE reorder_components(o, p)
    BY <2>5, <1>a, WriteKeeps DEF reorder_components
  <2>6. ASSUME NEW hash \in 0 .. 1, write_asset(o, p, hash) PROVE ConsoleStep
    BY <2>6, <1>0, RowKeeps DEF write_asset
  <2> QED BY <2>1, <2>2, <2>3, <2>4, <2>5, <2>6
<1>2. CASE WindowHandlers(o)
  <2>1. PICK w \in Windows :
            \/ \E row \in WindowRows : create_maintenance_window(o, w, row)
            \/ \E starts, ends \in 0 .. MaxHour + 1 \cup {Nothing}, covers \in SUBSET Targets \cup {Nothing} :
                  update_maintenance_window(o, w, starts, ends, covers)
            \/ delete_maintenance_window(o, w)
    BY <1>2 DEF WindowHandlers
  <2>2. ASSUME NEW row \in WindowRows, create_maintenance_window(o, w, row) PROVE ConsoleStep
    BY <2>2, <1>0, RowKeeps DEF create_maintenance_window
  <2>3. ASSUME NEW starts, NEW ends, NEW covers, update_maintenance_window(o, w, starts, ends, covers) PROVE ConsoleStep
    BY <2>3, <1>0, RowKeeps, ReadKeeps, GiveUpKeeps DEF update_maintenance_window
  <2>4. CASE delete_maintenance_window(o, w)
    BY <2>4, <1>0, RowKeeps DEF delete_maintenance_window
  <2> QED BY <2>1, <2>2, <2>3, <2>4
<1>3. CASE IncidentHandlers(o)
  <2>1. PICK i \in Incidents :
            \/ \E row \in IncidentRows : create_incident(o, i, row)
            \/ \E severity \in Severities \cup {Nothing}, ended, titled \in BOOLEAN :
                  update_incident(o, i, severity, ended, titled)
            \/ apply_incident_ops(o, i)
            \/ \E to \in {"none", "draft", "published"} : write_postmortem(o, i, to)
    BY <1>3 DEF IncidentHandlers
  <2>2. ASSUME NEW row \in IncidentRows, create_incident(o, i, row) PROVE ConsoleStep
    BY <2>2, <1>0, RowKeeps DEF create_incident
  <2>3. ASSUME NEW severity \in Severities \cup {Nothing}, NEW ended \in BOOLEAN, NEW titled \in BOOLEAN,
               update_incident(o, i, severity, ended, titled)
        PROVE  ConsoleStep
    <3>1. CASE db.incident[i] # Nothing /\ Read(o, "incident", i, db.incident[i])
      <4>1. db.incident[i] \in IncidentRows
        BY <1>a, <3>1
      <4> QED BY <3>1, <4>1, ReadKeeps
    <3>2. CASE Holds(o, "incident") /\ WriteRow(o, "incident", i, PatchedIncident(operator[o].row, severity, ended, titled), AllPages)
      <4>1. operator[o].row \in IncidentRows
        BY <3>2 DEF OperatorInv
      <4>2. PatchedIncident(operator[o].row, severity, ended, titled) \in IncidentRows
        BY <4>1, PatchedRow
      <4> QED BY <3>2, <4>2, <1>0, RowKeeps
    <3> QED BY <2>3, <3>1, <3>2 DEF update_incident
  <2>4. CASE apply_incident_ops(o, i)
    <3>1. db.incident[i] \in IncidentRows
      BY <1>a, <2>4 DEF apply_incident_ops
    <3>2. PICK b \in BOOLEAN : b = ~db.incident[i].open
      OBVIOUS
    <3>3. [db.incident[i] EXCEPT !.open = ~@] = [db.incident[i] EXCEPT !.open = b]
      BY <3>2
    <3>4. [db.incident[i] EXCEPT !.open = b] \in IncidentRows
      BY <3>1 DEF IncidentRows
    <3>5. WriteRow(o, "incident", i, [db.incident[i] EXCEPT !.open = b], AllPages)
      BY <2>4, <3>3 DEF apply_incident_ops
    <3> QED BY <3>4, <3>5, <1>0, RowKeeps
  <2>5. ASSUME NEW to, write_postmortem(o, i, to) PROVE ConsoleStep
    BY <2>5, <1>0, RowKeeps DEF write_postmortem
  <2> QED BY <2>1, <2>2, <2>3, <2>4, <2>5
<1>4. ASSUME NEW t \in Targets, NEW s \in Statuses, check_target_now(o, t, s) PROVE ConsoleStep
  BY <1>4, <1>0, RowKeeps DEF check_target_now
<1> QED BY <1>1, <1>2, <1>3, <1>4

----------------------------------------------------------------------------
(* The invariant is inductive.                                             *)

LEMMA InitKeeps ==
    ASSUME PublicInit
    PROVE  PublicIInv
<1>0. /\ hot = [p \in Pages |-> Nothing] /\ compute = [p \in Pages |-> NoComputation]
      /\ reader = [r \in Readers |-> NewReader] /\ operator = [o \in Operators |-> IdleOperator]
      /\ writes = 0 /\ hour = 0 /\ settled = [p \in Pages |-> 0]
  BY DEF PublicInit, PublicFrom
<1>1. TableInv
  <2>1. PICK row \in {Nothing} \cup {r \in IncidentRows : r.open /\ r.titled} :
            db = [page |-> [p \in Pages |-> "enabled"],
                  bound |-> [p \in Pages |-> Targets],
                  incident |-> [i \in Incidents |-> IF \A j \in Incidents : i <= j THEN row ELSE Nothing],
                  postmortem |-> [i \in Incidents |-> "none"],
                  window |-> [w \in Windows |-> Nothing],
                  latest |-> [t \in Targets |-> Nothing],
                  logo |-> [p \in Pages |-> 0]]
    BY DEF PublicInit, PublicFrom
  <2>2. row \in IncidentRows \cup {Nothing}
    OBVIOUS
  <2>3. DOMAIN db = TableNames
    BY <2>1 DEF TableNames
  <2>4. db.page = [p \in Pages |-> "enabled"] /\ db.bound = [p \in Pages |-> Targets] /\ db.latest = [t \in Targets |-> Nothing]
    BY <2>1
  <2>5. db.incident = [i \in Incidents |-> IF \A j \in Incidents : i <= j THEN row ELSE Nothing]
    BY <2>1
  <2> QED BY <2>2, <2>3, <2>4, <2>5 DEF TableInv, TablesOK, IncidentTable
<1>2. OperatorInv
  BY <1>0 DEF OperatorInv, IdleOperator, Holds
<1>3. SettledInv /\ MovesInv /\ ComputeInv /\ HotInv
  BY <1>0 DEF SettledInv, MovesInv, ComputeInv, HotInv
<1>4. ReaderInv
  BY <1>0 DEF ReaderInv, ReaderOK, NewReader, ReaderFields
<1> QED BY <1>1, <1>2, <1>3, <1>4 DEF PublicIInv

(* A step of the console or of the background leaves the requests alone. *)
LEMMA ConsoleStepKeeps ==
    ASSUME PublicIInv, ConsoleStep
    PROVE  PublicIInv'
<1>1. /\ UNCHANGED <<hour, hot, compute, reader, settled>>
      /\ writes \in Nat /\ writes' \in Nat /\ writes' >= writes
  BY DEF ConsoleStep, console, layers, tables, PublicIInv, SettledInv
<1>2. ComputeInv' /\ HotInv'
  BY <1>1 DEF PublicIInv, ComputeInv, HotInv
<1>3. ReaderInv'
  BY <1>1 DEF PublicIInv, ReaderInv, ReaderOK
<1>4. MovesInv'
  <2>1. CASE UNCHANGED tables
    <3>1. Maintained' = Maintained /\ Now' = Now
      BY <2>1, <1>1, StandsStill DEF tables
    <3> QED BY <2>1, <3>1, <1>1 DEF PublicIInv, MovesInv, tables
  <2>2. CASE writes' = writes + 1 /\ NoteMoves
    BY <2>2, <1>1, MovesOn DEF PublicIInv
  <2> QED BY <2>1, <2>2 DEF ConsoleStep
<1> QED BY <1>2, <1>3, <1>4 DEF PublicIInv, ConsoleStep

LEMMA BackgroundKeeps ==
    ASSUME PublicIInv, BackgroundWrite
    PROVE  PublicIInv'
<1>0. /\ DOMAIN db = TableNames /\ db.page \in [Pages -> {"absent", "enabled", "disabled"}]
      /\ db.bound \in [Pages -> SUBSET Targets]
      /\ db.incident \in [Incidents -> IncidentRows \cup {Nothing}] /\ db.latest \in [Targets -> Statuses \cup {Nothing}]
  BY DEF PublicIInv, TableInv, TablesOK, IncidentTable
<1>1. /\ writes < MaxWrites /\ writes' = writes + 1 /\ NoteMoves
      /\ UNCHANGED <<console, operator>> /\ writes \in Nat /\ UNCHANGED settled
  BY DEF BackgroundWrite, PublicIInv, SettledInv, console
<1>2. TableInv'
  <2>1. ASSUME NEW t \in Targets, NEW s \in Statuses, db' = [db EXCEPT !.latest[t] = s] PROVE TableInv'
    <3>1. DOMAIN db' = TableNames /\ db'.page = db.page /\ db'.bound = db.bound /\ db'.incident = db.incident
          /\ db'.latest = [db.latest EXCEPT ![t] = s]
      BY <2>1, <1>0 DEF TableNames
    <3> QED BY <3>1, <1>0 DEF TableInv, TablesOK, IncidentTable
  <2>2. ASSUME NEW i \in Rows(db.incident),
               db' = [db EXCEPT !.incident[i] = [db.incident[i] EXCEPT !.open = FALSE]]
        PROVE  TableInv'
    <3>1. i \in Incidents /\ db.incident[i] \in IncidentRows
      BY <1>0 DEF Rows
    <3>2. [db.incident[i] EXCEPT !.open = FALSE] \in IncidentRows
      BY <3>1 DEF IncidentRows
    <3>3. DOMAIN db' = TableNames /\ db'.page = db.page /\ db'.bound = db.bound /\ db'.latest = db.latest
          /\ db'.incident = [db.incident EXCEPT ![i] = [db.incident[i] EXCEPT !.open = FALSE]]
      BY <2>2, <1>0 DEF TableNames
    <3> QED BY <3>1, <3>2, <3>3, <1>0 DEF TableInv, TablesOK, IncidentTable
  <2>3. ASSUME NEW i \in Incidents, NEW row \in IncidentRows, db' = [db EXCEPT !.incident[i] = row] PROVE TableInv'
    <3>1. DOMAIN db' = TableNames /\ db'.page = db.page /\ db'.bound = db.bound /\ db'.latest = db.latest
          /\ db'.incident = [db.incident EXCEPT ![i] = row]
      BY <2>3, <1>0 DEF TableNames
    <3> QED BY <3>1, <1>0 DEF TableInv, TablesOK, IncidentTable
  <2> QED BY <2>1, <2>2, <2>3 DEF BackgroundWrite
<1>3. SettledInv'
  BY <1>1 DEF PublicIInv, SettledInv
<1>4. OperatorInv'
  BY <1>1 DEF PublicIInv, OperatorInv, Holds
<1>5. ConsoleStep
  BY <1>1, <1>2, <1>3, <1>4 DEF ConsoleStep
<1> QED BY <1>5, ConsoleStepKeeps

(* An invalidation settles a write for the pages in its scope, drops their *)
(* snapshots, and leaves out pages whose computation is older.             *)
LEMMA InvalidateKeeps ==
    ASSUME PublicIInv, NEW o \in Operators, Invalidate(o)
    PROVE  PublicIInv'
<1> DEFINE scope == operator[o].scope
           at == operator[o].at
           Raced(p) == compute[p] # NoComputation /\ compute[p].began < at
<1>1. /\ operator[o].pc = "wrote"
      /\ hot' = Dropped(hot, scope)
      /\ settled' = [p \in Pages |-> IF InScope(p, scope) /\ ~Raced(p) /\ settled[p] < at THEN at ELSE settled[p]]
      /\ operator' = [operator EXCEPT ![o] = IdleOperator]
      /\ UNCHANGED <<db, hour, writes, moved, compute, reader>>
  BY DEF Invalidate, tables
<1>2. at \in Nat /\ at <= writes /\ writes \in Nat
  BY <1>1 DEF PublicIInv, OperatorInv, SettledInv
<1> HIDE DEF at, scope
<1>3. TableInv' /\ MovesInv'
  BY <1>1, StandsStill DEF PublicIInv, TableInv, MovesInv
<1>4. OperatorInv'
  <2>1. ASSUME NEW q \in Operators
        PROVE  /\ (Holds(q, "incident") => operator[q].row \in IncidentRows)'
               /\ (operator[q].pc = "wrote" => operator[q].at \in Nat /\ operator[q].at <= writes)'
    <3>1. CASE q = o
      BY <3>1, <1>1 DEF PublicIInv, OperatorInv, Holds, IdleOperator
    <3>2. CASE q # o
      BY <3>2, <1>1 DEF PublicIInv, OperatorInv, Holds
    <3> QED BY <3>1, <3>2
  <2>2. (DOMAIN operator = Operators)'
    BY <1>1 DEF PublicIInv, OperatorInv
  <2> QED BY <2>1, <2>2 DEF OperatorInv
<1>5. ASSUME NEW p \in Pages
      PROVE  /\ settled'[p] \in Nat /\ settled'[p] <= writes
             /\ settled'[p] = settled[p] \/ (settled'[p] = at /\ InScope(p, scope) /\ ~Raced(p))
  BY <1>1, <1>2 DEF PublicIInv, SettledInv
<1>6. SettledInv'
  <2>1. settled' \in [Pages -> Nat]
    BY <1>1, <1>2 DEF PublicIInv, SettledInv
  <2> QED BY <1>1, <1>5, <2>1 DEF PublicIInv, SettledInv
<1>7. ComputeInv'
  <2>1. ASSUME NEW p \in Pages, compute[p] # NoComputation PROVE settled'[p] <= compute[p].began
    BY <1>2, <1>5, <2>1 DEF PublicIInv, ComputeInv
  <2> QED BY <1>1, <2>1 DEF PublicIInv, ComputeInv
<1>8. HotInv'
  <2>1. ASSUME NEW p \in Pages, hot'[p] # Nothing
        PROVE  hot'[p] = hot[p] /\ ~InScope(p, scope)
    BY <1>1, <2>1 DEF Dropped
  <2>2. ASSUME NEW p \in Pages, hot'[p] # Nothing
        PROVE  Coherent(hot'[p]) /\ hot'[p].began \in Nat /\ settled'[p] <= hot'[p].began
    BY <1>5, <2>1, <2>2 DEF PublicIInv, HotInv
  <2>3. DOMAIN hot' = Pages
    BY <1>1 DEF Dropped
  <2> QED BY <2>2, <2>3 DEF HotInv
<1>9. ReaderInv'
  BY <1>1 DEF PublicIInv, ReaderInv, ReaderOK
<1> QED BY <1>3, <1>4, <1>6, <1>7, <1>8, <1>9 DEF PublicIInv

(* A step of a public request leaves the tables and the console alone. *)
LEMMA RequestKeeps ==
    ASSUME PublicIInv, UNCHANGED <<db, hour, writes, moved, operator, settled>>, HotInv', ReaderInv',
           DOMAIN compute' = Pages,
           \A p \in Pages : \/ compute'[p] = compute[p] \/ compute'[p] = NoComputation
                            \/ /\ ViewInv(compute'[p]) /\ FollowsAt(compute'[p], Maintained, moved, Now)
                               /\ compute'[p].began \in Nat /\ settled[p] <= compute'[p].began
    PROVE  PublicIInv'
<1>1. TableInv' /\ SettledInv'
  BY DEF PublicIInv, TableInv, SettledInv
<1>2. OperatorInv'
  BY DEF PublicIInv, OperatorInv, Holds
<1>3. ComputeInv'
  BY DEF PublicIInv, ComputeInv
<1>4. MovesInv'
  BY StandsStill DEF PublicIInv, MovesInv
<1> QED BY <1>1, <1>2, <1>3, <1>4 DEF PublicIInv

LEMMA ResolveKeeps ==
    ASSUME PublicIInv, NEW r \in Readers, resolve_page_id(r)
    PROVE  PublicIInv'
<1>1. UNCHANGED <<db, hour, writes, moved, operator, settled, hot, compute>> /\ DOMAIN compute = Pages
  BY DEF resolve_page_id, tables, layers, PublicIInv, ComputeInv
<1>2. HotInv'
  BY <1>1 DEF PublicIInv, HotInv
<1>3. DOMAIN reader = Readers /\ ReaderOK(reader[r])
  BY DEF PublicIInv, ReaderInv
<1> DEFINE Moves(x) ==
        /\ reader' = [reader EXCEPT ![r] = x]
        /\ ReaderFields \subseteq DOMAIN x /\ x.must = reader[r].must
        /\ x.pc = "resolved" \/ (x.pc = "done" /\ x.answer = "not_found")
<1>4. PICK x : Moves(x)
  <2>1. ASSUME NEW p \in Pages,
               reader' = [reader EXCEPT ![r] = [reader[r] EXCEPT !.pc = "resolved", !.page = p, !.began = writes]]
        PROVE  \E x : Moves(x)
    <3>1. PICK x : x = [reader[r] EXCEPT !.pc = "resolved", !.page = p, !.began = writes]
      OBVIOUS
    <3>2. ReaderFields \subseteq DOMAIN x /\ x.must = reader[r].must /\ x.pc = "resolved"
      BY <3>1, <1>3 DEF ReaderOK, ReaderFields
    <3> QED BY <2>1, <3>1, <3>2
  <2>2. CASE reader' = [reader EXCEPT ![r] = Over(reader[r], "not_found", 0)]
    <3>1. PICK x : x = Over(reader[r], "not_found", 0)
      OBVIOUS
    <3>2. ReaderFields \subseteq DOMAIN x /\ x.must = reader[r].must /\ x.pc = "done" /\ x.answer = "not_found"
      BY <3>1, <1>3 DEF ReaderOK, Over, ReaderFields
    <3> QED BY <2>2, <3>1, <3>2
  <2> QED BY <2>1, <2>2 DEF resolve_page_id
<1>5. ReaderOK(x)'
  BY <1>1, <1>3, <1>4 DEF ReaderOK
<1>6. ReaderInv'
  <2>1. ASSUME NEW q \in Readers PROVE ReaderOK(reader[q])'
    <3>1. CASE q = r
      BY <3>1, <1>3, <1>4, <1>5 DEF ReaderOK
    <3>2. CASE q # r
      BY <3>2, <1>1, <1>3, <1>4 DEF PublicIInv, ReaderInv, ReaderOK
    <3> QED BY <3>1, <3>2
  <2> QED BY <2>1, <1>3, <1>4 DEF ReaderInv
<1> QED BY <1>1, <1>2, <1>6, RequestKeeps

(* A visitor who comes back knows nothing yet. *)
LEMMA ReturnKeeps ==
    ASSUME PublicIInv, NEW r \in Readers, Return(r)
    PROVE  PublicIInv'
<1>1. /\ UNCHANGED <<db, hour, writes, moved, operator, settled, hot, compute>> /\ DOMAIN compute = Pages
      /\ reader' = [reader EXCEPT ![r] = NewReader] /\ DOMAIN reader = Readers
      /\ writes \in Nat
  BY DEF Return, tables, layers, PublicIInv, ComputeInv, ReaderInv, SettledInv
<1>2. HotInv'
  BY <1>1 DEF PublicIInv, HotInv
<1>3. PICK x : x = NewReader
  OBVIOUS
<1>4. ReaderFields \subseteq DOMAIN x /\ x.must = 0 /\ x.pc = "new"
  BY <1>3 DEF NewReader, ReaderFields
<1>5. ASSUME NEW q \in Readers PROVE ReaderOK(reader[q])'
  <2>1. CASE q = r
    BY <2>1, <1>1, <1>3, <1>4 DEF ReaderOK
  <2>2. CASE q # r
    BY <2>2, <1>1 DEF PublicIInv, ReaderInv, ReaderOK
  <2> QED BY <2>1, <2>2
<1>6. ReaderInv'
  BY <1>1, <1>5 DEF ReaderInv
<1> QED BY <1>1, <1>2, <1>6, RequestKeeps

(* A request asks for a page: what it must see is settled now, and the     *)
(* snapshot or the computation it meets is not older than that.            *)
LEMMA AskKeeps ==
    ASSUME PublicIInv, NEW r \in Readers, NEW p \in Pages, get_or_compute(r, p)
    PROVE  PublicIInv'
<1> DEFINE asked == [reader[r] EXCEPT !.pc = "waiting", !.page = p, !.stale = last_good[p],
                            !.must = settled[p], !.known = shown[p],
                            !.began = IF reader[r].pc = "new" THEN writes ELSE reader[r].began]
<1>1. UNCHANGED <<db, hour, writes, moved, operator, settled, hot>>
  BY DEF get_or_compute, tables, layers
<1>2. /\ DOMAIN reader = Readers /\ ReaderOK(reader[r]) /\ DOMAIN compute = Pages
      /\ settled[p] \in Nat /\ settled[p] <= writes /\ writes \in Nat
  BY DEF PublicIInv, ReaderInv, ComputeInv, SettledInv
<1>3. PICK a : a = asked
  OBVIOUS
<1>4. ReaderFields \subseteq DOMAIN a /\ a.pc = "waiting" /\ a.page = p /\ a.must = settled[p]
  BY <1>2, <1>3 DEF ReaderOK, ReaderFields
<1>5. \/ /\ hot[p] # Nothing /\ reader' = [reader EXCEPT ![r] = Over(a, "fresh", hot[p].began)] /\ UNCHANGED compute
      \/ /\ reader' = [reader EXCEPT ![r] = a]
         /\ compute' = [compute EXCEPT ![p] = IF compute[p] = NoComputation THEN Start(r) ELSE compute[p]]
  BY <1>3 DEF get_or_compute
<1> HIDE DEF asked
<1>6. HotInv'
  BY <1>1 DEF PublicIInv, HotInv
<1>7. CASE /\ hot[p] # Nothing
           /\ reader' = [reader EXCEPT ![r] = Over(a, "fresh", hot[p].began)] /\ UNCHANGED compute
  <2>1. DOMAIN compute' = Pages
    BY <1>2, <1>7
  <2>2. PICK x : x = Over(a, "fresh", hot[p].began)
    OBVIOUS
  <2>3. ReaderFields \subseteq DOMAIN x /\ x.must = settled[p] /\ x.pc = "done" /\ x.seen = hot[p].began
    BY <1>4, <2>2 DEF Over, ReaderFields
  <2>4. hot[p].began \in Nat /\ settled[p] <= hot[p].began
    BY <1>7 DEF PublicIInv, HotInv
  <2>5. ReaderOK(x)'
    BY <1>1, <1>2, <2>3, <2>4 DEF ReaderOK
  <2>6. ASSUME NEW q \in Readers PROVE ReaderOK(reader[q])'
    <3>1. CASE q = r
      BY <3>1, <1>2, <1>7, <2>2, <2>5 DEF ReaderOK
    <3>2. CASE q # r
      BY <3>2, <1>1, <1>2, <1>7 DEF PublicIInv, ReaderInv, ReaderOK
    <3> QED BY <3>1, <3>2
  <2>7. ReaderInv'
    BY <1>2, <1>7, <2>6 DEF ReaderInv
  <2> QED BY <1>1, <1>6, <1>7, <2>1, <2>7, RequestKeeps
<1>8. CASE /\ reader' = [reader EXCEPT ![r] = a]
           /\ compute' = [compute EXCEPT ![p] = IF compute[p] = NoComputation THEN Start(r) ELSE compute[p]]
  <2>1. /\ DOMAIN compute' = Pages
        /\ \A q \in Pages \ {p} : compute'[q] = compute[q]
        /\ compute[p] # NoComputation => compute'[p] = compute[p]
        /\ compute[p] = NoComputation => compute'[p] = Start(r)
    BY <1>2, <1>8
  <2>2. PICK c : c = Start(r)
    OBVIOUS
  <2>3. ViewInv(c) /\ c.began = writes /\ c.pc = "page"
    BY <2>2, StartsFresh
  <2>4. ASSUME NEW q \in Pages
        PROVE  \/ compute'[q] = compute[q]
               \/ /\ ViewInv(compute'[q]) /\ FollowsAt(compute'[q], Maintained, moved, Now)
                  /\ compute'[q].began \in Nat /\ settled[q] <= compute'[q].began
    BY <1>2, <2>1, <2>2, <2>3 DEF FollowsAt
  <2>5. ReaderOK(a)'
    BY <1>1, <1>2, <1>4, <2>1, <2>2, <2>3 DEF PublicIInv, ComputeInv, ReaderOK
  <2>6. ASSUME NEW q \in Readers PROVE ReaderOK(reader[q])'
    <3>1. CASE q = r
      BY <3>1, <1>2, <1>8, <2>5 DEF ReaderOK
    <3>2. CASE q # r
      <4>1. reader'[q] = reader[q] /\ ReaderOK(reader[q])
        BY <3>2, <1>2, <1>8 DEF PublicIInv, ReaderInv
      <4> QED BY <4>1, <1>1, <2>1, <2>2, <2>3 DEF ReaderOK
    <3> QED BY <3>1, <3>2
  <2>7. ReaderInv'
    BY <1>2, <1>8, <2>6 DEF ReaderInv
  <2> QED BY <1>1, <1>6, <2>1, <2>4, <2>7, RequestKeeps
<1> QED BY <1>5, <1>7, <1>8

(* A computation ends, and everyone who waited for it is answered: with    *)
(* nothing older than they must see, if the answer is called fresh.        *)
LEMMA EndKeeps ==
    ASSUME PublicIInv, NEW p \in Pages, UNCHANGED <<db, hour, writes, moved, operator, settled>>, HotInv',
           compute' = [compute EXCEPT ![p] = NoComputation], DOMAIN reader' = Readers,
           \A r \in Readers \ Waiting(p) : reader'[r] = reader[r],
           \A r \in Waiting(p) : \E answer, age :
               reader'[r] = Over(reader[r], answer, age) /\ (answer = "fresh" => age >= reader[r].must)
    PROVE  PublicIInv'
<1>1. DOMAIN compute' = Pages /\ compute'[p] = NoComputation /\ \A q \in Pages \ {p} : compute'[q] = compute[q]
  BY DEF PublicIInv, ComputeInv
<1>2. ASSUME NEW r \in Readers PROVE ReaderOK(reader[r])'
  <2>0. ReaderOK(reader[r])
    BY DEF PublicIInv, ReaderInv
  <2>1. CASE r \in Waiting(p)
    <3>1. PICK answer, age : /\ reader'[r] = Over(reader[r], answer, age)
                             /\ answer = "fresh" => age >= reader[r].must
      BY <2>1
    <3>2. /\ ReaderFields \subseteq DOMAIN reader'[r] /\ reader'[r].must = reader[r].must
          /\ reader'[r].pc = "done" /\ reader'[r].answer = answer /\ reader'[r].seen = age
      BY <3>1, <2>0 DEF Over, ReaderOK, ReaderFields
    <3> QED BY <2>0, <3>1, <3>2 DEF ReaderOK
  <2>2. CASE r \notin Waiting(p)
    <3>1. reader'[r] = reader[r] /\ ~(reader[r].pc = "waiting" /\ reader[r].page = p)
      BY <2>2 DEF Waiting
    <3> QED BY <2>0, <3>1, <1>1 DEF ReaderOK
  <2> QED BY <2>1, <2>2
<1>3. ReaderInv'
  BY <1>2 DEF ReaderInv
<1> QED BY <1>1, <1>3, RequestKeeps

LEMMA FailedKeeps ==
    ASSUME PublicIInv, NEW p \in Pages, UNCHANGED <<db, hour, writes, moved, operator, settled, hot>>, Failed(p)
    PROVE  PublicIInv'
<1>1. /\ compute' = [compute EXCEPT ![p] = NoComputation]
      /\ DOMAIN reader' = Readers
      /\ \A r \in Readers \ Waiting(p) : reader'[r] = reader[r]
  BY DEF Failed
<1>2. ASSUME NEW r \in Waiting(p)
      PROVE  \E answer, age :
               reader'[r] = Over(reader[r], answer, age) /\ (answer = "fresh" => age >= reader[r].must)
  <2>1. r \in Readers
    BY DEF Waiting
  <2>2. CASE reader[r].stale # Nothing
    <3>1. reader'[r] = Over(reader[r], "stale", reader[r].stale.began)
      BY <2>1, <2>2 DEF Failed
    <3> QED BY <3>1
  <2>3. CASE reader[r].stale = Nothing
    <3>1. reader'[r] = Over(reader[r], "internal_error", 0)
      BY <2>1, <2>3 DEF Failed
    <3> QED BY <3>1
  <2> QED BY <2>2, <2>3
<1>3. HotInv'
  BY DEF PublicIInv, HotInv
<1> QED BY <1>1, <1>2, <1>3, EndKeeps

(* The computation of a page goes on: it stays as old as it is. *)
LEMMA AdvanceKeeps ==
    ASSUME PublicIInv, NEW p \in Pages, compute[p] # NoComputation, NEW v, GoesOn(compute[p], v),
           compute' = [compute EXCEPT ![p] = v],
           UNCHANGED <<db, hour, writes, moved, operator, settled, hot, reader>>
    PROVE  PublicIInv'
<1>1. DOMAIN compute' = Pages /\ compute'[p] = v /\ \A q \in Pages \ {p} : compute'[q] = compute[q]
  BY DEF PublicIInv, ComputeInv
<1>2. compute[p].began \in Nat /\ settled[p] <= compute[p].began
  BY DEF PublicIInv, ComputeInv
<1>3. ASSUME NEW r \in Readers PROVE ReaderOK(reader[r])'
  <2>1. ReaderOK(reader[r])
    BY DEF PublicIInv, ReaderInv
  <2> QED BY <2>1, <1>1 DEF ReaderOK, GoesOn
<1>4. ReaderInv' /\ HotInv'
  BY <1>3 DEF PublicIInv, ReaderInv, HotInv
<1> QED BY <1>1, <1>2, <1>4, RequestKeeps DEF GoesOn

(* What a read does to a computation. *)
LEMMA ReadStep ==
    ASSUME PublicIInv, NEW p \in Pages, compute_status_snapshot(p) \/ ComputeFails(p) \/ KeepLastGood(p)
    PROVE  /\ compute[p] # NoComputation /\ UNCHANGED <<db, hour, writes, moved, operator, settled, hot>>
           /\ \/ Failed(p) /\ UNCHANGED last_good
              \/ \E v : /\ GoesOn(compute[p], v) /\ compute' = [compute EXCEPT ![p] = v]
                        /\ UNCHANGED <<reader, shown>>
<1>1. compute[p] # NoComputation /\ UNCHANGED <<db, hour, writes, moved, operator, settled, hot>>
  BY DEF compute_status_snapshot, ComputeFails, KeepLastGood, tables, layers
<1>2. TableInv /\ SettledInv /\ MovesInv /\ ViewInv(compute[p]) /\ FollowsAt(compute[p], Maintained, moved, Now)
  BY <1>1 DEF PublicIInv, ComputeInv, MovesInv
<1> DEFINE Go(v) == compute' = [compute EXCEPT ![p] = v] /\ UNCHANGED <<reader, shown>>
<1>3. PICK c : c = compute[p]
  OBVIOUS
<1>4. ASSUME NEW v, GoesOn(c, v), Go(v)
      PROVE  \E w : /\ GoesOn(compute[p], w) /\ compute' = [compute EXCEPT ![p] = w]
                    /\ UNCHANGED <<reader, shown>>
  BY <1>3, <1>4
<1>5. CASE compute_status_snapshot(p)
  <2>1. UNCHANGED last_good
    BY <1>5 DEF compute_status_snapshot, layers
  <2>2. \/ Failed(p)
        \/ c.pc = "page" /\ Go(ReadPage(c))
        \/ c.pc = "components" /\ Go(ReadComponents(c, p))
        \/ c.pc = "windows" /\ Go(ReadWindows(c))
        \/ c.pc = "incidents" /\ Go(ReadIncidents(c))
        \/ c.pc = "details" /\ \E t \in Unrated(c) : Go(RateComponent(c, t))
        \/ c.pc = "details" /\ \E i \in Unasked(c) : Go(AskPostmortem(c, i, TRUE))
        \/ c.pc = "details" /\ Unrated(c) = {} /\ Go(ReadActive(c))
        \/ c.pc = "upcoming" /\ Go(ReadUpcoming(c))
        \/ c.pc = "logo" /\ Go(ReadLogo(c, p))
    BY <1>3, <1>5 DEF compute_status_snapshot
  <2> HIDE DEF Go
  <2> QED BY <1>1, <1>2, <1>3, <1>4, <2>1, <2>2, ReadsGoOn
<1>6. CASE ComputeFails(p)
  <2>1. UNCHANGED last_good
    BY <1>6 DEF ComputeFails, layers
  <2>2. Failed(p) \/ (c.pc = "details" /\ \E i \in Unasked(c) : Go(AskPostmortem(c, i, FALSE)))
    BY <1>3, <1>6 DEF ComputeFails
  <2> HIDE DEF Go
  <2> QED BY <1>1, <1>2, <1>3, <1>4, <2>1, <2>2, ReadsGoOn
<1>7. CASE KeepLastGood(p)
  <2>1. c.pc = "keep" /\ Go([c EXCEPT !.pc = "insert"])
    BY <1>3, <1>7 DEF KeepLastGood
  <2> HIDE DEF Go
  <2> QED BY <1>1, <1>2, <1>3, <1>4, <2>1, ReadsGoOn
<1> QED BY <1>5, <1>6, <1>7

LEMMA ComputeKeeps ==
    ASSUME PublicIInv, NEW p \in Pages, compute_status_snapshot(p) \/ ComputeFails(p) \/ KeepLastGood(p)
    PROVE  PublicIInv'
<1>1. compute[p] # NoComputation /\ UNCHANGED <<db, hour, writes, moved, operator, settled, hot>>
  BY ReadStep
<1>2. ASSUME NEW v, GoesOn(compute[p], v), compute' = [compute EXCEPT ![p] = v], UNCHANGED reader PROVE PublicIInv'
  BY <1>1, <1>2, AdvanceKeeps
<1> QED BY <1>1, <1>2, ReadStep, FailedKeeps

LEMMA InsertKeeps ==
    ASSUME PublicIInv, NEW p \in Pages, Insert(p)
    PROVE  PublicIInv'
<1>1. /\ UNCHANGED <<db, hour, writes, moved, operator, settled>> /\ compute[p] # NoComputation
      /\ compute[p].pc = "insert" /\ hot' = [hot EXCEPT ![p] = Snapshot(compute[p])]
      /\ compute' = [compute EXCEPT ![p] = NoComputation]
      /\ DOMAIN reader' = Readers
      /\ \A r \in Readers \ Waiting(p) : reader'[r] = reader[r]
  BY DEF Insert, tables
<1>2. ViewInv(compute[p]) /\ compute[p].began \in Nat /\ settled[p] <= compute[p].began
  BY <1>1 DEF PublicIInv, ComputeInv
<1>3. Coherent(Snapshot(compute[p])) /\ Snapshot(compute[p]).began = compute[p].began
  BY <1>1, <1>2, SnapshotIsCoherent
<1>4. HotInv'
  <2>1. PICK s : s = Snapshot(compute[p])
    OBVIOUS
  <2>2. DOMAIN hot' = Pages /\ hot'[p] = s /\ \A q \in Pages \ {p} : hot'[q] = hot[q]
    BY <1>1, <2>1 DEF PublicIInv, HotInv
  <2>3. ASSUME NEW q \in Pages, hot'[q] # Nothing
        PROVE  Coherent(hot'[q]) /\ hot'[q].began \in Nat /\ settled'[q] <= hot'[q].began
    BY <2>1, <2>2, <2>3, <1>1, <1>2, <1>3 DEF PublicIInv, HotInv
  <2> QED BY <2>2, <2>3 DEF HotInv
<1>5. ASSUME NEW r \in Waiting(p)
      PROVE  \E answer, age :
               reader'[r] = Over(reader[r], answer, age) /\ (answer = "fresh" => age >= reader[r].must)
  <2>1. r \in Readers /\ reader[r].pc = "waiting" /\ reader[r].page = p
    BY DEF Waiting
  <2>2. reader[r].must \in Nat /\ reader[r].must <= compute[p].began
    BY <1>1, <2>1 DEF PublicIInv, ReaderInv, ReaderOK
  <2>3. reader'[r] = Over(reader[r], "fresh", compute[p].began)
    BY <2>1 DEF Insert
  <2>4. compute[p].began >= reader[r].must
    BY <1>2, <2>2
  <2> QED BY <2>3, <2>4
<1> QED BY <1>1, <1>4, <1>5, EndKeeps

(* A reader leaves.  A computation that starts again is a new one. *)
LEMMA LeaveKeeps ==
    ASSUME PublicIInv, NEW r \in Readers, Leave(r)
    PROVE  PublicIInv'
<1>1. PICK p : p = reader[r].page
  OBVIOUS
<1>2. /\ UNCHANGED <<db, hour, writes, moved, operator, settled, hot>> /\ reader[r].pc = "waiting"
      /\ reader' = [reader EXCEPT ![r] = Over(reader[r], "none", 0)]
  BY DEF Leave, tables, layers
<1>3. p \in Pages /\ DOMAIN reader = Readers /\ DOMAIN compute = Pages /\ ReaderOK(reader[r])
      /\ writes \in Nat /\ settled[p] \in Nat /\ settled[p] <= writes
  BY <1>1, <1>2 DEF PublicIInv, ReaderInv, ReaderOK, ComputeInv, SettledInv
<1>4. \/ UNCHANGED compute
      \/ compute' = [compute EXCEPT ![p] = NoComputation]
      \/ \E n \in Readers : compute' = [compute EXCEPT ![p] = Start(n)]
  BY <1>1 DEF Leave, Waiting
<1>5. /\ DOMAIN compute' = Pages /\ \A q \in Pages \ {p} : compute'[q] = compute[q]
      /\ \/ compute'[p] = compute[p] \/ compute'[p] = NoComputation
         \/ ViewInv(compute'[p]) /\ compute'[p].pc = "page" /\ compute'[p].began = writes
  <2>1. ASSUME NEW n \in Readers, compute' = [compute EXCEPT ![p] = Start(n)]
        PROVE  /\ DOMAIN compute' = Pages /\ \A q \in Pages \ {p} : compute'[q] = compute[q]
               /\ compute'[p] = Start(n)
    BY <1>3, <2>1
  <2> QED BY <1>3, <1>4, <2>1, StartsFresh
<1>6. ASSUME NEW q \in Pages
      PROVE  \/ compute'[q] = compute[q] \/ compute'[q] = NoComputation
             \/ /\ ViewInv(compute'[q]) /\ FollowsAt(compute'[q], Maintained, moved, Now)
                /\ compute'[q].began \in Nat /\ settled[q] <= compute'[q].began
  BY <1>3, <1>5 DEF FollowsAt
<1>7. ReaderInv'
  <2>1. ASSUME NEW q \in Readers PROVE ReaderOK(reader[q])'
    <3>1. CASE q = r
      <4>1. reader'[q] = Over(reader[r], "none", 0)
        BY <3>1, <1>2, <1>3
      <4>2. /\ ReaderFields \subseteq DOMAIN reader'[q] /\ reader'[q].must = reader[r].must
            /\ reader'[q].pc = "done" /\ reader'[q].answer = "none"
        BY <4>1, <1>3 DEF Over, ReaderOK, ReaderFields
      <4> QED BY <4>2, <1>2, <1>3 DEF ReaderOK
    <3>2. CASE q # r
      <4>1. reader'[q] = reader[q] /\ ReaderOK(reader[q])
        BY <3>2, <1>2, <1>3 DEF PublicIInv, ReaderInv
      <4> QED BY <4>1, <1>2, <1>3, <1>5 DEF ReaderOK
    <3> QED BY <3>1, <3>2
  <2> QED BY <1>2, <1>3, <2>1 DEF ReaderInv
<1>8. HotInv'
  BY <1>2 DEF PublicIInv, HotInv
<1> QED BY <1>2, <1>5, <1>6, <1>7, <1>8, RequestKeeps

LEMMA HotExpiresKeeps ==
    ASSUME PublicIInv, NEW p \in Pages, HotExpires(p)
    PROVE  PublicIInv'
<1>1. /\ UNCHANGED <<db, hour, writes, moved, operator, settled, compute, reader>>
      /\ hot' = [hot EXCEPT ![p] = Nothing] /\ DOMAIN compute = Pages
  BY DEF HotExpires, tables, PublicIInv, ComputeInv
<1>2. HotInv'
  BY <1>1 DEF PublicIInv, HotInv
<1>3. ReaderInv'
  BY <1>1 DEF PublicIInv, ReaderInv, ReaderOK
<1> QED BY <1>1, <1>2, <1>3, RequestKeeps

LEMMA AbandonKeeps ==
    ASSUME PublicIInv, NEW o \in Operators, Abandon(o)
    PROVE  PublicIInv'
<1>1. UNCHANGED <<db, hour, writes, moved, settled, hot, compute, reader>> /\ operator' = [operator EXCEPT ![o] = IdleOperator]
  BY DEF Abandon, tables, layers
<1>2. OperatorInv'
  <2>1. ASSUME NEW q \in Operators
        PROVE  /\ (Holds(q, "incident") => operator[q].row \in IncidentRows)'
               /\ (operator[q].pc = "wrote" => operator[q].at \in Nat /\ operator[q].at <= writes)'
    <3>1. CASE q = o
      BY <3>1, <1>1 DEF PublicIInv, OperatorInv, Holds, IdleOperator
    <3>2. CASE q # o
      BY <3>2, <1>1 DEF PublicIInv, OperatorInv, Holds
    <3> QED BY <3>1, <3>2
  <2>2. (DOMAIN operator = Operators)'
    BY <1>1 DEF PublicIInv, OperatorInv
  <2> QED BY <2>1, <2>2 DEF OperatorInv
<1>3. TableInv' /\ SettledInv' /\ MovesInv' /\ ComputeInv' /\ HotInv'
  BY <1>1, StandsStill DEF PublicIInv, TableInv, SettledInv, MovesInv, ComputeInv, HotInv
<1>4. ReaderInv'
  BY <1>1 DEF PublicIInv, ReaderInv, ReaderOK
<1> QED BY <1>2, <1>3, <1>4 DEF PublicIInv

LEMMA StutterKeeps ==
    ASSUME PublicIInv, UNCHANGED publicVars
    PROVE  PublicIInv'
<1>1. UNCHANGED <<db, hour, writes, moved, operator, settled, hot, compute, reader>> /\ DOMAIN compute = Pages
  BY DEF publicVars, tables, layers, PublicIInv, ComputeInv
<1>2. HotInv' /\ ReaderInv'
  BY <1>1 DEF PublicIInv, HotInv, ReaderInv, ReaderOK
<1> QED BY <1>1, <1>2, RequestKeeps

LEMMA HourKeeps ==
    ASSUME PublicIInv, HourPasses
    PROVE  PublicIInv'
<1>1. /\ UNCHANGED <<db, writes, operator, settled, hot, compute, reader>>
      /\ hour' = hour + 1 /\ NoteMoves
  BY DEF HourPasses, layers
<1>2. MovesInv'
  BY <1>1, MovesOn DEF PublicIInv
<1>3. TableInv' /\ SettledInv' /\ ComputeInv' /\ HotInv'
  BY <1>1 DEF PublicIInv, TableInv, SettledInv, ComputeInv, HotInv
<1>4. OperatorInv' /\ ReaderInv'
  BY <1>1 DEF PublicIInv, OperatorInv, Holds, ReaderInv, ReaderOK
<1> QED BY <1>2, <1>3, <1>4 DEF PublicIInv

LEMMA PublicInductive ==
    PublicSpec => []PublicIInv
<1>1. PublicInit => PublicIInv
  BY InitKeeps
<1>2. PublicIInv /\ [PublicNext]_publicVars => PublicIInv'
  <2> SUFFICES ASSUME PublicIInv, [PublicNext]_publicVars PROVE PublicIInv'
    OBVIOUS
  <2>0. TableInv /\ OperatorInv /\ SettledInv
    BY DEF PublicIInv
  <2>1. CASE PublicRequests
    BY <2>1, ResolveKeeps, ReturnKeeps, LeaveKeeps, AskKeeps, ComputeKeeps, InsertKeeps, HotExpiresKeeps
       DEF PublicRequests, Serve
  <2>2. ASSUME NEW o \in Operators, Console(o) PROVE PublicIInv'
    <3>1. CASE Invalidate(o)
      BY <3>1, InvalidateKeeps
    <3>2. CASE Abandon(o)
      BY <3>2, AbandonKeeps
    <3>3. CASE ~Invalidate(o) /\ ~Abandon(o)
      <4>1. \/ PageHandlers(o) \/ WindowHandlers(o) \/ IncidentHandlers(o)
            \/ \E t \in Targets, s \in Statuses : check_target_now(o, t, s)
        BY <2>2, <3>3 DEF Console
      <4>2. ConsoleStep
        BY <2>0, <4>1, ConsoleKeeps
      <4> QED BY <4>2, ConsoleStepKeeps
    <3> QED BY <3>1, <3>2, <3>3
  <2>3. CASE BackgroundWrite
    BY <2>3, BackgroundKeeps
  <2>4. CASE HourPasses
    BY <2>4, HourKeeps
  <2>5. CASE UNCHANGED publicVars
    BY <2>5, StutterKeeps
  <2> QED BY <2>1, <2>2, <2>3, <2>4, <2>5 DEF PublicNext
<1> QED BY <1>1, <1>2, PTL DEF PublicSpec

----------------------------------------------------------------------------
(* The requests and the computations they share: a computation runs in one *)
(* of the requests that wait for it, and whoever waits, waits for one.     *)
LeaderInv == \A p \in Pages : compute[p] # NoComputation => compute[p].leader \in Waiting(p)
WaitInv == \A r \in Readers : reader[r].pc = "waiting" => compute[reader[r].page] # NoComputation
SharedInv == LeaderInv /\ WaitInv
BoundInv == writes \in 0 .. MaxWrites /\ leavers \in 0 .. MaxLeavers

(* A computation goes on in the request that runs it. *)
LEMMA AdvanceShares ==
    ASSUME PublicIInv, SharedInv, NEW p \in Pages, compute[p] # NoComputation,
           NEW v, v # NoComputation, v.leader = compute[p].leader,
           compute' = [compute EXCEPT ![p] = v], UNCHANGED reader
    PROVE  SharedInv'
<1>1. compute'[p] = v /\ \A q \in Pages \ {p} : compute'[q] = compute[q]
  BY DEF PublicIInv, ComputeInv
<1>2. LeaderInv'
  BY <1>1 DEF SharedInv, LeaderInv, Waiting
<1>3. WaitInv'
  <2> SUFFICES ASSUME NEW r \in Readers, reader[r].pc = "waiting" PROVE compute'[reader[r].page] # NoComputation
    BY DEF WaitInv
  <2>1. reader[r].page \in Pages /\ compute[reader[r].page] # NoComputation
    BY DEF PublicIInv, ReaderInv, ReaderOK, SharedInv, WaitInv
  <2> QED BY <1>1, <2>1
<1> QED BY <1>2, <1>3 DEF SharedInv

(* A computation ends with the requests that wait for it. *)
LEMMA EndShares ==
    ASSUME PublicIInv, SharedInv, NEW p \in Pages,
           compute' = [compute EXCEPT ![p] = NoComputation],
           \A r \in Readers \ Waiting(p) : reader'[r] = reader[r],
           \A r \in Waiting(p) : \E answer, age : reader'[r] = Over(reader[r], answer, age)
    PROVE  SharedInv'
<1>1. compute'[p] = NoComputation /\ \A q \in Pages \ {p} : compute'[q] = compute[q]
  BY DEF PublicIInv, ComputeInv
<1>2. ASSUME NEW r \in Waiting(p) PROVE r \in Readers /\ reader'[r].pc = "done"
  <2>1. PICK answer, age : reader'[r] = Over(reader[r], answer, age)
    OBVIOUS
  <2>2. r \in Readers /\ ReaderOK(reader[r])
    BY DEF PublicIInv, ReaderInv, Waiting
  <2> QED BY <2>1, <2>2 DEF Over, ReaderOK, ReaderFields
<1>3. LeaderInv'
  <2> SUFFICES ASSUME NEW q \in Pages, compute'[q] # NoComputation
               PROVE  /\ compute'[q].leader \in Readers
                      /\ reader'[compute'[q].leader].pc = "waiting" /\ reader'[compute'[q].leader].page = q
    BY DEF LeaderInv, Waiting
  <2>1. q # p /\ compute'[q] = compute[q] /\ compute[q].leader \in Waiting(q)
    BY <1>1 DEF SharedInv, LeaderInv
  <2>2. compute[q].leader \in Readers \ Waiting(p)
    BY <2>1 DEF Waiting
  <2> QED BY <2>1, <2>2 DEF Waiting
<1>4. WaitInv'
  <2> SUFFICES ASSUME NEW r \in Readers, reader'[r].pc = "waiting" PROVE compute'[reader'[r].page] # NoComputation
    BY DEF WaitInv
  <2>1. r \notin Waiting(p) /\ reader'[r] = reader[r]
    BY <1>2
  <2>2. reader[r].page \in Pages \ {p} /\ compute[reader[r].page] # NoComputation
    BY <2>1 DEF PublicIInv, ReaderInv, ReaderOK, SharedInv, WaitInv, Waiting
  <2> QED BY <1>1, <2>1, <2>2
<1> QED BY <1>3, <1>4 DEF SharedInv

LEMMA FailedShares ==
    ASSUME PublicIInv, SharedInv, NEW p \in Pages, Failed(p)
    PROVE  SharedInv'
<1>1. /\ compute' = [compute EXCEPT ![p] = NoComputation]
      /\ \A r \in Readers \ Waiting(p) : reader'[r] = reader[r]
  BY DEF Failed
<1>2. ASSUME NEW r \in Waiting(p)
      PROVE  \/ reader'[r] = Over(reader[r], "stale", reader[r].stale.began)
             \/ reader'[r] = Over(reader[r], "internal_error", 0)
  BY DEF Failed, Waiting
<1> QED BY <1>1, <1>2, EndShares

(* The steps of a computation. *)
LEMMA ComputeShares ==
    ASSUME PublicIInv, SharedInv, NEW p \in Pages,
           compute_status_snapshot(p) \/ ComputeFails(p) \/ KeepLastGood(p) \/ Insert(p)
    PROVE  SharedInv'
<1>1. CASE Insert(p)
  <2>1. /\ compute' = [compute EXCEPT ![p] = NoComputation]
        /\ \A r \in Readers \ Waiting(p) : reader'[r] = reader[r]
    BY <1>1 DEF Insert
  <2>2. ASSUME NEW r \in Waiting(p) PROVE reader'[r] = Over(reader[r], "fresh", compute[p].began)
    BY <1>1 DEF Insert, Waiting
  <2> QED BY <2>1, <2>2, EndShares
<1>2. CASE ~Insert(p)
  <2>1. ASSUME NEW v, GoesOn(compute[p], v), compute' = [compute EXCEPT ![p] = v], UNCHANGED reader PROVE SharedInv'
    <3>1. v # NoComputation
      BY <2>1 DEF GoesOn, ViewInv, NoComputation, Early, Late
    <3> QED BY <1>2, <2>1, <3>1, ReadStep, AdvanceShares DEF GoesOn
  <2> QED BY <1>2, <2>1, ReadStep, FailedShares
<1> QED BY <1>1, <1>2

(* A request that does not wait moves to a state in which it does not wait. *)
LEMMA AsideShares ==
    ASSUME PublicIInv, SharedInv, NEW r \in Readers, reader[r].pc # "waiting",
           NEW x, x.pc # "waiting", reader' = [reader EXCEPT ![r] = x], UNCHANGED compute
    PROVE  SharedInv'
<1>1. reader'[r] = x /\ \A q \in Readers \ {r} : reader'[q] = reader[q]
  BY DEF PublicIInv, ReaderInv
<1>2. LeaderInv'
  <2> SUFFICES ASSUME NEW p \in Pages, compute[p] # NoComputation
               PROVE  /\ compute[p].leader \in Readers
                      /\ reader'[compute[p].leader].pc = "waiting" /\ reader'[compute[p].leader].page = p
    BY DEF LeaderInv, Waiting
  <2> QED BY <1>1 DEF SharedInv, LeaderInv, Waiting
<1>3. WaitInv'
  BY <1>1 DEF SharedInv, WaitInv
<1> QED BY <1>2, <1>3 DEF SharedInv

LEMMA ReturnShares ==
    ASSUME PublicIInv, SharedInv, NEW r \in Readers, Return(r)
    PROVE  SharedInv'
<1>1. PICK x : x = NewReader
  OBVIOUS
<1>2. x.pc # "waiting"
  BY <1>1 DEF NewReader
<1> QED BY <1>1, <1>2, AsideShares DEF Return

LEMMA ResolveShares ==
    ASSUME PublicIInv, SharedInv, NEW r \in Readers, resolve_page_id(r)
    PROVE  SharedInv'
<1>1. reader[r].pc = "new" /\ UNCHANGED compute /\ ReaderOK(reader[r])
  BY DEF resolve_page_id, PublicIInv, ReaderInv
<1>2. ASSUME NEW p \in Pages,
             reader' = [reader EXCEPT ![r] = [reader[r] EXCEPT !.pc = "resolved", !.page = p, !.began = writes]]
      PROVE  SharedInv'
  <2>1. PICK x : x = [reader[r] EXCEPT !.pc = "resolved", !.page = p, !.began = writes]
    OBVIOUS
  <2>2. x.pc = "resolved"
    BY <1>1, <2>1 DEF ReaderOK, ReaderFields
  <2> QED BY <1>1, <1>2, <2>1, <2>2, AsideShares
<1>3. CASE reader' = [reader EXCEPT ![r] = Over(reader[r], "not_found", 0)]
  <2>1. PICK x : x = Over(reader[r], "not_found", 0)
    OBVIOUS
  <2>2. x.pc = "done"
    BY <1>1, <2>1 DEF ReaderOK, ReaderFields, Over
  <2> QED BY <1>1, <1>3, <2>1, <2>2, AsideShares
<1> QED BY <1>2, <1>3 DEF resolve_page_id

(* A request joins the computation of its page or leads a new one. *)
LEMMA AskShares ==
    ASSUME PublicIInv, SharedInv, NEW r \in Readers, NEW p \in Pages, get_or_compute(r, p)
    PROVE  SharedInv'
<1> DEFINE asked == [reader[r] EXCEPT !.pc = "waiting", !.page = p, !.stale = last_good[p],
                            !.must = settled[p], !.known = shown[p],
                            !.began = IF reader[r].pc = "new" THEN writes ELSE reader[r].began]
<1>1. DOMAIN reader = Readers /\ ReaderOK(reader[r]) /\ DOMAIN compute = Pages /\ reader[r].pc # "waiting"
  BY DEF PublicIInv, ReaderInv, ComputeInv, get_or_compute
<1>2. PICK a : a = asked
  OBVIOUS
<1>3. ReaderFields \subseteq DOMAIN a /\ a.pc = "waiting" /\ a.page = p
  BY <1>1, <1>2 DEF ReaderOK, ReaderFields
<1>4. \/ /\ reader' = [reader EXCEPT ![r] = Over(a, "fresh", hot[p].began)] /\ UNCHANGED compute
      \/ /\ reader' = [reader EXCEPT ![r] = a]
         /\ compute' = [compute EXCEPT ![p] = IF compute[p] = NoComputation THEN Start(r) ELSE compute[p]]
  BY <1>2 DEF get_or_compute
<1> HIDE DEF asked
<1>5. CASE reader' = [reader EXCEPT ![r] = Over(a, "fresh", hot[p].began)] /\ UNCHANGED compute
  <2>1. PICK x : x = Over(a, "fresh", hot[p].began)
    OBVIOUS
  <2>2. x.pc = "done"
    BY <1>3, <2>1 DEF Over, ReaderFields
  <2> QED BY <1>1, <1>5, <2>1, <2>2, AsideShares
<1>6. CASE /\ reader' = [reader EXCEPT ![r] = a]
           /\ compute' = [compute EXCEPT ![p] = IF compute[p] = NoComputation THEN Start(r) ELSE compute[p]]
  <2>1. /\ \A q \in Pages \ {p} : compute'[q] = compute[q]
        /\ compute[p] # NoComputation => compute'[p] = compute[p]
        /\ compute[p] = NoComputation => compute'[p] = Start(r)
    BY <1>1, <1>6
  <2>2. reader'[r] = a /\ \A q \in Readers \ {r} : reader'[q] = reader[q]
    BY <1>1, <1>6
  <2>3. Start(r) # NoComputation /\ Start(r).leader = r
    BY StartsFresh
  <2>4. LeaderInv'
    <3> SUFFICES ASSUME NEW q \in Pages, compute'[q] # NoComputation
                 PROVE  /\ compute'[q].leader \in Readers
                        /\ reader'[compute'[q].leader].pc = "waiting" /\ reader'[compute'[q].leader].page = q
      BY DEF LeaderInv, Waiting
    <3>1. CASE compute'[q] = compute[q]
      <4>1. compute[q].leader \in Readers /\ reader[compute[q].leader].pc = "waiting" /\ reader[compute[q].leader].page = q
        BY <3>1 DEF SharedInv, LeaderInv, Waiting
      <4> QED BY <3>1, <4>1, <1>1, <2>2
    <3>2. CASE q = p /\ compute'[q] = Start(r)
      BY <3>2, <2>2, <2>3, <1>3
    <3> QED BY <2>1, <3>1, <3>2
  <2>5. WaitInv'
    <3> SUFFICES ASSUME NEW q \in Readers, reader'[q].pc = "waiting" PROVE compute'[reader'[q].page] # NoComputation
      BY DEF WaitInv
    <3>1. CASE q = r
      BY <3>1, <2>1, <2>2, <2>3, <1>3
    <3>2. CASE q # r
      <4>1. reader'[q] = reader[q] /\ reader[q].page \in Pages /\ compute[reader[q].page] # NoComputation
        BY <3>2, <2>2 DEF PublicIInv, ReaderInv, ReaderOK, SharedInv, WaitInv
      <4> QED BY <4>1, <2>1, <2>3
    <3> QED BY <3>1, <3>2
  <2> QED BY <2>4, <2>5 DEF SharedInv
<1> QED BY <1>4, <1>5, <1>6

(* A request leaves: if it led the computation, another that waits for the *)
(* same page leads it now, or nobody waits for that page any more.         *)
LEMMA LeaveShares ==
    ASSUME PublicIInv, SharedInv, NEW r \in Readers, Leave(r)
    PROVE  SharedInv'
<1>1. PICK p : p = reader[r].page
  OBVIOUS
<1>2. /\ reader[r].pc = "waiting" /\ reader' = [reader EXCEPT ![r] = Over(reader[r], "none", 0)]
  BY DEF Leave
<1>3. /\ p \in Pages /\ DOMAIN reader = Readers /\ DOMAIN compute = Pages /\ ReaderOK(reader[r])
      /\ compute[p] # NoComputation
  BY <1>1, <1>2 DEF PublicIInv, ReaderInv, ReaderOK, ComputeInv, SharedInv, WaitInv
<1>4. \/ compute[p].leader # r /\ UNCHANGED compute
      \/ Waiting(p) \ {r} = {} /\ compute' = [compute EXCEPT ![p] = NoComputation]
      \/ \E n \in Waiting(p) \ {r} : compute' = [compute EXCEPT ![p] = Start(n)]
  BY <1>1 DEF Leave
<1>5. reader'[r].pc = "done" /\ \A q \in Readers \ {r} : reader'[q] = reader[q]
  BY <1>2, <1>3 DEF Over, ReaderOK, ReaderFields
<1>6. /\ \A q \in Pages \ {p} : compute'[q] = compute[q]
      /\ \/ compute'[p] = compute[p] /\ compute[p].leader # r
         \/ compute'[p] = NoComputation /\ Waiting(p) \ {r} = {}
         \/ \E n \in Waiting(p) \ {r} : compute'[p] = Start(n)
  BY <1>3, <1>4
<1>7. LeaderInv'
  <2> SUFFICES ASSUME NEW q \in Pages, compute'[q] # NoComputation
               PROVE  /\ compute'[q].leader \in Readers
                      /\ reader'[compute'[q].leader].pc = "waiting" /\ reader'[compute'[q].leader].page = q
    BY DEF LeaderInv, Waiting
  <2>1. CASE compute'[q] = compute[q] /\ compute[q].leader # r
    <3>1. compute[q].leader \in Readers /\ reader[compute[q].leader].pc = "waiting" /\ reader[compute[q].leader].page = q
      BY <2>1 DEF SharedInv, LeaderInv, Waiting
    <3> QED BY <2>1, <3>1, <1>5
  <2>2. CASE q = p /\ \E n \in Waiting(p) \ {r} : compute'[p] = Start(n)
    <3>1. PICK n \in Waiting(p) \ {r} : compute'[p] = Start(n)
      BY <2>2
    <3>2. compute'[p].leader = n /\ n \in Readers /\ reader'[n] = reader[n]
          /\ reader[n].pc = "waiting" /\ reader[n].page = p
      BY <3>1, <1>5, StartsFresh DEF Waiting
    <3> QED BY <2>2, <3>2
  <2>3. ASSUME q # p PROVE compute'[q] = compute[q] /\ compute[q].leader # r
    <3>1. compute'[q] = compute[q]
      BY <2>3, <1>6
    <3>2. reader[compute[q].leader].page = q
      BY <3>1 DEF SharedInv, LeaderInv, Waiting
    <3> QED BY <3>1, <3>2, <2>3, <1>1
  <2> QED BY <2>1, <2>2, <2>3, <1>6
<1>8. WaitInv'
  <2> SUFFICES ASSUME NEW q \in Readers, reader'[q].pc = "waiting" PROVE compute'[reader'[q].page] # NoComputation
    BY DEF WaitInv
  <2>1. q # r /\ reader'[q] = reader[q]
    BY <1>5
  <2>2. reader[q].page \in Pages /\ compute[reader[q].page] # NoComputation
    BY <2>1 DEF PublicIInv, ReaderInv, ReaderOK, SharedInv, WaitInv
  <2>3. reader[q].page = p => q \in Waiting(p) \ {r}
    BY <2>1 DEF Waiting
  <2>4. \A n : Start(n) # NoComputation
    BY StartsFresh
  <2> QED BY <2>1, <2>2, <2>3, <2>4, <1>3, <1>6
<1> QED BY <1>7, <1>8 DEF SharedInv

LEMMA ElsewhereShares ==
    ASSUME SharedInv, UNCHANGED <<compute, reader>>
    PROVE  SharedInv'
  BY DEF SharedInv, LeaderInv, WaitInv, Waiting

LEMMA SharingInductive ==
    PublicSpec => [](SharedInv /\ BoundInv)
<1>1. PublicInit => SharedInv /\ BoundInv
  <2> SUFFICES ASSUME PublicInit PROVE SharedInv /\ BoundInv
    OBVIOUS
  <2>1. compute = [p \in Pages |-> NoComputation] /\ reader = [r \in Readers |-> NewReader] /\ writes = 0 /\ leavers = 0
    BY DEF PublicInit, PublicFrom
  <2>2. \A r \in Readers : reader[r].pc = "new"
    BY <2>1 DEF NewReader
  <2>3. 0 \in 0 .. MaxWrites /\ 0 \in 0 .. MaxLeavers
    BY PublicAssumption
  <2> QED BY <2>1, <2>2, <2>3 DEF SharedInv, LeaderInv, WaitInv, BoundInv
<1>2. PublicIInv /\ SharedInv /\ BoundInv /\ [PublicNext]_publicVars => SharedInv' /\ BoundInv'
  <2> SUFFICES ASSUME PublicIInv, SharedInv, BoundInv, [PublicNext]_publicVars PROVE SharedInv' /\ BoundInv'
    OBVIOUS
  <2>0. /\ TableInv /\ OperatorInv /\ SettledInv
        /\ MaxWrites \in Nat /\ MaxLeavers \in Nat /\ writes \in 0 .. MaxWrites /\ leavers \in 0 .. MaxLeavers
    BY PublicAssumption DEF PublicIInv, BoundInv
  <2> DEFINE Within ==
        /\ writes' = writes \/ (writes < MaxWrites /\ writes' = writes + 1)
        /\ leavers' = leavers \/ (leavers < MaxLeavers /\ leavers' = leavers + 1)
  <2>1. ASSUME Within PROVE BoundInv'
    BY <2>0, <2>1 DEF BoundInv
  <2>2. CASE PublicRequests
    <3>1. ASSUME NEW p \in Pages, HotExpires(p) PROVE UNCHANGED <<compute, reader>> /\ Within
      BY <3>1 DEF HotExpires, tables
    <3>2. ASSUME NEW p \in Pages, Serve(p) \/ ComputeFails(p) PROVE Within
      BY <3>2 DEF Serve, compute_status_snapshot, ComputeFails, KeepLastGood, Insert, tables
    <3>3. ASSUME NEW r \in Readers, resolve_page_id(r) \/ Return(r) \/ Leave(r) \/ \E p \in Pages : get_or_compute(r, p)
          PROVE  Within
      BY <3>3 DEF resolve_page_id, Return, Leave, get_or_compute, tables
    <3>4. Within
      BY <2>2, <3>1, <3>2, <3>3 DEF PublicRequests
    <3>5. SharedInv'
      BY <2>2, <3>1, ComputeShares, ResolveShares, ReturnShares, AskShares, LeaveShares, ElsewhereShares DEF PublicRequests, Serve
    <3> QED BY <2>1, <3>4, <3>5
  <2>3. ASSUME NEW o \in Operators, Console(o) PROVE UNCHANGED <<compute, reader>> /\ Within
    <3>1. CASE Invalidate(o)
      BY <3>1 DEF Invalidate, tables
    <3>2. CASE Abandon(o)
      BY <3>2 DEF Abandon, tables
    <3>3. CASE ~Invalidate(o) /\ ~Abandon(o)
      <4>1. \/ PageHandlers(o) \/ WindowHandlers(o) \/ IncidentHandlers(o)
            \/ \E t \in Targets, s \in Statuses : check_target_now(o, t, s)
        BY <2>3, <3>3 DEF Console
      <4>2. ConsoleStep
        BY <2>0, <4>1, ConsoleKeeps
      <4> QED BY <4>2 DEF ConsoleStep, console, tables
    <3> QED BY <3>1, <3>2, <3>3
  <2>4. CASE BackgroundWrite
    <3>1. UNCHANGED <<compute, reader>> /\ Within
      BY <2>4 DEF BackgroundWrite, console
    <3> QED BY <2>1, <3>1, ElsewhereShares
  <2>5. CASE HourPasses \/ UNCHANGED publicVars
    <3>1. UNCHANGED <<compute, reader>> /\ Within
      BY <2>5 DEF HourPasses, publicVars, tables
    <3> QED BY <2>1, <3>1, ElsewhereShares
  <2> HIDE DEF Within
  <2> QED BY <2>1, <2>2, <2>3, <2>4, <2>5, ElsewhereShares DEF PublicNext
<1> QED BY <1>1, <1>2, PublicInductive, PTL DEF PublicSpec

(* The shape of the tables, and how requests share computations: what      *)
(* serves a page is always in the hands of a request that waits, and       *)
(* whoever waits has a computation to wait for, through failures and       *)
(* clients that disconnect.                                                *)
THEOREM PublicTypeCorrect == PublicSpec => []PublicTypeOK
<1>1. PublicIInv /\ SharedInv /\ BoundInv => PublicTypeOK
  <2> SUFFICES ASSUME PublicIInv, SharedInv, BoundInv PROVE PublicTypeOK
    OBVIOUS
  <2>1. \A p \in Pages : compute[p] # NoComputation => reader[compute[p].leader].pc = "waiting"
    BY DEF SharedInv, LeaderInv, Waiting
  <2> QED BY <2>1 DEF PublicIInv, TableInv, TablesOK, IncidentTable, SharedInv, WaitInv, BoundInv, PublicTypeOK
<1> QED BY <1>1, PublicInductive, SharingInductive, PTL

----------------------------------------------------------------------------
(* What the public has seen is not taken back.                             *)

\* Nothing a page has is older than what anyone was answered with, and the
\* fallback is not older than the hot layer nor younger than the computation.
Ages(now, seen, inHot, inGood, c) ==
    /\ seen \subseteq Nat /\ \A b \in seen : b <= now
    /\ inHot # Nothing => /\ inHot.began \in Nat /\ inHot.began <= now
                          /\ \A b \in seen : b <= inHot.began
    /\ inGood # Nothing => /\ inGood.began \in Nat /\ inGood.began <= now
                           /\ \A b \in seen : b <= inGood.began
                           /\ inHot # Nothing => inHot.began <= inGood.began
    /\ c # NoComputation => /\ c.began \in Nat /\ c.began <= now /\ inHot = Nothing
                            /\ \A b \in seen : b <= c.began
                            /\ inGood # Nothing => /\ inGood.began <= c.began
                                                   /\ c.pc = "insert" => inGood.began = c.began

\* What a request that waits may still be answered with is not older than what
\* others had seen when it came.
Awaits(x, inGood, c) ==
    /\ x.known \subseteq Nat /\ \A k \in x.known : k <= c.began
    /\ x.stale # Nothing => /\ x.stale.began \in Nat /\ x.stale.began <= c.began
                            /\ \A k \in x.known : k <= x.stale.began
                            /\ inGood # Nothing => x.stale.began <= inGood.began

NotBack(x) == x.pc = "done" /\ x.answer \in {"fresh", "stale"} => \A age \in x.known : x.seen >= age
ReaderBack(x) == NotBack(x) /\ (x.pc = "waiting" => Awaits(x, last_good[x.page], compute[x.page]))

PageBack(p) == Ages(writes, shown[p], hot[p], last_good[p], compute[p])
BackInv ==
    /\ DOMAIN shown = Pages /\ DOMAIN last_good = Pages
    /\ \A p \in Pages : PageBack(p)
    /\ \A r \in Readers : ReaderBack(reader[r])

(* A request keeps waiting while its computation goes on or starts again,  *)
(* and the fallback is dropped or replaced by that computation.            *)
LEMMA StillAwaits ==
    ASSUME NEW x, NEW good, NEW c, NEW newGood, NEW v, Awaits(x, good, c),
           c.began \in Nat, v.began \in Nat, c.began <= v.began,
           newGood = good \/ newGood = Nothing \/ newGood.began = c.began
    PROVE  Awaits(x, newGood, v)
<1>1. \A k \in x.known : k \in Nat /\ k <= v.began
  BY DEF Awaits
<1>2. ASSUME x.stale # Nothing PROVE x.stale.began <= v.began
  BY <1>2 DEF Awaits
<1> QED BY <1>1, <1>2 DEF Awaits

(* A request that waits, waits for a computation of a page. *)
LEMMA WaitsForOne ==
    ASSUME PublicIInv, SharedInv, NEW r \in Readers, reader[r].pc = "waiting"
    PROVE  reader[r].page \in Pages /\ compute[reader[r].page] # NoComputation
  BY DEF PublicIInv, ReaderInv, ReaderOK, SharedInv, WaitInv

(* Layers lose what they hold, and time goes on. *)
LEMMA DropsBack ==
    ASSUME PublicIInv, SharedInv, BackInv, UNCHANGED <<compute, reader, shown>>,
           writes' = writes \/ writes' = writes + 1,
           DOMAIN last_good' = Pages,
           \A p \in Pages : /\ hot'[p] = hot[p] \/ hot'[p] = Nothing
                            /\ last_good'[p] = last_good[p] \/ last_good'[p] = Nothing
    PROVE  BackInv'
<1>1. writes \in Nat /\ writes <= writes' /\ writes' \in Nat
  BY DEF PublicIInv, SettledInv
<1>2. ASSUME NEW p \in Pages PROVE PageBack(p)'
  <2>1. Ages(writes', shown[p], hot[p], last_good[p], compute[p])
    BY <1>1 DEF BackInv, PageBack, Ages
  <2> QED BY <2>1 DEF PageBack, Ages
<1>3. ASSUME NEW r \in Readers PROVE ReaderBack(reader[r])'
  <2>1. ASSUME reader[r].pc = "waiting" PROVE reader[r].page \in Pages
    BY <2>1, WaitsForOne
  <2> QED BY <2>1 DEF BackInv, ReaderBack, NotBack, Awaits
<1> QED BY <1>2, <1>3 DEF BackInv

(* A page's computation goes on. *)
LEMMA AdvanceBack ==
    ASSUME PublicIInv, SharedInv, BackInv, NEW p \in Pages, compute[p] # NoComputation,
           NEW v, v # NoComputation, v.began = compute[p].began,
           compute' = [compute EXCEPT ![p] = v], UNCHANGED <<writes, hot, reader, shown>>,
           \/ v.pc # "insert" /\ UNCHANGED last_good
           \/ \E s : s.began = v.began /\ last_good' = [last_good EXCEPT ![p] = s]
    PROVE  BackInv'
<1>1. /\ DOMAIN compute = Pages /\ DOMAIN last_good = Pages /\ compute[p].began \in Nat
      /\ compute'[p] = v /\ \A q \in Pages \ {p} : compute'[q] = compute[q]
  BY DEF PublicIInv, ComputeInv, BackInv
<1>2. /\ DOMAIN last_good' = Pages /\ \A q \in Pages \ {p} : last_good'[q] = last_good[q]
      /\ (v.pc # "insert" /\ last_good'[p] = last_good[p]) \/ last_good'[p].began = v.began
  BY <1>1
<1>3. ASSUME NEW q \in Pages PROVE PageBack(q)'
  <2>1. CASE q = p
    <3>1. Ages(writes, shown[p], hot[p], last_good[p], compute[p])
      BY DEF BackInv, PageBack
    <3>2. hot[p] = Nothing /\ v.began \in Nat /\ v.began <= writes /\ \A b \in shown[p] : b <= v.began
      BY <3>1 DEF Ages
    <3>3. Ages(writes, shown[p], hot[p], last_good'[p], v)
      BY <1>2, <3>1, <3>2 DEF Ages
    <3> QED BY <2>1, <3>3, <1>1 DEF PageBack
  <2>2. CASE q # p
    BY <2>2, <1>1, <1>2 DEF BackInv, PageBack
  <2> QED BY <2>1, <2>2
<1>4. ASSUME NEW r \in Readers PROVE ReaderBack(reader[r])'
  <2>0. ReaderBack(reader[r])
    BY DEF BackInv
  <2>1. CASE reader[r].pc = "waiting" /\ reader[r].page = p
    <3>1. Awaits(reader[r], last_good[p], compute[p])
      BY <2>0, <2>1 DEF ReaderBack
    <3>2. Awaits(reader[r], last_good'[p], v)
      BY <3>1, <1>1, <1>2, StillAwaits
    <3> QED BY <2>0, <2>1, <3>2, <1>1 DEF ReaderBack
  <2>2. CASE reader[r].pc = "waiting" /\ reader[r].page # p
    <3>1. reader[r].page \in Pages \ {p}
      BY <2>2, WaitsForOne
    <3> QED BY <2>0, <2>2, <3>1, <1>1, <1>2 DEF ReaderBack
  <2>3. CASE reader[r].pc # "waiting"
    BY <2>0, <2>3 DEF ReaderBack
  <2> QED BY <2>1, <2>2, <2>3
<1> QED BY <1>2, <1>3, <1>4 DEF BackInv

(* A computation ends: everyone who waited for it is answered with it, with *)
(* the snapshot noted on the way in, or not at all.                        *)
LEMMA EndBack ==
    ASSUME PublicIInv, SharedInv, BackInv, NEW p \in Pages, compute[p] # NoComputation,
           compute' = [compute EXCEPT ![p] = NoComputation], UNCHANGED <<writes, last_good>>,
           \A q \in Pages \ {p} : hot'[q] = hot[q] /\ shown'[q] = shown[q],
           DOMAIN shown' = Pages,
           Ages(writes, shown'[p], hot'[p], last_good[p], NoComputation),
           \A r \in Readers \ Waiting(p) : reader'[r] = reader[r],
           \A r \in Waiting(p) : \E answer, age :
               /\ reader'[r] = Over(reader[r], answer, age)
               /\ answer \in {"fresh", "stale"} => \A k \in reader[r].known : age >= k
    PROVE  BackInv'
<1>1. compute'[p] = NoComputation /\ \A q \in Pages \ {p} : compute'[q] = compute[q]
  BY DEF PublicIInv, ComputeInv
<1>2. ASSUME NEW q \in Pages PROVE PageBack(q)'
  BY <1>1 DEF BackInv, PageBack
<1>3. ASSUME NEW r \in Readers PROVE ReaderBack(reader[r])'
  <2>0. ReaderBack(reader[r]) /\ ReaderOK(reader[r])
    BY DEF BackInv, PublicIInv, ReaderInv
  <2>1. CASE r \in Waiting(p)
    <3>1. PICK answer, age : /\ reader'[r] = Over(reader[r], answer, age)
                             /\ answer \in {"fresh", "stale"} => \A k \in reader[r].known : age >= k
      BY <2>1
    <3>2. /\ reader'[r].pc = "done" /\ reader'[r].answer = answer
          /\ reader'[r].seen = age /\ reader'[r].known = reader[r].known
      BY <3>1, <2>0 DEF Over, ReaderOK, ReaderFields
    <3> QED BY <3>1, <3>2 DEF ReaderBack, NotBack
  <2>2. CASE r \notin Waiting(p)
    <3>1. reader'[r] = reader[r]
      BY <2>2
    <3>2. reader[r].pc = "waiting" => reader[r].page \in Pages \ {p}
      BY <2>2, WaitsForOne DEF Waiting
    <3> QED BY <2>0, <3>1, <3>2, <1>1 DEF ReaderBack, NotBack
  <2> QED BY <2>1, <2>2
<1>4. DOMAIN last_good' = Pages
  BY DEF BackInv
<1> QED BY <1>2, <1>3, <1>4 DEF BackInv

(* When it fails, those who noted a snapshot get that one. *)
LEMMA FailedBack ==
    ASSUME PublicIInv, SharedInv, BackInv, NEW p \in Pages, compute[p] # NoComputation,
           Failed(p), UNCHANGED <<writes, hot, last_good>>
    PROVE  BackInv'
<1> DEFINE fallback == {reader[r].stale.began : r \in {w \in Waiting(p) : reader[w].stale # Nothing}}
<1>1. /\ compute' = [compute EXCEPT ![p] = NoComputation]
      /\ shown' = [shown EXCEPT ![p] = @ \cup fallback]
      /\ \A r \in Readers \ Waiting(p) : reader'[r] = reader[r]
  BY DEF Failed
<1>2. /\ DOMAIN shown' = Pages /\ shown'[p] = shown[p] \cup fallback
      /\ \A q \in Pages \ {p} : shown'[q] = shown[q]
  BY <1>1 DEF BackInv
<1>3. Ages(writes, shown[p], hot[p], last_good[p], compute[p]) /\ writes \in Nat
  BY DEF BackInv, PageBack, PublicIInv, SettledInv
<1>4. ASSUME NEW r \in Waiting(p) PROVE Awaits(reader[r], last_good[p], compute[p])
  BY DEF BackInv, ReaderBack, Waiting
<1>5. ASSUME NEW b \in fallback
      PROVE  b \in Nat /\ b <= writes /\ (last_good[p] # Nothing => b <= last_good[p].began)
  <2>1. PICK r \in Waiting(p) : reader[r].stale # Nothing /\ b = reader[r].stale.began
    OBVIOUS
  <2>2. b \in Nat /\ b <= compute[p].began /\ (last_good[p] # Nothing => b <= last_good[p].began)
    BY <2>1, <1>4 DEF Awaits
  <2>3. compute[p].began \in Nat /\ compute[p].began <= writes
    BY <1>3 DEF Ages
  <2> QED BY <2>2, <2>3, <1>3
<1> HIDE DEF fallback
<1>6. hot[p] = Nothing
  BY <1>3 DEF Ages
<1>7. Ages(writes, shown'[p], hot'[p], last_good[p], NoComputation)
  BY <1>2, <1>3, <1>5, <1>6 DEF Ages
<1>8. ASSUME NEW r \in Waiting(p)
      PROVE  \E answer, age : /\ reader'[r] = Over(reader[r], answer, age)
                              /\ answer \in {"fresh", "stale"} => \A k \in reader[r].known : age >= k
  <2>1. r \in Readers
    BY DEF Waiting
  <2>2. CASE reader[r].stale # Nothing
    <3>1. reader'[r] = Over(reader[r], "stale", reader[r].stale.began)
      BY <2>1, <2>2 DEF Failed
    <3>2. \A k \in reader[r].known : reader[r].stale.began >= k
      BY <2>2, <1>4 DEF Awaits
    <3> QED BY <3>1, <3>2
  <2>3. CASE reader[r].stale = Nothing
    <3>1. reader'[r] = Over(reader[r], "internal_error", 0)
      BY <2>1, <2>3 DEF Failed
    <3> QED BY <3>1
  <2> QED BY <2>2, <2>3
<1> QED BY <1>1, <1>2, <1>7, <1>8, EndBack

(* When it is done, everyone who waited gets it. *)
LEMMA InsertBack ==
    ASSUME PublicIInv, SharedInv, BackInv, NEW p \in Pages, Insert(p)
    PROVE  BackInv'
<1>1. PICK age : age = compute[p].began
  OBVIOUS
<1>2. PICK s : s = Snapshot(compute[p])
  OBVIOUS
<1>3. /\ compute[p] # NoComputation /\ compute[p].pc = "insert"
      /\ compute' = [compute EXCEPT ![p] = NoComputation] /\ UNCHANGED <<writes, last_good>>
      /\ hot' = [hot EXCEPT ![p] = s]
      /\ shown' = [shown EXCEPT ![p] = IF Waiting(p) = {} THEN @ ELSE @ \cup {age}]
      /\ \A r \in Readers \ Waiting(p) : reader'[r] = reader[r]
  BY <1>1, <1>2 DEF Insert, tables
<1>4. s.began = age
  BY <1>1, <1>2 DEF Snapshot
<1>5. Ages(writes, shown[p], hot[p], last_good[p], compute[p])
  BY DEF BackInv, PageBack
<1>6. /\ DOMAIN shown' = Pages /\ shown'[p] \in {shown[p], shown[p] \cup {age}} /\ hot'[p] = s
      /\ \A q \in Pages \ {p} : hot'[q] = hot[q] /\ shown'[q] = shown[q]
  BY <1>3 DEF BackInv, PublicIInv, HotInv
<1>7. /\ age \in Nat /\ age <= writes /\ \A b \in shown[p] : b <= age
      /\ last_good[p] # Nothing => last_good[p].began = age
  BY <1>1, <1>3, <1>5 DEF Ages
<1>8. Ages(writes, shown'[p], hot'[p], last_good[p], NoComputation)
  <2>1. shown'[p] \subseteq Nat /\ \A b \in shown'[p] : b <= writes /\ b <= age
    BY <1>5, <1>6, <1>7 DEF Ages
  <2> QED BY <2>1, <1>4, <1>6, <1>7 DEF Ages
<1>9. ASSUME NEW r \in Waiting(p)
      PROVE  \E answer, a : /\ reader'[r] = Over(reader[r], answer, a)
                            /\ answer \in {"fresh", "stale"} => \A k \in reader[r].known : a >= k
  <2>1. reader'[r] = Over(reader[r], "fresh", age)
    BY <1>1 DEF Insert, Waiting
  <2>2. Awaits(reader[r], last_good[p], compute[p])
    BY DEF BackInv, ReaderBack, Waiting
  <2>3. \A k \in reader[r].known : age >= k
    BY <2>2, <1>1, <1>7 DEF Awaits
  <2> QED BY <2>1, <2>3
<1> QED BY <1>3, <1>6, <1>8, <1>9, EndBack

(* Reads leave the layers alone, and the fallback becomes the snapshot that *)
(* is then inserted.                                                       *)
LEMMA ComputeBack ==
    ASSUME PublicIInv, SharedInv, BackInv, NEW p \in Pages,
           compute_status_snapshot(p) \/ ComputeFails(p) \/ KeepLastGood(p)
    PROVE  BackInv'
<1>1. compute[p] # NoComputation /\ UNCHANGED <<writes, hot>>
  BY ReadStep
<1>2. PICK c : c = compute[p]
  OBVIOUS
<1>3. ViewInv(c) /\ "pc" \in DOMAIN c
  BY <1>1, <1>2 DEF PublicIInv, ComputeInv, ViewInv, ViewFields
<1>4. CASE Failed(p) /\ UNCHANGED last_good
  BY <1>1, <1>4, FailedBack
<1>5. ASSUME NEW v, GoesOn(compute[p], v), compute' = [compute EXCEPT ![p] = v], UNCHANGED <<reader, shown>>
      PROVE  BackInv'
  <2>1. v # NoComputation /\ v.began = compute[p].began /\ compute'[p] = v
    BY <1>5 DEF GoesOn, ViewInv, NoComputation, Early, Late, PublicIInv, ComputeInv
  <2>2. CASE compute_status_snapshot(p) \/ ComputeFails(p)
    <3>1. UNCHANGED last_good
      BY <2>2 DEF compute_status_snapshot, ComputeFails, layers
    <3>2. CASE compute'[p] = NoComputation
      BY <2>1, <3>2
    <3>3. CASE compute'[p] # NoComputation
      <4>1. \/ \E w \in {ReadPage(c), ReadComponents(c, p), ReadWindows(c), ReadIncidents(c), ReadActive(c),
                         ReadUpcoming(c), ReadLogo(c, p)} : compute' = [compute EXCEPT ![p] = w]
            \/ c.pc = "details" /\ \E t : compute' = [compute EXCEPT ![p] = RateComponent(c, t)]
            \/ c.pc = "details" /\ \E i, loaded : compute' = [compute EXCEPT ![p] = AskPostmortem(c, i, loaded)]
            \/ Failed(p)
        BY <2>2, <1>2 DEF compute_status_snapshot, ComputeFails
      <4>2. \A w : compute' = [compute EXCEPT ![p] = w] => compute'[p] = w
        BY DEF PublicIInv, ComputeInv
      <4>3. ~Failed(p)
        BY <3>3, <4>2 DEF Failed
      <4>4. ASSUME NEW w \in {ReadPage(c), ReadComponents(c, p), ReadWindows(c), ReadIncidents(c), ReadActive(c),
                              ReadUpcoming(c), ReadLogo(c, p)}
            PROVE  w.pc # "insert"
        BY <1>3 DEF ReadPage, ReadComponents, ReadWindows, ReadIncidents, ReadActive, ReadUpcoming, ReadLogo
      <4>5. ASSUME NEW t PROVE RateComponent(c, t).pc = c.pc
        BY <1>3 DEF RateComponent
      <4>6. ASSUME NEW i, NEW loaded PROVE AskPostmortem(c, i, loaded).pc = c.pc
        BY <1>3 DEF AskPostmortem
      <4>7. v.pc # "insert"
        BY <2>1, <4>1, <4>2, <4>3, <4>4, <4>5, <4>6
      <4> QED BY <1>1, <1>5, <2>1, <3>1, <4>7, AdvanceBack
    <3> QED BY <3>2, <3>3
  <2>3. CASE KeepLastGood(p)
    <3>1. last_good' = [last_good EXCEPT ![p] = Snapshot(compute[p])]
      BY <2>3 DEF KeepLastGood, StoreAsLastGood
    <3>2. Snapshot(compute[p]).began = compute[p].began
      BY DEF Snapshot
    <3> QED BY <1>1, <1>5, <2>1, <3>1, <3>2, AdvanceBack
  <2> QED BY <2>2, <2>3
<1> QED BY <1>4, <1>5, ReadStep

(* Whoever asks notes what has been shown, and finds nothing older. *)
LEMMA AskBack ==
    ASSUME PublicIInv, SharedInv, BackInv, NEW r \in Readers, NEW p \in Pages, get_or_compute(r, p)
    PROVE  BackInv'
<1> DEFINE asked == [reader[r] EXCEPT !.pc = "waiting", !.page = p, !.stale = last_good[p],
                            !.must = settled[p], !.known = shown[p],
                            !.began = IF reader[r].pc = "new" THEN writes ELSE reader[r].began]
<1>1. /\ UNCHANGED <<writes, hot, last_good>> /\ DOMAIN reader = Readers /\ ReaderOK(reader[r])
      /\ DOMAIN compute = Pages /\ writes \in Nat /\ DOMAIN shown = Pages /\ DOMAIN last_good' = Pages
  BY DEF get_or_compute, tables, layers, PublicIInv, ReaderInv, ComputeInv, SettledInv, BackInv
<1>2. PICK a : a = asked
  OBVIOUS
<1>3. /\ ReaderFields \subseteq DOMAIN a /\ a.pc = "waiting" /\ a.page = p
      /\ a.known = shown[p] /\ a.stale = last_good[p]
  BY <1>1, <1>2 DEF ReaderOK, ReaderFields
<1>4. \/ /\ hot[p] # Nothing /\ reader' = [reader EXCEPT ![r] = Over(a, "fresh", hot[p].began)]
         /\ shown' = [shown EXCEPT ![p] = @ \cup {hot[p].began}] /\ UNCHANGED compute
      \/ /\ hot[p] = Nothing /\ reader' = [reader EXCEPT ![r] = a] /\ UNCHANGED shown
         /\ compute' = [compute EXCEPT ![p] = IF compute[p] = NoComputation THEN Start(r) ELSE compute[p]]
  BY <1>2 DEF get_or_compute
<1> HIDE DEF asked
<1>5. Ages(writes, shown[p], hot[p], last_good[p], compute[p])
  BY DEF BackInv, PageBack
<1>6. CASE /\ hot[p] # Nothing /\ reader' = [reader EXCEPT ![r] = Over(a, "fresh", hot[p].began)]
           /\ shown' = [shown EXCEPT ![p] = @ \cup {hot[p].began}] /\ UNCHANGED compute
  <2>1. /\ DOMAIN shown' = Pages /\ shown'[p] = shown[p] \cup {hot[p].began}
        /\ \A q \in Pages \ {p} : shown'[q] = shown[q]
    BY <1>1, <1>6
  <2>2. ASSUME NEW q \in Pages PROVE PageBack(q)'
    <3>1. CASE q = p
      <4>1. Ages(writes, shown'[p], hot[p], last_good[p], compute[p])
        BY <1>5, <1>6, <2>1 DEF Ages
      <4> QED BY <3>1, <4>1, <1>1, <1>6 DEF PageBack
    <3>2. CASE q # p
      BY <3>2, <1>1, <1>6, <2>1 DEF BackInv, PageBack
    <3> QED BY <3>1, <3>2
  <2>3. ASSUME NEW q \in Readers PROVE ReaderBack(reader[q])'
    <3>1. CASE q = r
      <4>1. PICK x : x = Over(a, "fresh", hot[p].began)
        OBVIOUS
      <4>2. x.pc = "done" /\ x.known = shown[p] /\ x.seen = hot[p].began
        BY <1>3, <4>1 DEF Over, ReaderFields
      <4>3. reader'[q] = x
        BY <3>1, <4>1, <1>1, <1>6
      <4>4. \A b \in shown[p] : hot[p].began >= b
        BY <1>5, <1>6 DEF Ages
      <4> QED BY <4>2, <4>3, <4>4 DEF ReaderBack, NotBack
    <3>2. CASE q # r
      <4>1. reader'[q] = reader[q] /\ ReaderBack(reader[q])
        BY <3>2, <1>1, <1>6 DEF BackInv
      <4> QED BY <4>1, <1>1, <1>6 DEF ReaderBack, NotBack
    <3> QED BY <3>1, <3>2
  <2> QED BY <1>1, <2>1, <2>2, <2>3 DEF BackInv
<1>7. CASE /\ hot[p] = Nothing /\ reader' = [reader EXCEPT ![r] = a] /\ UNCHANGED shown
           /\ compute' = [compute EXCEPT ![p] = IF compute[p] = NoComputation THEN Start(r) ELSE compute[p]]
  <2>1. /\ \A q \in Pages \ {p} : compute'[q] = compute[q]
        /\ compute[p] # NoComputation => compute'[p] = compute[p]
        /\ compute[p] = NoComputation => compute'[p] = Start(r)
    BY <1>1, <1>7
  <2>2. PICK c : c = Start(r)
    OBVIOUS
  <2>3. c.began = writes /\ c.pc = "page" /\ c # NoComputation
    BY <2>2, StartsFresh
  <2>4. Ages(writes, shown[p], hot[p], last_good[p], compute'[p])
    <3>1. CASE compute[p] # NoComputation
      BY <3>1, <2>1, <1>5
    <3>2. Ages(writes, shown[p], Nothing, last_good[p], c)
      BY <1>1, <1>5, <1>7, <2>3 DEF Ages
    <3> QED BY <3>1, <3>2, <2>1, <2>2, <1>7
  <2>5. ASSUME NEW q \in Pages PROVE PageBack(q)'
    <3>1. CASE q = p
      BY <3>1, <2>4, <1>1, <1>7 DEF PageBack
    <3>2. CASE q # p
      BY <3>2, <1>1, <1>7, <2>1 DEF BackInv, PageBack
    <3> QED BY <3>1, <3>2
  <2>6. ASSUME NEW q \in Readers PROVE ReaderBack(reader[q])'
    <3>1. CASE q = r
      <4>1. reader'[q] = a
        BY <3>1, <1>1, <1>7
      <4>2. compute'[p] # NoComputation
        BY <2>1, <2>2, <2>3
      <4>3. Awaits(a, last_good[p], compute'[p])
        BY <1>3, <2>4, <4>2 DEF Ages, Awaits
      <4> QED BY <4>1, <4>3, <1>1, <1>3 DEF ReaderBack, NotBack
    <3>2. CASE q # r
      <4>1. reader'[q] = reader[q] /\ ReaderBack(reader[q])
        BY <3>2, <1>1, <1>7 DEF BackInv
      <4>2. ASSUME reader[q].pc = "waiting" PROVE compute'[reader[q].page] = compute[reader[q].page]
        BY <4>2, <3>2, <2>1, WaitsForOne
      <4> QED BY <4>1, <4>2, <1>1 DEF ReaderBack, NotBack
    <3> QED BY <3>1, <3>2
  <2> QED BY <1>1, <1>7, <2>5, <2>6 DEF BackInv
<1> QED BY <1>4, <1>6, <1>7

(* When a request leaves, the computation of its page starts again at most, *)
(* and a new one is younger.                                               *)
LEMMA LeaveBack ==
    ASSUME PublicIInv, SharedInv, BackInv, NEW r \in Readers, Leave(r)
    PROVE  BackInv'
<1>1. PICK p : p = reader[r].page
  OBVIOUS
<1>2. /\ UNCHANGED <<writes, hot, last_good, shown>> /\ reader[r].pc = "waiting"
      /\ reader' = [reader EXCEPT ![r] = Over(reader[r], "none", 0)]
  BY DEF Leave, tables, layers
<1>3. /\ p \in Pages /\ DOMAIN reader = Readers /\ DOMAIN compute = Pages /\ ReaderOK(reader[r])
      /\ writes \in Nat /\ compute[p] # NoComputation
  BY <1>1, <1>2, WaitsForOne DEF PublicIInv, ReaderInv, ComputeInv, SettledInv
<1>4. \/ UNCHANGED compute
      \/ Waiting(p) \ {r} = {} /\ compute' = [compute EXCEPT ![p] = NoComputation]
      \/ \E n : compute' = [compute EXCEPT ![p] = Start(n)]
  BY <1>1 DEF Leave
<1>5. /\ \A q \in Pages \ {p} : compute'[q] = compute[q]
      /\ \/ compute'[p] = compute[p]
         \/ compute'[p] = NoComputation /\ Waiting(p) \ {r} = {}
         \/ compute'[p] # NoComputation /\ compute'[p].began = writes /\ compute'[p].pc = "page"
  <2>1. ASSUME NEW n, compute' = [compute EXCEPT ![p] = Start(n)]
        PROVE  (\A q \in Pages \ {p} : compute'[q] = compute[q]) /\ compute'[p] = Start(n)
    BY <2>1, <1>3
  <2> QED BY <1>3, <1>4, <2>1, StartsFresh
<1>6. Ages(writes, shown[p], hot[p], last_good[p], compute[p])
  BY <1>3 DEF BackInv, PageBack
<1>7. compute[p].began \in Nat /\ compute[p].began <= writes /\ hot[p] = Nothing
  BY <1>3, <1>6 DEF Ages
<1>8. ASSUME NEW q \in Pages PROVE PageBack(q)'
  <2>1. CASE q = p
    <3>1. Ages(writes, shown[p], hot[p], last_good[p], compute'[p])
      BY <1>3, <1>5, <1>6, <1>7 DEF Ages
    <3> QED BY <2>1, <3>1, <1>2 DEF PageBack
  <2>2. CASE q # p
    BY <2>2, <1>2, <1>5 DEF BackInv, PageBack
  <2> QED BY <2>1, <2>2
<1>9. ASSUME NEW q \in Readers PROVE ReaderBack(reader[q])'
  <2>1. CASE q = r
    <3>1. PICK x : x = Over(reader[r], "none", 0)
      OBVIOUS
    <3>2. x.pc = "done" /\ x.answer = "none"
      BY <3>1, <1>3 DEF Over, ReaderOK, ReaderFields
    <3>3. reader'[q] = x
      BY <2>1, <3>1, <1>2, <1>3
    <3> QED BY <3>2, <3>3 DEF ReaderBack, NotBack
  <2>2. CASE q # r
    <3>1. reader'[q] = reader[q] /\ ReaderBack(reader[q])
      BY <2>2, <1>2, <1>3 DEF BackInv
    <3>2. CASE reader[q].pc = "waiting" /\ reader[q].page = p
      <4>1. compute'[p].began \in Nat /\ compute[p].began <= compute'[p].began
        BY <2>2, <3>2, <1>3, <1>5, <1>7 DEF Waiting
      <4>2. Awaits(reader[q], last_good[p], compute[p])
        BY <3>1, <3>2 DEF ReaderBack
      <4>3. Awaits(reader[q], last_good[p], compute'[p])
        BY <4>1, <4>2, <1>7, StillAwaits
      <4> QED BY <3>1, <3>2, <4>3, <1>2 DEF ReaderBack, NotBack
    <3>3. CASE reader[q].pc = "waiting" /\ reader[q].page # p
      <4>1. compute'[reader[q].page] = compute[reader[q].page]
        BY <3>3, <1>5, WaitsForOne
      <4> QED BY <3>1, <4>1, <1>2 DEF ReaderBack, NotBack
    <3>4. CASE reader[q].pc # "waiting"
      BY <3>1, <3>4 DEF ReaderBack, NotBack
    <3> QED BY <3>2, <3>3, <3>4
  <2> QED BY <2>1, <2>2
<1> QED BY <1>2, <1>8, <1>9 DEF BackInv

(* A request that is not waiting and is not answered with a snapshot. *)
LEMMA AsideBack ==
    ASSUME PublicIInv, SharedInv, BackInv, NEW r \in Readers, resolve_page_id(r) \/ Return(r)
    PROVE  BackInv'
<1>1. /\ UNCHANGED <<writes, hot, last_good, shown, compute>> /\ DOMAIN reader = Readers /\ ReaderOK(reader[r])
  BY DEF resolve_page_id, Return, tables, layers, PublicIInv, ReaderInv
<1>2. \E x : /\ reader' = [reader EXCEPT ![r] = x]
             /\ x.pc \in {"new", "resolved"} \/ (x.pc = "done" /\ x.answer = "not_found")
  <2>1. ASSUME NEW p PROVE [reader[r] EXCEPT !.pc = "resolved", !.page = p, !.began = writes].pc = "resolved"
    BY <1>1 DEF ReaderOK, ReaderFields
  <2>2. PICK y : y = Over(reader[r], "not_found", 0)
    OBVIOUS
  <2>3. y.pc = "done" /\ y.answer = "not_found"
    BY <1>1, <2>2 DEF Over, ReaderOK, ReaderFields
  <2>4. PICK z : z = NewReader
    OBVIOUS
  <2>5. z.pc = "new"
    BY <2>4 DEF NewReader
  <2> QED BY <2>1, <2>2, <2>3, <2>4, <2>5 DEF resolve_page_id, Return
<1>3. PICK x : /\ reader' = [reader EXCEPT ![r] = x]
               /\ x.pc \in {"new", "resolved"} \/ (x.pc = "done" /\ x.answer = "not_found")
  BY <1>2
<1>4. ASSUME NEW q \in Readers PROVE ReaderBack(reader[q])'
  <2>1. CASE q = r
    BY <2>1, <1>1, <1>3 DEF ReaderBack, NotBack
  <2>2. CASE q # r
    BY <2>2, <1>1, <1>3 DEF BackInv, ReaderBack, NotBack
  <2> QED BY <2>1, <2>2
<1>5. ASSUME NEW q \in Pages PROVE PageBack(q)'
  BY <1>1 DEF BackInv, PageBack
<1> QED BY <1>1, <1>4, <1>5 DEF BackInv

(* What the public has seen is not taken back: a visitor who asks after    *)
(* others were answered gets no older snapshot than they did, from the hot *)
(* layer, from a computation or, when that fails, from the stale fallback, *)
(* whatever is invalidated, expires, fails or leaves in between.           *)
THEOREM AnswersStayCurrent == PublicSpec => []AnswersNeverGoBack
<1>1. PublicInit => BackInv
  <2> SUFFICES ASSUME PublicInit PROVE BackInv
    OBVIOUS
  <2>1. /\ shown = [p \in Pages |-> {}] /\ hot = [p \in Pages |-> Nothing] /\ last_good = [p \in Pages |-> Nothing]
        /\ compute = [p \in Pages |-> NoComputation] /\ reader = [r \in Readers |-> NewReader]
    BY DEF PublicInit, PublicFrom
  <2>2. \A r \in Readers : reader[r].pc = "new"
    BY <2>1 DEF NewReader
  <2> QED BY <2>1, <2>2 DEF BackInv, PageBack, Ages, ReaderBack, NotBack
<1>2. PublicIInv /\ SharedInv /\ BackInv /\ [PublicNext]_publicVars => BackInv'
  <2> SUFFICES ASSUME PublicIInv, SharedInv, BackInv, [PublicNext]_publicVars PROVE BackInv'
    OBVIOUS
  <2>0. TableInv /\ OperatorInv /\ SettledInv /\ DOMAIN last_good = Pages
    BY DEF PublicIInv, BackInv
  <2>1. CASE PublicRequests
    <3>1. ASSUME NEW p \in Pages, HotExpires(p) PROVE BackInv'
      <4>1. hot' = [hot EXCEPT ![p] = Nothing] /\ UNCHANGED <<compute, reader, shown, last_good, writes>>
        BY <3>1 DEF HotExpires, tables
      <4>2. \A q \in Pages : hot'[q] = hot[q] \/ hot'[q] = Nothing
        BY <4>1 DEF PublicIInv, HotInv
      <4> QED BY <2>0, <4>1, <4>2, DropsBack
    <3> QED BY <2>1, <3>1, ComputeBack, InsertBack, AskBack, LeaveBack, AsideBack DEF PublicRequests, Serve
  <2>2. ASSUME NEW o \in Operators, Console(o) PROVE BackInv'
    <3>1. CASE Invalidate(o)
      <4>1. /\ UNCHANGED <<compute, reader, shown, writes>> /\ DOMAIN last_good' = Pages
            /\ \A q \in Pages : /\ hot'[q] = hot[q] \/ hot'[q] = Nothing
                                /\ last_good'[q] = last_good[q] \/ last_good'[q] = Nothing
        BY <2>0, <3>1 DEF Invalidate, tables, Dropped
      <4> QED BY <4>1, DropsBack
    <3>2. CASE Abandon(o)
      <4>1. UNCHANGED <<compute, reader, shown, writes, hot, last_good>>
        BY <3>2 DEF Abandon, tables, layers
      <4> QED BY <2>0, <4>1, DropsBack
    <3>3. CASE ~Invalidate(o) /\ ~Abandon(o)
      <4>1. \/ PageHandlers(o) \/ WindowHandlers(o) \/ IncidentHandlers(o)
            \/ \E t \in Targets, s \in Statuses : check_target_now(o, t, s)
        BY <2>2, <3>3 DEF Console
      <4>2. ConsoleStep
        BY <2>0, <4>1, ConsoleKeeps
      <4>3. UNCHANGED <<compute, reader, shown, hot, last_good>> /\ (writes' = writes \/ writes' = writes + 1)
        BY <4>2 DEF ConsoleStep, console, tables, layers
      <4> QED BY <2>0, <4>3, DropsBack
    <3> QED BY <3>1, <3>2, <3>3
  <2>3. CASE BackgroundWrite
    <3>1. UNCHANGED <<compute, reader, shown, hot, last_good>> /\ writes' = writes + 1
      BY <2>3 DEF BackgroundWrite, console, layers
    <3> QED BY <2>0, <3>1, DropsBack
  <2>4. CASE HourPasses \/ UNCHANGED publicVars
    <3>1. UNCHANGED <<compute, reader, shown, hot, last_good, writes>>
      BY <2>4 DEF HourPasses, publicVars, tables, layers
    <3> QED BY <2>0, <3>1, DropsBack
  <2> QED BY <2>1, <2>2, <2>3, <2>4 DEF PublicNext
<1>3. BackInv => AnswersNeverGoBack
  BY DEF BackInv, ReaderBack, NotBack, AnswersNeverGoBack, Served
<1> QED BY <1>1, <1>2, <1>3, PublicInductive, SharingInductive, PTL DEF PublicSpec

----------------------------------------------------------------------------
(* A console handler that has answered shows: a request that comes after   *)
(* its invalidation is not served, as fresh, a snapshot from before its    *)
(* write, unless a computation was already running then.  The settled      *)
(* writes of a page bound the age of everything a request of it can meet:  *)
(* the cached snapshot and the computation in flight.                      *)
THEOREM AnsweredWritesShow == PublicSpec => []SettledWritesShow
<1>1. PublicIInv => SettledWritesShow
  BY DEF PublicIInv, ReaderInv, ReaderOK, SettledWritesShow, Served
<1> QED BY <1>1, PublicInductive, PTL

(* A snapshot contradicts itself about a component only when that          *)
(* component went into maintenance or out of it between the two reads of   *)
(* the windows, whatever the console, the incident writer and the clock    *)
(* did between the other reads.                                            *)
THEOREM SnapshotsCohere == PublicSpec => []SnapshotCoherent
<1>1. PublicIInv => SnapshotCoherent
  <2> SUFFICES ASSUME PublicIInv, NEW s \in Snapshots PROVE Coherent(s)
    BY DEF SnapshotCoherent, Coherent
  <2>1. PICK p \in Pages : hot[p] # Nothing /\ s = hot[p]
    BY DEF Snapshots
  <2> QED BY <2>1 DEF PublicIInv, HotInv
<1> QED BY <1>1, PublicInductive, PTL

(* What an undisturbed computation reads and rates. *)
LEMMA UndisturbedView ==
    ASSUME NEW p \in Pages
    PROVE  LET rows == {db.incident[i] : i \in Rows(db.incident)}
           IN  \E c : /\ Undisturbed(p) = Snapshot(c)
                      /\ c.bound = db.bound[p] /\ c.maintained = Maintained
                      /\ c.incidents = db.incident
                      /\ c.status = [t \in db.bound[p] |-> StatusOf(t, Maintained, rows, db.latest)]
<1> DEFINE rows == {db.incident[i] : i \in Rows(db.incident)}
           status == [t \in db.bound[p] |-> StatusOf(t, Maintained, rows, db.latest)]
           v == [Start(Nothing) EXCEPT
                   !.bound = db.bound[p], !.maintained = Maintained, !.incidents = db.incident,
                   !.status = status,
                   !.published = {i \in Incidents : db.postmortem[i] = "published"},
                   !.listed = Maintained, !.upcoming = Upcoming, !.logo = db.logo[p]]
<1>1. Undisturbed(p) = Snapshot(v)
  BY DEF Undisturbed
<1> HIDE DEF status
<1>2. v.bound = db.bound[p] /\ v.maintained = Maintained /\ v.incidents = db.incident /\ v.status = status
  BY DEF Start
<1> HIDE DEF v
<1> QED BY <1>1, <1>2 DEF status

(* The badge rates the components one by one as the page does; a component *)
(* that is operational adds nothing to either.                             *)
LEMMA BadgeRates ==
    ASSUME TableInv, NEW p \in Pages
    PROVE  LET rows == {db.incident[i] : i \in Rows(db.incident)}
           IN  render_badge_payload(p) =
                   OverallOf([t \in db.bound[p] |-> StatusOf(t, Maintained, rows, db.latest)])
<1> DEFINE rows == {db.incident[i] : i \in Rows(db.incident)}
           status == [t \in db.bound[p] |-> StatusOf(t, Maintained, rows, db.latest)]
           open(t) == {db.incident[i] : i \in {j \in Rows(db.incident) :
                           db.incident[j].target = t /\ db.incident[j].open}}
           Rated_(t) ==
               IF t \in Maintained THEN {"maintenance"}
               ELSE IF open(t) # {} THEN {overall_from_component(worst_incident_status(open(t)))}
               ELSE IF db.latest[t] # Nothing
                    THEN {overall_from_component(component_status_from_result(db.latest[t]))}
               ELSE {}
           S == {"operational"} \cup UNION {Rated_(t) : t \in db.bound[p]}
           R == {"operational"} \cup {overall_from_component(status[t]) : t \in DOMAIN status}
<1>1. render_badge_payload(p) = WorstBy(overall_severity_rank, S)
  BY DEF render_badge_payload
<1>2. OverallOf(status) = WorstBy(overall_severity_rank, R)
  BY DEF OverallOf
<1>3. ASSUME NEW t \in db.bound[p]
      PROVE  \/ Rated_(t) = {overall_from_component(status[t])}
             \/ Rated_(t) = {} /\ overall_from_component(status[t]) = "operational"
  <2>1. open(t) = {i \in rows : i.target = t /\ i.open}
    OBVIOUS
  <2>2. status[t] = StatusOf(t, Maintained, rows, db.latest)
    OBVIOUS
  <2>3. /\ open(t) = {} => worst_incident_status(open(t)) = Nothing
        /\ open(t) # {} => worst_incident_status(open(t)) \in Outages
    BY WorstIncident
  <2>4. Nothing \notin Outages
    BY PublicAssumption DEF Outages
  <2>5. status[t] = IF t \in Maintained THEN "maintenance"
                    ELSE IF worst_incident_status(open(t)) # Nothing THEN worst_incident_status(open(t))
                    ELSE IF db.latest[t] = Nothing THEN "operational"
                    ELSE component_status_from_result(db.latest[t])
    BY <2>1, <2>2 DEF StatusOf
  <2>6. overall_from_component("maintenance") = "maintenance" /\ overall_from_component("operational") = "operational"
    BY DEF overall_from_component
  <2> HIDE DEF open, status
  <2> QED BY <2>3, <2>4, <2>5, <2>6
<1>4. DOMAIN status = db.bound[p]
  OBVIOUS
<1>5. S = R
  <2> HIDE DEF status, Rated_
  <2>1. ASSUME NEW x \in S PROVE x \in R
    BY <1>3, <1>4
  <2>2. ASSUME NEW x \in R PROVE x \in S
    <3>1. CASE x = "operational"
      BY <3>1
    <3>2. ASSUME NEW t \in db.bound[p], x = overall_from_component(status[t]) PROVE x \in S
      BY <1>3, <3>2
    <3> QED BY <1>4, <3>1, <3>2
  <2> QED BY <2>1, <2>2
<1> HIDE DEF S, R, status
<1>6. render_badge_payload(p) = OverallOf(status)
  BY <1>1, <1>2, <1>5
<1> QED BY <1>6 DEF status

(* The page, the badge, the incident list and the feed agree on any tables *)
(* the console can bring about.                                            *)
THEOREM SurfacesAlwaysAgree == PublicSpec => []SurfacesAgree
<1>1. PublicIInv => SurfacesAgree
  <2> SUFFICES ASSUME TableInv, NEW p \in Pages
               PROVE  LET s == Undisturbed(p)
                          onPage == {a[1] : a \in s.active} \cup s.recent
                      IN  /\ render_badge_payload(p) = s.overall
                          /\ onPage \subseteq list_public_incidents
                          /\ \A i \in onPage \ get_incidents_rss :
                                  Cardinality({j \in list_public_incidents : j > i}) >= FeedCap
    BY DEF SurfacesAgree, PublicIInv
  <2> DEFINE s == Undisturbed(p)
             onPage == {a[1] : a \in s.active} \cup s.recent
             rows == {db.incident[i] : i \in Rows(db.incident)}
             status == [t \in db.bound[p] |-> StatusOf(t, Maintained, rows, db.latest)]
  <2>1. PICK c : /\ s = Snapshot(c)
                 /\ c.bound = db.bound[p] /\ c.maintained = Maintained
                 /\ c.incidents = db.incident /\ c.status = status
    BY UndisturbedView
  <2>2. /\ s.overall = OverallOf(c.status) /\ s.status = c.status
        /\ s.active = {<<i, c.incidents[i].target>> : i \in ActiveIncidents(c)}
        /\ s.recent = Newest(RecentIncidents(c), RecentCap)
    BY <2>1 DEF Snapshot
  <2> HIDE DEF s
  <2>3. render_badge_payload(p) = s.overall
    BY <2>1, <2>2, BadgeRates
  <2>4. onPage \subseteq list_public_incidents
    <3>1. {a[1] : a \in s.active} \subseteq ActiveIncidents(c)
      BY <2>2
    <3>2. s.recent \subseteq RecentIncidents(c)
      BY <2>2 DEF Newest
    <3>3. ActiveIncidents(c) \subseteq Public(db.incident) /\ RecentIncidents(c) \subseteq Public(db.incident)
      BY <2>1 DEF ActiveIncidents, RecentIncidents
    <3> QED BY <3>1, <3>2, <3>3 DEF list_public_incidents
  <2>5. ASSUME NEW i \in onPage \ get_incidents_rss
        PROVE  Cardinality({j \in list_public_incidents : j > i}) >= FeedCap
    <3>1. i \in list_public_incidents /\ ~(Cardinality({j \in list_public_incidents : j > i}) < FeedCap)
      BY <2>4 DEF get_incidents_rss, Newest
    <3>2. {j \in list_public_incidents : j > i} \in SUBSET Incidents
      BY DEF list_public_incidents, Public, Rows, TableInv, TablesOK, IncidentTable
    <3>3. Cardinality({j \in list_public_incidents : j > i}) \in Nat
      BY <3>2, PublicAssumption, FS_Subset, FS_CardinalityType
    <3>4. FeedCap \in Nat
      BY PublicAssumption
    <3> QED BY <3>1, <3>3, <3>4
  <2> QED BY <2>3, <2>4, <2>5 DEF s
<1> QED BY <1>1, PublicInductive, PTL
=============================================================================
