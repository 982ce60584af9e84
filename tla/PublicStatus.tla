---------------------------- MODULE PublicStatus ----------------------------
(***************************************************************************)
(* The public status page: the snapshot that is computed from several      *)
(* storage reads, the cache it is served through, and the console handlers *)
(* that write what it shows and then invalidate it (public_status_cache.rs,*)
(* api/public_api.rs and the handlers of api/ that hold public_cache).     *)
(*                                                                         *)
(* Every storage call whose result shows in the model is a step, so a      *)
(* handler may write between any two reads of a computation, and a         *)
(* computation may start before and end after an invalidation.  Two kinds  *)
(* of call are part of the step before them, because the model leaves out  *)
(* what they return: the day strip of a component, read right after its    *)
(* latest result, and the names of the targets of a listed window.  A call *)
(* of a console handler that fails changes nothing: the handler answers    *)
(* with the error before it invalidates anything, and is left out.         *)
(* Incident ids are in the order incidents start in.                       *)
(***************************************************************************)
EXTENDS Integers, FiniteSets

CONSTANTS
    Pages, Targets, Windows,   \* ids
    Incidents,                 \* ids, natural numbers
    Ancient,                   \* incidents older than the 90 days a page goes back
    RecentCap,                 \* recent incidents a page lists (25)
    FeedCap,                   \* items of the RSS feed (50)
    Statuses,                  \* check statuses that get recorded
    Severities,                \* severities incidents are given
    Readers,                   \* visitors, with one request at a time
    Operators,                 \* console requests, one after another
    MaxWrites,                 \* bound: writes to the tables
    MaxStorageFaults,          \* bound: storage reads that fail
    MaxLeavers,                \* bound: readers that disconnect
    MaxHour,                   \* bound: the clock stops here
    Nothing                    \* Option::None

ASSUME PublicAssumption ==
    /\ Incidents \subseteq Nat /\ IsFiniteSet(Incidents) /\ Ancient \subseteq Incidents
    /\ Statuses \subseteq {"up", "degraded", "down", "error"}
    /\ Severities \subseteq {"minor", "major", "critical"}
    /\ {RecentCap, FeedCap, MaxWrites, MaxStorageFaults, MaxLeavers, MaxHour} \subseteq Nat
    /\ Nothing \notin {"partial_outage", "major_outage"}

VARIABLES
    db,          \* the tables the public surface reads
    hour,        \* the wall clock, as maintenance windows see it
    hot,         \* hot[p]: the cached snapshot, or Nothing
    last_good,   \* last_good[p]: the stale fallback, or Nothing
    compute,     \* compute[p]: the computation all readers of p share, or NoComputation
    reader,      \* reader[r]: where a public request stands, and how it was answered
    operator,    \* operator[o]: what a console request has read or written
    writes,      \* history: the number of writes so far; the time of the model
    storageFaults, leavers,
    settled,     \* history: settled[p], the last write p's readers must see
    shown,       \* history: shown[p], the ages of the snapshots anyone was answered with
    moved    \* history: moved[t], when t last went into maintenance or out of it

tables == <<db, writes, moved>>
layers == <<hot, last_good>>
publicVars == <<tables, hour, layers, compute, reader, operator, storageFaults, leavers, settled, shown>>

----------------------------------------------------------------------------
(* The tables.                                                             *)
IncidentRows == [target : Targets, severity : Severities, open : BOOLEAN, titled : BOOLEAN]
WindowRows == [starts : 0 .. MaxHour + 1, ends : 0 .. MaxHour + 1, covers : SUBSET Targets]

Rows(table) == {i \in DOMAIN table : table[i] # Nothing}
Active == {w \in Rows(db.window) : db.window[w].starts <= hour /\ hour < db.window[w].ends}
Upcoming == {w \in Rows(db.window) : db.window[w].starts > hour}
Covered(ws) == UNION {db.window[w].covers : w \in ws}
Maintained == Covered(Active)

\* The model's time: it moves with every write and with the wall clock.
Now == writes + hour
\* What a write or the clock has done to maintenance.
NoteMoves ==
    moved' = [t \in Targets |-> IF (t \in Maintained) = (t \in Maintained)' THEN moved[t] ELSE Now']

----------------------------------------------------------------------------
(* How a component and a page are rated.                                   *)
component_status_from_result(s) ==
    CASE s = "up" -> "operational"
      [] s = "degraded" -> "degraded"
      [] s = "down" -> "major_outage"
      [] s = "error" -> "partial_outage"

component_severity_rank(s) ==
    CASE s = "operational" -> 0
      [] s = "maintenance" -> 1
      [] s = "degraded" -> 2
      [] s = "partial_outage" -> 3
      [] s = "major_outage" -> 4

overall_from_component(s) == IF s = "degraded" THEN "partial_outage" ELSE s

\* The same order for pages; a page is never "degraded".
overall_severity_rank(s) == component_severity_rank(s)

incident_status(severity) ==
    IF severity \in {"critical", "major"} THEN "major_outage" ELSE "partial_outage"

WorstBy(Rank(_), statuses) == CHOOSE s \in statuses : \A o \in statuses : Rank(o) <= Rank(s)

worst_incident_status(open) ==
    IF open = {} THEN Nothing
    ELSE WorstBy(component_severity_rank, {incident_status(i.severity) : i \in open})

\* mutant: incidents first
StatusOfIncidentFirst(t, inMaintenance, rows, latest) ==
    LET worst == worst_incident_status({i \in rows : i.target = t /\ i.open})
    IN  IF worst # Nothing THEN worst
        ELSE IF t \in inMaintenance THEN "maintenance"
        ELSE IF latest[t] = Nothing THEN "operational"
        ELSE component_status_from_result(latest[t])
\* The status of a component: maintenance, else open incidents, else the
\* latest result, and a component that was never checked is operational.
StatusOf(t, inMaintenance, rows, latest) ==
    LET worst == worst_incident_status({i \in rows : i.target = t /\ i.open})
    IN  IF t \in inMaintenance THEN "maintenance"
        ELSE IF worst # Nothing THEN worst
        ELSE IF latest[t] = Nothing THEN "operational"
        ELSE component_status_from_result(latest[t])

OverallOf(status) ==
    WorstBy(overall_severity_rank,
            {"operational"} \cup {overall_from_component(status[t]) : t \in DOMAIN status})

\* to_public_incident: an incident without a public title is internal, and a
\* postmortem shows once it is published.
Public(table) == {i \in Rows(table) : table[i].titled}
Newest(ids, n) == {i \in ids : Cardinality({j \in ids : j > i}) < n}

----------------------------------------------------------------------------
(* The computation of a snapshot: where it is and what it has read so far. *)
NoComputation == [pc |-> "none"]
Start(r) ==
    [pc |-> "page", leader |-> r, began |-> writes,
     bound |-> {},                                   \* the components of the page
     maintained |-> {}, looked |-> 0,                \* those in maintenance, and as of when
     incidents |-> [i \in Incidents |-> Nothing],
     status |-> [t \in {} |-> Nothing],              \* the components rated so far
     asked |-> {}, published |-> {},                 \* incidents asked about a postmortem
     listed |-> {}, stirred |-> {},                  \* in maintenance by the list; what moved since `looked`
     upcoming |-> {}, logo |-> 0]

OnPage(c, i) == c.incidents[i].target \in c.bound
\* The incidents the page would show, the internal ones with them.
OpenRows(c) ==
    {i \in Rows(c.incidents) : /\ c.incidents[i].open
                               /\ c.incidents[i].target \notin c.maintained
                               /\ OnPage(c, i)}
ClosedRows(c) == {i \in Rows(c.incidents) \ Ancient : ~c.incidents[i].open /\ OnPage(c, i)}
Unrated(c) == c.bound \ DOMAIN c.status
Unasked(c) == (OpenRows(c) \cup ClosedRows(c)) \ c.asked

ReadPage(c) == [c EXCEPT !.pc = "components"]
ReadComponents(c, p) == [c EXCEPT !.pc = "windows", !.bound = db.bound[p]]
ReadWindows(c) == [c EXCEPT !.pc = "incidents", !.maintained = Maintained, !.looked = Now]
ReadIncidents(c) == [c EXCEPT !.pc = "details", !.incidents = db.incident]
\* One component: list_results when nothing else decides, and its day strip.
RateComponent(c, t) ==
    [c EXCEPT !.status = [u \in DOMAIN c.status \cup {t} |->
        IF u = t THEN StatusOf(t, c.maintained, {c.incidents[i] : i \in Rows(c.incidents)}, db.latest)
        ELSE c.status[u]]]
\* Best effort: a postmortem that cannot be loaded is left out.
AskPostmortem(c, i, loaded) ==
    [c EXCEPT !.asked = @ \cup {i},
              !.published = IF loaded /\ db.postmortem[i] = "published" THEN @ \cup {i} ELSE @]
\* The windows once more, now for the list the page shows.
ReadActive(c) ==
    [c EXCEPT !.pc = "upcoming", !.listed = Maintained, !.stirred = {t \in Targets : moved[t] > c.looked}]
ReadUpcoming(c) == [c EXCEPT !.pc = "logo", !.upcoming = Upcoming]
ReadLogo(c, p) == [c EXCEPT !.pc = "keep", !.logo = db.logo[p]]

\* to_public_incident drops the internal incidents.
ActiveIncidents(c) == OpenRows(c) \cap Public(c.incidents)
RecentIncidents(c) == ClosedRows(c) \cap Public(c.incidents)

Snapshot(c) ==
    LET recent == Newest(RecentIncidents(c), RecentCap)
    IN  [began |-> c.began,
         status |-> c.status,
         overall |-> OverallOf(c.status),
         active |-> {<<i, c.incidents[i].target>> : i \in ActiveIncidents(c)},
         recent |-> recent,
         has_more |-> Cardinality(RecentIncidents(c)) > RecentCap,
         postmortems |-> c.published \cap (ActiveIncidents(c) \cup recent),
         listed |-> c.listed,
         stirred |-> c.stirred,
         upcoming |-> c.upcoming,
         logo |-> c.logo]

\* What one computation without interference would make of the tables now.
Undisturbed(p) ==
    LET rows == {db.incident[i] : i \in Rows(db.incident)}
    IN  Snapshot([Start(Nothing) EXCEPT
            !.bound = db.bound[p], !.maintained = Maintained, !.incidents = db.incident,
            !.status = [t \in db.bound[p] |-> StatusOf(t, Maintained, rows, db.latest)],
            !.published = {i \in Incidents : db.postmortem[i] = "published"},
            !.listed = Maintained, !.upcoming = Upcoming, !.logo = db.logo[p]])

----------------------------------------------------------------------------
(* Readers.                                                                *)
NewReader == [pc |-> "new", page |-> Nothing, stale |-> Nothing, began |-> 0, must |-> 0,
              known |-> {}, answer |-> "none", seen |-> 0]
Waiting(p) == {r \in Readers : reader[r].pc = "waiting" /\ reader[r].page = p}
\* A request is over; of the snapshot it got the model keeps the age.
Over(r, answer, age) == [r EXCEPT !.pc = "done", !.stale = Nothing, !.answer = answer, !.seen = age]

\* resolve_page_id without ?page=: an enabled page, or 404.
resolve_page_id(r) ==
    /\ reader[r].pc = "new"
    /\ \/ \E p \in Pages :
             /\ db.page[p] = "enabled"
             /\ reader' = [reader EXCEPT ![r] = [reader[r] EXCEPT !.pc = "resolved", !.page = p, !.began = writes]]
       \/ /\ \A p \in Pages : db.page[p] # "enabled"
          /\ reader' = [reader EXCEPT ![r] = Over(reader[r], "not_found", 0)]
    /\ UNCHANGED <<tables, hour, layers, compute, operator, storageFaults, leavers, settled, shown>>

\* get_or_compute: note the stale snapshot, then hit the hot layer, join the
\* computation in flight, or start one.
get_or_compute(r, p) ==
    /\ \/ reader[r].pc = "new"
       \/ reader[r].pc = "resolved" /\ reader[r].page = p
    /\ LET asked == [reader[r] EXCEPT !.pc = "waiting", !.page = p, !.stale = last_good[p],
                                      !.must = settled[p], !.known = shown[p], !.began = IF reader[r].pc = "new" THEN writes ELSE reader[r].began]
       IN  IF hot[p] # Nothing
           THEN /\ reader' = [reader EXCEPT ![r] = Over(asked, "fresh", hot[p].began)]
                /\ shown' = [shown EXCEPT ![p] = @ \cup {hot[p].began}]
                /\ UNCHANGED compute
           ELSE /\ reader' = [reader EXCEPT ![r] = asked]
                /\ UNCHANGED shown
                /\ compute' = [compute EXCEPT ![p] = IF compute[p] = NoComputation THEN Start(r) ELSE compute[p]]
    /\ UNCHANGED <<tables, hour, layers, operator, storageFaults, leavers, settled>>

\* A visitor who was answered asks again.
Return(r) ==
    /\ reader[r].pc = "done"
    /\ reader' = [reader EXCEPT ![r] = NewReader]
    /\ UNCHANGED <<tables, hour, layers, compute, operator, storageFaults, leavers, settled, shown>>

\* The computation gives up: everyone who waited falls back on the snapshot
\* noted on the way in.
Failed(p) ==
    /\ compute' = [compute EXCEPT ![p] = NoComputation]
    /\ reader' = [r \in Readers |->
            IF r \notin Waiting(p) THEN reader[r]
            ELSE IF reader[r].stale # Nothing THEN Over(reader[r], "stale", reader[r].stale.began)
            ELSE Over(reader[r], "internal_error", 0)]
    /\ shown' = [shown EXCEPT ![p] =
            @ \cup {reader[r].stale.began : r \in {w \in Waiting(p) : reader[w].stale # Nothing}}]

compute_status_snapshot(p) ==
    /\ compute[p] # NoComputation
    /\ LET c == compute[p]
           Go(knows) == compute' = [compute EXCEPT ![p] = knows] /\ UNCHANGED <<reader, shown>>
       IN  \/ c.pc = "page" /\ db.page[p] # "absent" /\ Go(ReadPage(c))
           \/ c.pc = "page" /\ db.page[p] = "absent" /\ Failed(p)
           \/ c.pc = "components" /\ Go(ReadComponents(c, p))
           \/ c.pc = "windows" /\ Go(ReadWindows(c))
           \/ c.pc = "incidents" /\ Go(ReadIncidents(c))
           \/ c.pc = "details" /\ \E t \in Unrated(c) : Go(RateComponent(c, t))
           \/ c.pc = "details" /\ Unrated(c) = {} /\ \E i \in Unasked(c) : Go(AskPostmortem(c, i, TRUE))
           \/ c.pc = "details" /\ Unrated(c) = {} /\ Unasked(c) = {} /\ Go(ReadActive(c))
           \/ c.pc = "upcoming" /\ Go(ReadUpcoming(c))
           \/ c.pc = "logo" /\ Go(ReadLogo(c, p))
    /\ UNCHANGED <<tables, hour, layers, operator, storageFaults, leavers, settled>>

\* A read fails: `?` gives the snapshot up, but a postmortem is only missing.
ComputeFails(p) ==
    /\ compute[p] # NoComputation
    /\ compute[p].pc \notin {"keep", "insert"}
    /\ storageFaults < MaxStorageFaults
    /\ storageFaults' = storageFaults + 1
    /\ LET c == compute[p]
           AtPostmortem == c.pc = "details" /\ Unrated(c) = {} /\ Unasked(c) # {}
       IN  \/ ~AtPostmortem /\ Failed(p)
           \/ /\ AtPostmortem
              /\ \E i \in Unasked(c) : compute' = [compute EXCEPT ![p] = AskPostmortem(c, i, FALSE)]
              /\ UNCHANGED <<reader, shown>>
    /\ UNCHANGED <<tables, hour, layers, operator, leavers, settled>>

\* mutant: entry(page_id).or_insert
StoreIfNone(p) == [last_good EXCEPT ![p] = IF @ = Nothing THEN Snapshot(compute[p]) ELSE @]
StoreAsLastGood(p) == [last_good EXCEPT ![p] = Snapshot(compute[p])]

\* Done: the snapshot becomes the fallback,
KeepLastGood(p) ==
    /\ compute[p] # NoComputation
    /\ compute[p].pc = "keep"
    /\ last_good' = StoreAsLastGood(p)
    /\ compute' = [compute EXCEPT ![p].pc = "insert"]
    /\ UNCHANGED <<tables, hour, hot, reader, operator, storageFaults, leavers, settled, shown>>

\* and moka inserts it and hands it to everyone who waited.
Insert(p) ==
    /\ compute[p] # NoComputation
    /\ compute[p].pc = "insert"
    /\ hot' = [hot EXCEPT ![p] = Snapshot(compute[p])]
    /\ compute' = [compute EXCEPT ![p] = NoComputation]
    /\ reader' = [r \in Readers |->
            IF r \notin Waiting(p) THEN reader[r]
            ELSE Over(reader[r], "fresh", compute[p].began)]
    /\ shown' = [shown EXCEPT ![p] = IF Waiting(p) = {} THEN @ ELSE @ \cup {compute[p].began}]
    /\ UNCHANGED <<tables, hour, last_good, operator, storageFaults, leavers, settled>>

\* mutant: those who waited for the one that left wait for nobody
LeaveAlone(r) ==
    /\ leavers < MaxLeavers
    /\ reader[r].pc = "waiting"
    /\ leavers' = leavers + 1
    /\ reader' = [reader EXCEPT ![r] = Over(reader[r], "none", 0)]
    /\ compute' = [compute EXCEPT ![reader[r].page] = IF @.leader = r THEN NoComputation ELSE @]
    /\ UNCHANGED <<tables, hour, layers, operator, storageFaults, settled, shown>>
\* A reader goes away.  The computation runs inside its leader: one of the
\* others starts it again from the beginning.
Leave(r) ==
    /\ leavers < MaxLeavers
    /\ reader[r].pc = "waiting"
    /\ leavers' = leavers + 1
    /\ reader' = [reader EXCEPT ![r] = Over(reader[r], "none", 0)]
    /\ LET p == reader[r].page
           others == Waiting(p) \ {r}
       IN  IF compute[p].leader # r THEN UNCHANGED compute
           ELSE IF others = {} THEN compute' = [compute EXCEPT ![p] = NoComputation]
           ELSE \E n \in others : compute' = [compute EXCEPT ![p] = Start(n)]
    /\ UNCHANGED <<tables, hour, layers, operator, storageFaults, settled, shown>>

\* time_to_live, or the capacity of the hot layer.
HotExpires(p) ==
    /\ hot[p] # Nothing
    /\ hot' = [hot EXCEPT ![p] = Nothing]
    /\ UNCHANGED <<tables, hour, last_good, compute, reader, operator, storageFaults, leavers, settled, shown>>

HourPasses ==
    /\ hour < MaxHour
    /\ hour' = hour + 1
    /\ UNCHANGED <<db, writes, layers, compute, reader, operator, storageFaults, leavers, settled, shown>>
    /\ NoteMoves

----------------------------------------------------------------------------
(* Console handlers.  Each is idle, holds a row it has read, or has        *)
(* written and not yet invalidated.                                        *)
IdleOperator == [pc |-> "idle"]
Holds(o, kind) == operator[o].pc = "read" /\ operator[o].kind = kind
console == <<hour, layers, compute, reader, storageFaults, leavers, settled, shown>>

Read(o, kind, key, row) ==
    /\ operator[o] = IdleOperator
    /\ writes < MaxWrites
    /\ operator' = [operator EXCEPT ![o] = [pc |-> "read", kind |-> kind, key |-> key, row |-> row]]
    /\ UNCHANGED <<tables, console>>

\* What a handler will invalidate: one page, or everything.
AllPages == <<>>
InScope(p, scope) == scope = AllPages \/ scope = <<p>>

\* The storage call has gone through.
Write(o, new, scope) ==
    /\ writes < MaxWrites
    /\ writes' = writes + 1
    /\ db' = new
    /\ operator' = [operator EXCEPT ![o] = [pc |-> "wrote", scope |-> scope, at |-> writes + 1]]
    /\ UNCHANGED console
    /\ NoteMoves

WriteRow(o, table, key, row, scope) ==
    Write(o, [db EXCEPT ![table] = [db[table] EXCEPT ![key] = row]], scope)

\* The row is gone: NotFound, and nothing to invalidate.
GiveUp(o) ==
    /\ operator' = [operator EXCEPT ![o] = IdleOperator]
    /\ UNCHANGED <<tables, console>>

Begins(o) == operator[o] = IdleOperator

create_status_page(o, p, enabled) ==
    Begins(o) /\ db.page[p] = "absent" /\ WriteRow(o, "page", p, enabled, <<p>>)
update_status_page(o, p, enabled) ==
    \/ db.page[p] # "absent" /\ Read(o, "page", p, enabled)
    \/ /\ Holds(o, "page") /\ operator[o].key = p /\ operator[o].row = enabled
       /\ IF db.page[p] = "absent" THEN GiveUp(o) ELSE WriteRow(o, "page", p, enabled, <<p>>)
delete_status_page(o, p) ==
    Begins(o) /\ db.page[p] # "absent" /\ WriteRow(o, "page", p, "absent", <<p>>)

\* add_component checks the page, update_component the binding; both set the
\* binding, whatever has become of either.
add_component(o, p, t) ==
    \/ db.page[p] # "absent" /\ Read(o, "bind", p, t)
    \/ Holds(o, "bind") /\ operator[o].key = p /\ operator[o].row = t
       /\ WriteRow(o, "bound", p, db.bound[p] \cup {t}, AllPages)
update_component(o, p, t) ==
    \/ t \in db.bound[p] /\ Read(o, "rebind", p, t)
    \/ Holds(o, "rebind") /\ operator[o].key = p /\ operator[o].row = t
       /\ WriteRow(o, "bound", p, db.bound[p] \cup {t}, AllPages)
remove_component(o, p, t) ==
    Begins(o) /\ t \in db.bound[p] /\ WriteRow(o, "bound", p, db.bound[p] \ {t}, AllPages)
\* The order of components does not show in the model.
reorder_components(o, p) ==
    Begins(o) /\ db.page[p] # "absent" /\ Write(o, db, AllPages)

create_maintenance_window(o, w, row) ==
    /\ Begins(o)
    /\ row.ends > row.starts
    /\ db.window[w] = Nothing
    /\ WriteRow(o, "window", w, row, AllPages)
\* A partial update of the row read before; the result is validated whole.
PatchedWindow(row, starts, ends, covers) ==
    [row EXCEPT !.starts = IF starts = Nothing THEN @ ELSE starts,
                !.ends = IF ends = Nothing THEN @ ELSE ends,
                !.covers = IF covers = Nothing THEN @ ELSE covers]
update_maintenance_window(o, w, starts, ends, covers) ==
    \/ db.window[w] # Nothing /\ Read(o, "window", w, db.window[w])
    \/ /\ Holds(o, "window") /\ operator[o].key = w
       /\ LET new == PatchedWindow(operator[o].row, starts, ends, covers)
          IN  IF new.ends <= new.starts \/ db.window[w] = Nothing THEN GiveUp(o)
              ELSE WriteRow(o, "window", w, new, AllPages)
delete_maintenance_window(o, w) ==
    Begins(o) /\ db.window[w] # Nothing /\ WriteRow(o, "window", w, Nothing, AllPages)

create_incident(o, i, row) ==
    Begins(o) /\ db.incident[i] = Nothing /\ row.open /\ WriteRow(o, "incident", i, row, AllPages)
\* PATCH /incidents/{id}, and the update list of POST /incidents/{id}/updates:
\* the whole row read before is written back.
PatchedIncident(row, severity, ended, titled) ==
    [row EXCEPT !.severity = IF severity = Nothing THEN @ ELSE severity,
                !.open = @ /\ ~ended,
                !.titled = @ \/ titled]
update_incident(o, i, severity, ended, titled) ==
    \/ db.incident[i] # Nothing /\ Read(o, "incident", i, db.incident[i])
    \/ Holds(o, "incident") /\ operator[o].key = i
       /\ WriteRow(o, "incident", i, PatchedIncident(operator[o].row, severity, ended, titled), AllPages)
\* Resolve or reopen; acknowledging shows nowhere.
apply_incident_ops(o, i) ==
    /\ Begins(o)
    /\ db.incident[i] # Nothing
    /\ WriteRow(o, "incident", i, [db.incident[i] EXCEPT !.open = ~@], AllPages)

\* Upsert (a published one stays published), publish, unpublish, delete.
write_postmortem(o, i, to) ==
    /\ Begins(o)
    /\ to = "published" => db.postmortem[i] # "none"
    /\ WriteRow(o, "postmortem", i, to, AllPages)

\* Upload or delete the logo.
write_asset(o, p, hash) ==
    /\ Begins(o)
    /\ db.page[p] # "absent"
    /\ WriteRow(o, "logo", p, hash, <<p>>)

\* check-now records a result; target and bulk handlers show nothing else.
check_target_now(o, t, s) ==
    Begins(o) /\ WriteRow(o, "latest", t, s, AllPages)

\* mutant: invalidate_all forgets the hot layer
DroppedPage(layer, scope) == [p \in Pages |-> IF scope = <<p>> THEN Nothing ELSE layer[p]]
Dropped(layer, scope) == [p \in Pages |-> IF InScope(p, scope) THEN Nothing ELSE layer[p]]

\* The handler's last step before it answers: invalidate_page keeps the stale
\* fallback, invalidate_all drops it.
Invalidate(o) ==
    /\ operator[o].pc = "wrote"
    /\ LET scope == operator[o].scope
           Raced(p) == compute[p] # NoComputation /\ compute[p].began < operator[o].at
       IN  /\ hot' = Dropped(hot, scope)
           /\ last_good' = IF scope = AllPages THEN Dropped(last_good, scope) ELSE last_good
           /\ settled' = [p \in Pages |->
                  IF InScope(p, scope) /\ ~Raced(p) /\ settled[p] < operator[o].at
                  THEN operator[o].at ELSE settled[p]]
    /\ operator' = [operator EXCEPT ![o] = IdleOperator]
    /\ UNCHANGED <<tables, hour, compute, reader, storageFaults, leavers, shown>>

\* Its client disconnects between the write and the invalidation.
Abandon(o) ==
    /\ leavers < MaxLeavers
    /\ operator[o].pc = "wrote"
    /\ leavers' = leavers + 1
    /\ operator' = [operator EXCEPT ![o] = IdleOperator]
    /\ UNCHANGED <<tables, hour, layers, compute, reader, storageFaults, settled, shown>>

\* The scheduler's results and the incident writer's incidents, which it gives
\* a public title, are not announced to the cache at all.
BackgroundWrite ==
    /\ writes < MaxWrites
    /\ writes' = writes + 1
    /\ \/ \E t \in Targets, s \in Statuses : db' = [db EXCEPT !.latest[t] = s]
       \/ \E i \in Rows(db.incident) :
              db.incident[i].open /\ db' = [db EXCEPT !.incident[i] = [db.incident[i] EXCEPT !.open = FALSE]]
       \/ \E i \in Incidents, row \in IncidentRows :
              /\ db.incident[i] = Nothing /\ row.open /\ row.titled
              /\ db' = [db EXCEPT !.incident[i] = row]
    /\ UNCHANGED <<console, operator>>
    /\ NoteMoves

----------------------------------------------------------------------------
(* The other public surfaces.                                              *)

\* The status badge goes through the components on its own.
render_badge_payload(p) ==
    LET open(t) == {db.incident[i] : i \in {j \in Rows(db.incident) :
                        db.incident[j].target = t /\ db.incident[j].open}}
        Rated(t) ==
            IF t \in Maintained THEN {"maintenance"}
            ELSE IF open(t) # {} THEN {overall_from_component(worst_incident_status(open(t)))}
            ELSE IF db.latest[t] # Nothing
                 THEN {overall_from_component(component_status_from_result(db.latest[t]))}
            ELSE {}
    IN  WorstBy(overall_severity_rank, {"operational"} \cup UNION {Rated(t) : t \in db.bound[p]})

list_public_incidents == Public(db.incident)
get_incidents_rssOldest == {i \in list_public_incidents : Cardinality({j \in list_public_incidents : j < i}) < FeedCap}   \* mutant
get_incidents_rss == Newest(list_public_incidents, FeedCap)
get_public_asset(p) == IF db.page[p] = "enabled" THEN db.logo[p] ELSE 0

----------------------------------------------------------------------------
\* Nothing is cached and nobody has asked yet.
PublicFrom(start) ==
    /\ db \in start
    /\ hour = 0
    /\ hot = [p \in Pages |-> Nothing]
    /\ last_good = [p \in Pages |-> Nothing]
    /\ compute = [p \in Pages |-> NoComputation]
    /\ reader = [r \in Readers |-> NewReader]
    /\ operator = [o \in Operators |-> IdleOperator]
    /\ writes = 0
    /\ storageFaults = 0
    /\ leavers = 0
    /\ settled = [p \in Pages |-> 0]
    /\ shown = [p \in Pages |-> {}]
    /\ moved = [t \in Targets |-> 0]

\* Published pages with every target on them, nothing checked yet, and at
\* most one incident.
PublicInit ==
    PublicFrom({[page |-> [p \in Pages |-> "enabled"],
                 bound |-> [p \in Pages |-> Targets],
                 incident |-> [i \in Incidents |-> IF \A j \in Incidents : i <= j THEN row ELSE Nothing],
                 postmortem |-> [i \in Incidents |-> "none"],
                 window |-> [w \in Windows |-> Nothing],
                 latest |-> [t \in Targets |-> Nothing],
                 logo |-> [p \in Pages |-> 0]] :
                row \in {Nothing} \cup {r \in IncidentRows : r.open /\ r.titled}})

PageHandlers(o) ==
    \E p \in Pages :
        \/ \E e \in {"enabled", "disabled"} : create_status_page(o, p, e) \/ update_status_page(o, p, e)
        \/ delete_status_page(o, p)
        \/ \E t \in Targets : add_component(o, p, t) \/ update_component(o, p, t) \/ remove_component(o, p, t)
        \/ reorder_components(o, p)
        \/ \E hash \in 0 .. 1 : write_asset(o, p, hash)
WindowHandlers(o) ==
    \E w \in Windows :
        \/ \E row \in WindowRows : create_maintenance_window(o, w, row)
        \/ \E starts, ends \in 0 .. MaxHour + 1 \cup {Nothing}, covers \in SUBSET Targets \cup {Nothing} :
              update_maintenance_window(o, w, starts, ends, covers)
        \/ delete_maintenance_window(o, w)
IncidentHandlers(o) ==
    \E i \in Incidents :
        \/ \E row \in IncidentRows : create_incident(o, i, row)
        \/ \E severity \in Severities \cup {Nothing}, ended, titled \in BOOLEAN :
              update_incident(o, i, severity, ended, titled)
        \/ apply_incident_ops(o, i)
        \/ \E to \in {"none", "draft", "published"} : write_postmortem(o, i, to)
Console(o) ==
    \/ PageHandlers(o) \/ WindowHandlers(o) \/ IncidentHandlers(o)
    \/ \E t \in Targets, s \in Statuses : check_target_now(o, t, s)
    \/ Invalidate(o) \/ Abandon(o)

Serve(p) == compute_status_snapshot(p) \/ KeepLastGood(p) \/ Insert(p)

PublicRequests ==
    \/ \E r \in Readers : resolve_page_id(r) \/ Return(r) \/ Leave(r) \/ \E p \in Pages : get_or_compute(r, p)
    \/ \E p \in Pages : Serve(p) \/ ComputeFails(p) \/ HotExpires(p)

PublicNext ==
    \/ PublicRequests
    \/ \E o \in Operators : Console(o)
    \/ BackgroundWrite
    \/ HourPasses

PublicSpec == PublicInit /\ [][PublicNext]_publicVars

\* A request that is being served is polled; nobody has to ask, write or leave.
PublicFairness ==
    /\ \A p \in Pages : WF_publicVars(Serve(p))
    /\ \A r \in Readers, p \in Pages : WF_publicVars(reader[r].pc = "resolved" /\ get_or_compute(r, p))

----------------------------------------------------------------------------
(* The shape of the tables, the cache and the requests.                    *)
PublicTypeOK ==
    /\ db.page \in [Pages -> {"absent", "enabled", "disabled"}]
    /\ db.bound \in [Pages -> SUBSET Targets]
    /\ db.incident \in [Incidents -> IncidentRows \cup {Nothing}]
    /\ db.latest \in [Targets -> Statuses \cup {Nothing}]
    /\ \A p \in Pages : compute[p] # NoComputation => reader[compute[p].leader].pc = "waiting"
    /\ \A r \in Readers : reader[r].pc = "waiting" => compute[reader[r].page] # NoComputation
    /\ writes \in 0 .. MaxWrites /\ leavers \in 0 .. MaxLeavers

Served == {r \in Readers : reader[r].pc = "done" /\ reader[r].answer \in {"fresh", "stale"}}
Snapshots == {hot[p] : p \in {q \in Pages : hot[q] # Nothing}}

(* A console handler that has answered is visible: a request that comes    *)
(* after it is not served, as fresh, a snapshot from before its write.     *)
(* The exception is a computation that was already running when the write  *)
(* was made: it outlives the invalidation (public_status_cache.rs,         *)
(* invalidate_page and invalidate_all against try_get_with).               *)
SettledWritesShow ==
    \A r \in Served :
        reader[r].answer = "fresh" => reader[r].seen >= reader[r].must

(* A snapshot reads the maintenance windows twice, to rate the components  *)
(* and to list the windows, and incidents once, to rate components and to  *)
(* list them; console, incident writer and clock go on in between.  It     *)
(* contradicts itself about a component only when that component went into *)
(* maintenance or out of it between the two reads: otherwise it is shown   *)
(* as in maintenance exactly if a listed window covers it, and an incident *)
(* shown as active is on a component that is shown as out and that no      *)
(* listed window covers (compute_status_snapshot).                         *)
SnapshotCoherent ==
    \A s \in Snapshots :
        /\ \A t \in DOMAIN s.status \ s.stirred : s.status[t] = "maintenance" <=> t \in s.listed
        /\ \A a \in s.active : /\ s.status[a[2]] \in {"partial_outage", "major_outage"}
                               /\ a[2] \in s.stirred \/ a[2] \notin s.listed

(* What the public has seen is not taken back: a request that comes after  *)
(* others were answered is not shown an older snapshot than they were,     *)
(* whether it is served from the hot layer, from a computation or, when    *)
(* that fails, from the stale fallback (get_or_compute, invalidate_all).   *)
AnswersNeverGoBack ==
    \A r \in Served : \A age \in reader[r].known : reader[r].seen >= age

(* The page, the badge, the incident list and the feed are four programs   *)
(* over the same tables: the badge shows the page's overall state, and     *)
(* what the page shows of incidents is in the list, what is newest of it   *)
(* in the feed.                                                            *)
SurfacesAgree ==
    \A p \in Pages :
        LET s == Undisturbed(p)
            onPage == {a[1] : a \in s.active} \cup s.recent
        IN  /\ render_badge_payload(p) = s.overall
            /\ onPage \subseteq list_public_incidents
            /\ \A i \in onPage \ get_incidents_rss :
                    Cardinality({j \in list_public_incidents : j > i}) >= FeedCap

Asking(r) == reader[r].pc \in {"resolved", "waiting"}

(* Every request is answered, also when the computation it shares fails or *)
(* the client whose request runs it disconnects (get_or_compute).          *)
EveryReadAnswered == \A r \in Readers : Asking(r) ~> ~Asking(r)
=============================================================================
