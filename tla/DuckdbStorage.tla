---------------------------- MODULE DuckdbStorage ----------------------------
(***************************************************************************)
(* src/crates/storage/src/duckdb.rs: the storage trait over SQL tables.    *)
(* A table maps a primary key to a row.  Where the code stores a JSON      *)
(* payload next to columns projected out of it, the row has both: queries  *)
(* filter and sort on the columns and answer with payloads.                *)
(*                                                                         *)
(* A method holds the connection lock from its first statement to its      *)
(* last, so it is one action.  Seven methods take the lock twice, once to    *)
(* read and once to write: they are a Begin and a Finish, and anything     *)
(* may run in between.  `inflight' holds what each such call has read.     *)
(***************************************************************************)
EXTENDS StorageRows

CONSTANTS Clients,      \* callers that may be between the two halves of a method
          MaxResults    \* bound: check results kept

VARIABLES duck, call, reply, clock, inflight

duckVars == <<duck, call, reply, clock, inflight>>

Tables == {"targets", "results", "incidents", "pages", "components", "assets",
           "pings", "expiry", "windows", "silences", "subscribers",
           "deliveries", "variables", "channels", "tokens", "bindings",
           "users", "sessions", "api_tokens", "links", "policies",
           "schedules", "overrides", "states", "postmortems", "shares"}

Empty == [x \in {} |-> None]
DuckInit == /\ duck = [t \in Tables |-> Empty]
            /\ call = <<"ping">> /\ reply = Ok(None) /\ clock = 0
            /\ inflight = [c \in Clients |-> None]

\* SQL statements, each the whole of a method, and what their results map to.
Answer(answers) == reply' \in answers /\ UNCHANGED <<duck, clock, inflight>>
Read(answer) == Answer({answer})
Put(table, rows, answer) ==
    /\ duck' = [duck EXCEPT ![table] = rows]
    /\ reply' = answer
    /\ UNCHANGED clock
Write(table, rows, answer) == Put(table, rows, answer) /\ UNCHANGED inflight
Has(table, k) == k \in DOMAIN duck[table]
SELECT_ORDERED(orders) == Answer({Ok(s) : s \in orders})
SELECT_OPTION(table, k) == Read(Ok(IF Has(table, k) THEN duck[table][k] ELSE None))
SELECT_ONE(table, k) == Read(IF Has(table, k) THEN Ok(duck[table][k]) ELSE NotFound)
\* map_err turns a violated key or UNIQUE constraint into Conflict.
INSERT(table, k, row, answer) ==
    IF Has(table, k) THEN Read(Conflict)
    ELSE Write(table, With(duck[table], k, row), answer)
REPLACE_INTO(table, k, row, answer) == Write(table, With(duck[table], k, row), answer)
UPDATE(table, k, row, answer) ==
    IF ~Has(table, k) THEN Read(NotFound)
    ELSE Write(table, With(duck[table], k, row), answer)
DELETE_KEY(table, k) == Write(table, Restrict(duck[table], DOMAIN duck[table] \ {k}), Ok(None))
DELETE_ONE(table, k) == IF ~Has(table, k) THEN Read(NotFound) ELSE DELETE_KEY(table, k)
DELETE_COUNT(table, Test(_)) ==
    Write(table, Without(duck[table], Test), Ok(Cardinality(Where(duck[table], Test))))
\* SELECT payload ... ORDER BY a column.
Payloads(orders) == {[i \in DOMAIN s |-> s[i].payload] : s \in orders}
SELECT_PAYLOAD(table, k) ==
    Read(IF Has(table, k) THEN Ok(duck[table][k].payload) ELSE NotFound)
created_at(r) == r.created_at

----------------------------------------------------------------------------
(* Targets, check results, heartbeats and domain expiry.                   *)

target_row(t) == [payload |-> t, enabled |-> t.enabled, created_at |-> t.created_at]
list_targets ==
    /\ call' = <<"list_targets">>
    /\ SELECT_ORDERED(Payloads(Ascending(Range(duck.targets), created_at)))
get_target(i) == call' = <<"get_target", i>> /\ SELECT_PAYLOAD("targets", i)
create_target(i, on) ==
    LET t == [id |-> i, enabled |-> on, created_at |-> clock]
    IN  call' = <<"create_target", i, on>> /\ INSERT("targets", i, target_row(t), Ok(t))
\* UPDATE leaves the created_at column alone.
update_target(i, on) ==
    /\ call' = <<"update_target", i, on>>
    /\ IF ~Has("targets", i) THEN Read(NotFound)
       ELSE LET old == duck.targets[i]
                t == [old.payload EXCEPT !.enabled = on]
            IN  UPDATE("targets", i, [old EXCEPT !.enabled = on, !.payload = t], Ok(t))
delete_target(i) == call' = <<"delete_target", i>> /\ DELETE_ONE("targets", i)

record_result(t, ts, status) ==
    /\ call' = <<"record_result", t, ts, status>>
    /\ REPLACE_INTO("results", <<t, ts>>, [target |-> t, ts |-> ts, status |-> status], Ok(None))
ResultsOf(t) == Where(duck.results, LAMBDA r : r.target = t)
timestamp_desc(r) == -r.ts
list_results(t, limit) ==
    /\ call' = <<"list_results", t, limit>>
    /\ SELECT_ORDERED({FirstOf(s, limit) : s \in Ascending(ResultsOf(t), timestamp_desc)})
list_recent_results(limit) ==
    /\ call' = <<"list_recent_results", limit>>
    /\ SELECT_ORDERED({FirstOf(s, limit) : s \in Ascending(Range(duck.results), timestamp_desc)})
\* The rows with row number <= limit, in whatever order the engine returns
\* them: the outer query has no ORDER BY.
Ranked(t, limit) == ToSet(FirstOf(CHOOSE s \in Ascending(ResultsOf(t), timestamp_desc) : TRUE, limit))
recent_results_for_targets(ts, limit) ==
    LET orders == UNION {SetToSeqs(Ranked(t, limit)) : t \in ts}
    IN  /\ call' = <<"recent_results_for_targets", ts, limit>>
        /\ Answer({Ok(f) : f \in {g \in [ts -> orders] :
                                    \A t \in ts : g[t] \in SetToSeqs(Ranked(t, limit))}})
delete_old_check_results(before) ==
    /\ call' = <<"delete_old_check_results", before>>
    /\ DELETE_COUNT("results", LAMBDA r : r.ts < before)

Between(t, from, to) == {r \in ResultsOf(t) : from <= r.ts /\ r.ts <= to}
up_count(rows) == Cardinality({r \in rows : r.status = "up"})
uptime_row(rows) ==
    IF rows = {} THEN None
    ELSE [total |-> Cardinality(rows), failed |-> Cardinality(rows) - up_count(rows)]
uptime(t, from, to) ==
    call' = <<"uptime", t, from, to>> /\ Read(Ok(uptime_row(Between(t, from, to))))

(***************************************************************************)
(* time_bucket groups the rows from `from' on; the client truncates each   *)
(* bucket's start to whole ticks, rounds it to an index and keeps one      *)
(* bucket per index, the later one.                                        *)
(***************************************************************************)
latency_buckets(t, from, to, n) ==
    LET total == IF to - from > 1 THEN to - from ELSE 1
        time_bucket(r) == ((r.ts - from) * n) \div total
        index(k) == LET start == (k * total) \div n
                        i == (2 * start * n + total) \div (2 * total)
                    IN  IF i < n THEN i ELSE n - 1
        rows == Between(t, from, to)
        kept(i) == Max({-1} \cup {k \in {time_bucket(r) : r \in rows} : index(k) = i})
    IN  /\ call' = <<"latency_buckets", t, from, to, n>>
        /\ Read(Ok([i \in 0..(n - 1) |-> Cardinality({r \in rows : time_bucket(r) = kept(i)})]))

worst_rank(rows) ==
    Max({0} \cup {CASE r.status \in {"down", "error"} -> 4
                    [] r.status = "degraded" -> 3
                    [] r.status = "up" -> 1 : r \in rows})
rank_to_day_state(rank) ==
    CASE rank = 4 -> "major_outage" [] rank = 3 -> "degraded"
      [] rank = 1 -> "operational"  [] OTHER -> "no_data"
\* GROUP BY day, with no_data for the days of the window without a row.
by_day(rows, from, to) ==
    [d \in (from \div DayTicks)..(to \div DayTicks) |->
       rank_to_day_state(worst_rank({r \in rows : r.ts \div DayTicks = d}))]
component_day_history(t, from, to) ==
    /\ call' = <<"component_day_history", t, from, to>>
    /\ Read(Ok(by_day(Between(t, from, to), from, to)))
\* DISTINCT ON (target_id) ... ORDER BY timestamp DESC.
latest_map(t) == IF ResultsOf(t) = {} THEN None
                 ELSE CHOOSE r \in ResultsOf(t) : \A o \in ResultsOf(t) : o.ts <= r.ts
ninety_days_ago == IF clock > StripDays * DayTicks THEN clock - StripDays * DayTicks ELSE 0
dashboard_rollup ==
    /\ call' = <<"dashboard_rollup">>
    /\ Read(Ok([t \in DOMAIN duck.targets |->
          [enabled |-> duck.targets[t].payload.enabled,
           latest  |-> latest_map(t),
           day     |-> uptime_row({r \in ResultsOf(t) : r.ts >= clock - DayTicks}),
           history |-> by_day(Between(t, ninety_days_ago, clock), ninety_days_ago, clock)]]))

record_heartbeat_ping(t) ==
    call' = <<"record_heartbeat_ping", t>> /\ REPLACE_INTO("pings", t, clock, Ok(None))
get_last_heartbeat_ping(t) ==
    call' = <<"get_last_heartbeat_ping", t>> /\ SELECT_OPTION("pings", t)
set_domain_expiry_state(t, at) ==
    call' = <<"set_domain_expiry_state", t, at>> /\ REPLACE_INTO("expiry", t, at, Ok(None))
get_domain_expiry_state(t) ==
    call' = <<"get_domain_expiry_state", t>> /\ SELECT_OPTION("expiry", t)

----------------------------------------------------------------------------
(* Methods that take the lock twice.  Begin answers NotFound by itself;    *)
(* otherwise the caller goes on with the row it read.                      *)

Begin(c, asked, found, row) ==
    /\ inflight[c] = None
    /\ IF found THEN /\ inflight' = [inflight EXCEPT ![c] = [call |-> asked, row |-> row]]
                     /\ UNCHANGED <<duck, call, reply, clock>>
       ELSE call' = asked /\ Read(NotFound)
Resumes(c, method) == inflight[c] # None /\ inflight[c].call[1] = method
Finish(c, table, rows, answer) ==
    /\ call' = inflight[c].call
    /\ Put(table, rows, answer)
    /\ inflight' = [inflight EXCEPT ![c] = None]

\* list_targets, then the latest statuses.
dashboard_summary_begin(c) ==
    Begin(c, <<"dashboard_summary">>, TRUE,
          [t \in DOMAIN duck.targets |-> duck.targets[t].payload])
dashboard_summary_finish(c) ==
    /\ Resumes(c, "dashboard_summary")
    /\ LET targets == inflight[c].row
           counted(Test(_)) == Cardinality({t \in DOMAIN targets : Test(t)})
       IN  Finish(c, "targets", duck.targets,
             Ok([counts   |-> [s \in Statuses |-> counted(LAMBDA t : /\ targets[t].enabled
                                                                    /\ latest_map(t) # None
                                                                    /\ latest_map(t).status = s)],
                 disabled |-> counted(LAMBDA t : ~targets[t].enabled),
                 total    |-> Cardinality(DOMAIN targets)]))

----------------------------------------------------------------------------
(* Incidents.                                                              *)

incident_row(i) == [payload |-> i, target_id |-> i.target, started_at |-> i.started_at,
                    ended_at |-> i.ended_at]
started_at(r) == r.started_at
list_incidents ==
    /\ call' = <<"list_incidents">>
    /\ SELECT_ORDERED({FirstOf(s, 200) :
                         s \in Payloads(Descending(Range(duck.incidents), started_at))})
get_incident(i) == call' = <<"get_incident", i>> /\ SELECT_PAYLOAD("incidents", i)
create_incident(i, t) ==
    LET new == [id |-> i, target |-> t, started_at |-> clock, ended_at |-> None,
                severity |-> "minor", notes |-> 0]
    IN  call' = <<"create_incident", i, t>> /\ INSERT("incidents", i, incident_row(new), Ok(new))
update_incident(i, severity, ended) ==
    /\ call' = <<"update_incident", i, severity, ended>>
    /\ IF ~Has("incidents", i) THEN Read(NotFound)
       ELSE LET new == [duck.incidents[i].payload EXCEPT !.severity = severity, !.ended_at = ended]
            IN  UPDATE("incidents", i, incident_row(new), Ok(new))
\* get_incident, then update_incident with one more update.
add_incident_update_begin(c, i) ==
    Begin(c, <<"add_incident_update", i>>, Has("incidents", i),
          IF Has("incidents", i) THEN duck.incidents[i].payload ELSE None)
add_incident_update_finish(c) ==
    /\ Resumes(c, "add_incident_update")
    /\ LET new == [inflight[c].row EXCEPT !.notes = @ + 1]
       IN  IF Has("incidents", new.id)
           THEN Finish(c, "incidents", With(duck.incidents, new.id, incident_row(new)), Ok(new))
           ELSE Finish(c, "incidents", duck.incidents, NotFound)
\* mutant: the ended_at test is missing
find_open_incident_any(t) ==
    /\ call' = <<"find_open_incident_for_target", t>>
    /\ Answer({Ok(IF s = <<>> THEN None ELSE s[1]) :
              s \in Payloads(Descending(Where(duck.incidents, LAMBDA r : r.target_id = t), started_at))})
find_open_incident_for_target(t) ==
    LET open == Where(duck.incidents, LAMBDA r : r.target_id = t /\ r.ended_at = None)
    IN  /\ call' = <<"find_open_incident_for_target", t>>
        /\ Answer({Ok(IF s = <<>> THEN None ELSE s[1]) : s \in Payloads(Descending(open, started_at))})
\* One transaction: the row is read, checked and written back.
apply_incident_ops(i, transition, severity, note) ==
    /\ call' = <<"apply_incident_ops", i, transition, severity, note>>
    /\ IF ~Has("incidents", i) THEN Read(NotFound)
       ELSE IF transition = "other" THEN Read(InvalidInput)
       ELSE IF /\ transition # None
               /\ next_state(duck.incidents[i].payload.ended_at, transition) = None
            THEN Read(Conflict)
       ELSE LET new == patched(duck.incidents[i].payload, transition, severity, note, clock)
            IN  UPDATE("incidents", i, incident_row(new), Ok(new))
\* The query sums a column the incidents table does not have.
incident_metrics(window) == call' = <<"incident_metrics", window>> /\ Read(EngineError)

----------------------------------------------------------------------------
(* Status pages, their components and assets.                              *)

page_row(p) == [payload |-> p, slug |-> p.slug, created_at |-> p.created_at]
slug_taken(slug, except) == \E p \in DOMAIN duck.pages \ {except} : duck.pages[p].slug = slug
list_status_pages ==
    /\ call' = <<"list_status_pages">>
    /\ SELECT_ORDERED(Payloads(Ascending(Range(duck.pages), created_at)))
get_status_page(p) == call' = <<"get_status_page", p>> /\ SELECT_PAYLOAD("pages", p)
create_status_page(p, slug) ==
    LET new == [id |-> p, slug |-> slug, created_at |-> clock]
    IN  /\ call' = <<"create_status_page", p, slug>>
        /\ IF slug_taken(slug, None) THEN Read(Conflict)
           ELSE INSERT("pages", p, page_row(new), Ok(new))
update_status_page(p, slug) ==
    /\ call' = <<"update_status_page", p, slug>>
    /\ IF ~Has("pages", p) THEN Read(NotFound)
       ELSE IF slug_taken(slug, p) THEN Read(Conflict)
       ELSE LET new == [duck.pages[p].payload EXCEPT !.slug = slug]
            IN  UPDATE("pages", p, [duck.pages[p] EXCEPT !.slug = slug, !.payload = new], Ok(new))
delete_status_page(p) == call' = <<"delete_status_page", p>> /\ DELETE_ONE("pages", p)

list_status_page_components(p) ==
    /\ call' = <<"list_status_page_components", p>>
    /\ SELECT_ORDERED(Payloads(Ascending(
          {duck.components[k] : k \in {x \in DOMAIN duck.components : x[1] = p}},
          LAMBDA c : c.sort_order)))
set_status_page_component(p, t, order) ==
    /\ call' = <<"set_status_page_component", p, t, order>>
    /\ REPLACE_INTO("components", <<p, t>>,
          [payload |-> [target |-> t, sort_order |-> order], sort_order |-> order], Ok(None))
delete_status_page_component(p, t) ==
    call' = <<"delete_status_page_component", p, t>> /\ DELETE_KEY("components", <<p, t>>)
\* One UPDATE of the sort_order column per listed id, in one transaction.
reorder_status_page_components(p, list) ==
    /\ call' = <<"reorder_status_page_components", p, list>>
    /\ Write("components",
             [k \in DOMAIN duck.components |->
                IF k[1] = p /\ k[2] \in ToSet(list)
                THEN [duck.components[k] EXCEPT
                        !.sort_order = Max({i \in DOMAIN list : list[i] = k[2]}) - 1]
                ELSE duck.components[k]], Ok(None))

upload_page_asset(p, slot, content) ==
    LET k == <<p, slot>>
        new == [content |-> content, updated_at |-> clock,
                created_at |-> IF Has("assets", k) THEN duck.assets[k].created_at ELSE clock]
    IN  /\ call' = <<"upload_page_asset", p, slot, content>>
        /\ REPLACE_INTO("assets", k, new, Ok(new))
get_page_asset(p, slot) ==
    call' = <<"get_page_asset", p, slot>> /\ SELECT_OPTION("assets", <<p, slot>>)
delete_page_asset(p, slot) ==
    call' = <<"delete_page_asset", p, slot>> /\ DELETE_KEY("assets", <<p, slot>>)
list_page_assets(p) ==
    /\ call' = <<"list_page_assets", p>>
    /\ Read(Ok(Restrict(duck.assets, {k \in DOMAIN duck.assets : k[1] = p})))

----------------------------------------------------------------------------
(* Maintenance windows and silence rules.                                  *)

window_row(w) == [payload |-> w, starts_at |-> w.starts_at, ends_at |-> w.ends_at]
starts_at(r) == r.starts_at
ends_at(r) == r.ends_at
\* ORDER BY starts_at ASC, ends_at DESC for Past, starts_at DESC for All.
FilterOrder(rows, filter) ==
    LET hits == {r \in rows : InWindow(r, filter, clock)}
    IN  Payloads(CASE filter \in {"active", "upcoming"} -> Ascending(hits, starts_at)
                   [] filter = "past" -> Descending(hits, ends_at)
                   [] filter = "all" -> Descending(hits, starts_at))
list_maintenance_windows(filter) ==
    /\ call' = <<"list_maintenance_windows", filter>>
    /\ SELECT_ORDERED(FilterOrder(Range(duck.windows), filter))
get_maintenance_window(i) ==
    call' = <<"get_maintenance_window", i>> /\ SELECT_PAYLOAD("windows", i)
create_maintenance_window(w) ==
    call' = <<"create_maintenance_window", w>> /\ INSERT("windows", w.id, window_row(w), Ok(w))
update_maintenance_window(w) ==
    call' = <<"update_maintenance_window", w>> /\ UPDATE("windows", w.id, window_row(w), Ok(w))
delete_maintenance_window(i) ==
    call' = <<"delete_maintenance_window", i>> /\ DELETE_ONE("windows", i)
is_target_in_active_maintenance(t) ==
    /\ call' = <<"is_target_in_active_maintenance", t>>
    /\ Read(Ok(Where(duck.windows, LAMBDA r : IsActive(r, clock) /\ t \in r.payload.components) # {}))

silence_row(s) == [payload |-> s, target_id |-> s.target,
                   starts_at |-> s.starts_at, ends_at |-> s.ends_at]
\* Every filter but All binds `now' twice; Upcoming and Past have one
\* placeholder, and the driver refuses the statement.
list_silence_rules(filter) ==
    /\ call' = <<"list_silence_rules", filter>>
    /\ IF filter \in {"upcoming", "past"} THEN Read(EngineError)
       ELSE SELECT_ORDERED(FilterOrder(Range(duck.silences), filter))
get_silence_rule(i) == call' = <<"get_silence_rule", i>> /\ SELECT_PAYLOAD("silences", i)
create_silence_rule(i, t, from, to) ==
    LET new == [id |-> i, target |-> t, starts_at |-> from, ends_at |-> to]
    IN  /\ ~Has("silences", i)
        /\ call' = <<"create_silence_rule", i, t, from, to>>
        /\ INSERT("silences", i, silence_row(new), Ok(new))
update_silence_rule(i, t, from, to) ==
    /\ call' = <<"update_silence_rule", i, t, from, to>>
    /\ IF ~Has("silences", i) THEN Read(NotFound)
       ELSE LET old == duck.silences[i].payload
                new == [old EXCEPT !.target = t,
                          !.starts_at = IF from = None THEN @ ELSE from,
                          !.ends_at = IF to = None THEN @ ELSE to]
            IN  IF new.starts_at >= new.ends_at THEN Read(InvalidInput)
                ELSE UPDATE("silences", i, silence_row(new), Ok(new))
delete_silence_rule(i) == call' = <<"delete_silence_rule", i>> /\ DELETE_ONE("silences", i)
list_active_silences_for_target(t) ==
    /\ call' = <<"list_active_silences_for_target", t>>
    /\ SELECT_ORDERED(Payloads(Ascending(Where(duck.silences,
          LAMBDA r : IsActive(r, clock) /\ r.target_id \in {None, t}), starts_at)))

----------------------------------------------------------------------------
(* Subscribers and their deliveries: plain columns, no payload.            *)

list_subscribers(p) ==
    /\ call' = <<"list_subscribers", p>>
    /\ SELECT_ORDERED(Ascending(Where(duck.subscribers, LAMBDA s : s.page = p), created_at))
create_subscriber(i, p) ==
    LET new == [id |-> i, page |-> p, verified_at |-> None, created_at |-> clock]
    IN  call' = <<"create_subscriber", i, p>> /\ INSERT("subscribers", i, new, Ok(new))
verify_subscriber(i) ==
    /\ call' = <<"verify_subscriber", i>>
    /\ IF ~Has("subscribers", i) THEN Read(NotFound)
       ELSE LET new == [duck.subscribers[i] EXCEPT !.verified_at = clock]
            IN  UPDATE("subscribers", i, new, Ok(new))
delete_subscriber(i) == call' = <<"delete_subscriber", i>> /\ DELETE_ONE("subscribers", i)
delete_unverified_subscribers(before) ==
    /\ call' = <<"delete_unverified_subscribers", before>>
    /\ DELETE_COUNT("subscribers", LAMBDA s : s.verified_at = None /\ s.created_at < before)

enqueue_delivery(i) ==
    /\ ~Has("deliveries", i)
    /\ call' = <<"enqueue_delivery", i>>
    /\ INSERT("deliveries", i, [id |-> i, status |-> "pending", attempts |-> 0,
          created_at |-> clock, sent_at |-> None, next_attempt_at |-> clock], Ok(None))
due(d) == \/ d.status = "pending"
          \/ d.status = "failed" /\ d.next_attempt_at # None /\ d.next_attempt_at <= clock
list_pending_deliveries(limit) ==
    /\ call' = <<"list_pending_deliveries", limit>>
    /\ SELECT_ORDERED({FirstOf(s, limit) : s \in Ascending(Where(duck.deliveries, due), created_at)})
claim_delivery(i) ==
    /\ call' = <<"claim_delivery", i>>
    /\ IF Has("deliveries", i) /\ due(duck.deliveries[i])
       THEN LET new == [duck.deliveries[i] EXCEPT !.status = "claimed"]
            IN  UPDATE("deliveries", i, new, Ok(new))
       ELSE Read(Ok(None))
mark_delivery(i, status) ==
    /\ call' = <<"mark_delivery", i, status>>
    /\ IF ~Has("deliveries", i) THEN Read(NotFound)
       ELSE LET n == duck.deliveries[i].attempts + 1
            IN  UPDATE("deliveries", i, [duck.deliveries[i] EXCEPT
                  !.status = status, !.attempts = n,
                  !.sent_at = IF status = "sent" THEN clock ELSE None,
                  !.next_attempt_at = IF status = "failed" THEN clock + Backoff(n) ELSE None],
                  Ok(None))
delete_old_deliveries(before) ==
    /\ call' = <<"delete_old_deliveries", before>>
    /\ DELETE_COUNT("deliveries", LAMBDA d :
          /\ d.status \in {"sent", "dead_letter"}
          /\ (IF d.sent_at # None THEN d.sent_at ELSE d.created_at) < before)

----------------------------------------------------------------------------
(* Variables: the value column is NOT NULL, and sealed when secret.        *)

Blank == 0
stored(v) == [v EXCEPT !.value = IF @ = None THEN Blank ELSE @]
redacted(v) == IF v.secret THEN [v EXCEPT !.value = None] ELSE v
key_taken(key, except) == \E i \in DOMAIN duck.variables \ {except} : duck.variables[i].key = key
list_variables ==
    /\ call' = <<"list_variables">>
    /\ SELECT_ORDERED(Ascending({redacted(v) : v \in Range(duck.variables)}, LAMBDA v : v.key))
create_variable(v) ==
    /\ ~Has("variables", v.id)
    /\ call' = <<"create_variable", v>>
    /\ IF key_taken(v.key, None) THEN Read(Conflict)
       ELSE INSERT("variables", v.id, stored(v), Ok(redacted(v)))
update_variable(v) ==
    /\ call' = <<"update_variable", v>>
    /\ IF ~Has("variables", v.id) THEN Read(NotFound)
       ELSE IF key_taken(v.key, v.id) THEN Read(Conflict)
       ELSE UPDATE("variables", v.id, stored(v), Ok(redacted(v)))
delete_variable(i) == call' = <<"delete_variable", i>> /\ DELETE_ONE("variables", i)

----------------------------------------------------------------------------
(* Notification channels, their verification tokens and target bindings.   *)

\* channel_to_payload seals the config; the enabled column is projected out.
channel_row(c) == [payload |-> c, sealed |-> TRUE, enabled |-> c.enabled,
                   created_at |-> c.created_at]
list_notification_channels ==
    /\ call' = <<"list_notification_channels">>
    /\ SELECT_ORDERED(Payloads(Ascending(Range(duck.channels), created_at)))
get_notification_channel(i) ==
    call' = <<"get_notification_channel", i>> /\ SELECT_PAYLOAD("channels", i)
create_notification_channel(i) ==
    LET new == [id |-> i, config |-> 0, enabled |-> TRUE, disabled_reason |-> None,
                verified_at |-> None, created_at |-> clock]
    IN  /\ ~Has("channels", i)
        /\ call' = <<"create_notification_channel", i>>
        /\ INSERT("channels", i, channel_row(new), Ok(new))
ReadChannel(c, asked, i) ==
    Begin(c, asked, Has("channels", i), IF Has("channels", i) THEN duck.channels[i].payload ELSE None)
\* UPDATE ... WHERE id = ?: no row, no write.
WriteChannel(c, row, answer, gone) ==
    LET i == row.payload.id
    IN  IF Has("channels", i) THEN Finish(c, "channels", With(duck.channels, i, row), answer)
        ELSE Finish(c, "channels", duck.channels, gone)
update_notification_channel_begin(c, i, config, enabled) ==
    ReadChannel(c, <<"update_notification_channel", i, config, enabled>>, i)
update_notification_channel_finish(c) ==
    /\ Resumes(c, "update_notification_channel")
    /\ LET config == inflight[c].call[3]
           enabled == inflight[c].call[4]
           new == [inflight[c].row EXCEPT
                     !.config = IF config = None THEN @ ELSE config,
                     !.enabled = IF enabled = None THEN @ ELSE enabled,
                     !.disabled_reason = IF enabled = TRUE THEN None ELSE @]
       IN  WriteChannel(c, channel_row(new), Ok(new), NotFound)
\* These two write the payload column only, as plain JSON, and answer Ok
\* without asking whether a row was there to update.
PlainPayload(new) == [payload |-> new, sealed |-> FALSE,
                      enabled |-> IF Has("channels", new.id) THEN duck.channels[new.id].enabled
                                  ELSE new.enabled,
                      created_at |-> new.created_at]
set_channel_verified_begin(c, i) == ReadChannel(c, <<"set_channel_verified", i>>, i)
set_channel_verified_finish(c) ==
    /\ Resumes(c, "set_channel_verified")
    /\ WriteChannel(c, PlainPayload([inflight[c].row EXCEPT !.verified_at = clock]), Ok(None), Ok(None))
set_channel_disabled_reason_begin(c, i, reason) ==
    ReadChannel(c, <<"set_channel_disabled_reason", i, reason>>, i)
set_channel_disabled_reason_finish(c) ==
    /\ Resumes(c, "set_channel_disabled_reason")
    /\ WriteChannel(c, PlainPayload([inflight[c].row EXCEPT !.disabled_reason = inflight[c].call[3]]),
                    Ok(None), Ok(None))
\* One transaction over both tables.
delete_notification_channel(i) ==
    /\ call' = <<"delete_notification_channel", i>>
    /\ IF ~Has("channels", i) THEN Read(NotFound)
       ELSE /\ duck' = [duck EXCEPT !.channels = Restrict(@, DOMAIN @ \ {i}),
                                    !.bindings = Restrict(@, {k \in DOMAIN @ : k[2] # i})]
            /\ reply' = Ok(None) /\ UNCHANGED <<clock, inflight>>
create_channel_verification_token(h, c, expires) ==
    /\ ~Has("tokens", h)
    /\ call' = <<"create_channel_verification_token", h, c, expires>>
    /\ INSERT("tokens", h, [channel |-> c, expires_at |-> expires, used_at |-> None], Ok(None))
consume_channel_verification_token(h) ==
    /\ call' = <<"consume_channel_verification_token", h>>
    /\ IF /\ Has("tokens", h)
          /\ duck.tokens[h].used_at = None /\ duck.tokens[h].expires_at > clock
       THEN UPDATE("tokens", h, [duck.tokens[h] EXCEPT !.used_at = clock], Ok(duck.tokens[h].channel))
       ELSE Read(Ok(None))
list_target_channels(t) ==
    /\ call' = <<"list_target_channels", t>>
    /\ SELECT_ORDERED(Ascending({[channel |-> k[2], created_at |-> duck.bindings[k]] :
                                   k \in {x \in DOMAIN duck.bindings : x[1] = t}}, created_at))
bind_target_channel(t, c) ==
    /\ call' = <<"bind_target_channel", t, c>>
    /\ IF Has("bindings", <<t, c>>) THEN Read(Ok(None))
       ELSE REPLACE_INTO("bindings", <<t, c>>, clock, Ok(None))
unbind_target_channel(t, c) ==
    call' = <<"unbind_target_channel", t, c>> /\ DELETE_KEY("bindings", <<t, c>>)
unbind_channel_everywhere(c) ==
    /\ call' = <<"unbind_channel_everywhere", c>>
    /\ Write("bindings", Restrict(duck.bindings, {k \in DOMAIN duck.bindings : k[2] # c}), Ok(None))

----------------------------------------------------------------------------
(* Users, sessions, API tokens and magic links.                            *)

create_user(i, email) ==
    LET new == [id |-> i, email |-> email, name |-> None, theme |-> 0, last_seen_at |-> None]
    IN  /\ ~Has("users", i)
        /\ call' = <<"create_user", i, email>>
        /\ IF \E u \in Range(duck.users) : u.email = email THEN Read(Conflict)
           ELSE INSERT("users", i, new, Ok(new))
get_user(i) == call' = <<"get_user", i>> /\ SELECT_ONE("users", i)
find_user_by_email(email) ==
    LET found == Where(duck.users, LAMBDA u : u.email = email)
    IN  /\ call' = <<"find_user_by_email", email>>
        /\ Answer(IF found = {} THEN {Ok(None)} ELSE {Ok(u) : u \in found})
count_users == call' = <<"count_users">> /\ Read(Ok(Cardinality(DOMAIN duck.users)))
update_user_begin(c, i, name, theme) ==
    Begin(c, <<"update_user", i, name, theme>>, Has("users", i),
          IF Has("users", i) THEN duck.users[i] ELSE None)
\* All the patchable columns are written, also those the patch left alone.
update_user_finish(c) ==
    /\ Resumes(c, "update_user")
    /\ LET i == inflight[c].call[2]
           name == inflight[c].call[3]
           theme == inflight[c].call[4]
           new == [inflight[c].row EXCEPT !.name = IF name = None THEN @ ELSE name,
                                          !.theme = IF theme = None THEN @ ELSE theme]
       IN  IF Has("users", i)
           THEN Finish(c, "users", With(duck.users, i, [duck.users[i] EXCEPT !.name = new.name,
                                                                             !.theme = new.theme]), Ok(new))
           ELSE Finish(c, "users", duck.users, NotFound)
touch_user(i) ==
    /\ call' = <<"touch_user", i>>
    /\ IF ~Has("users", i) THEN Read(Ok(None))
       ELSE UPDATE("users", i, [duck.users[i] EXCEPT !.last_seen_at = clock], Ok(None))

create_session(h, u, expires) ==
    LET new == [id |-> h, user |-> u, created_at |-> clock, last_used_at |-> clock,
                expires_at |-> expires]
    IN  call' = <<"create_session", h, u, expires>> /\ INSERT("sessions", h, new, Ok(new))
lookup_session(h) == call' = <<"lookup_session", h>> /\ SELECT_OPTION("sessions", h)
touch_session(h) ==
    /\ call' = <<"touch_session", h>>
    /\ IF ~Has("sessions", h) THEN Read(Ok(None))
       ELSE UPDATE("sessions", h, [duck.sessions[h] EXCEPT !.last_used_at = clock], Ok(None))
delete_session(h) == call' = <<"delete_session", h>> /\ DELETE_KEY("sessions", h)
delete_other_sessions(u, keep) ==
    /\ call' = <<"delete_other_sessions", u, keep>>
    /\ DELETE_COUNT("sessions", LAMBDA s : s.user = u /\ s.id # keep)
list_sessions(u) ==
    /\ call' = <<"list_sessions", u>>
    /\ SELECT_ORDERED(Descending(Where(duck.sessions, LAMBDA s : s.user = u), created_at))
delete_expired_sessions(now) ==
    /\ call' = <<"delete_expired_sessions", now>>
    /\ DELETE_COUNT("sessions", LAMBDA s : s.expires_at < now)

create_api_token(i, u, prefix, expires) ==
    LET new == [id |-> i, user |-> u, prefix |-> prefix, name |-> 0, created_at |-> clock,
                last_used_at |-> None, expires_at |-> expires]
    IN  /\ ~Has("api_tokens", i)
        /\ call' = <<"create_api_token", i, u, prefix, expires>>
        /\ INSERT("api_tokens", i, new, Ok(new))
find_api_tokens_by_prefix(prefix) ==
    /\ call' = <<"find_api_tokens_by_prefix", prefix>>
    /\ SELECT_ORDERED(Descending(Where(duck.api_tokens, LAMBDA t : t.prefix = prefix), created_at))
list_api_tokens(u) ==
    /\ call' = <<"list_api_tokens", u>>
    /\ SELECT_ORDERED(Descending(Where(duck.api_tokens, LAMBDA t : t.user = u), created_at))
update_api_token(i, name) ==
    /\ call' = <<"update_api_token", i, name>>
    /\ IF ~Has("api_tokens", i) THEN Read(NotFound)
       ELSE LET new == [duck.api_tokens[i] EXCEPT !.name = name]
            IN  UPDATE("api_tokens", i, new, Ok(new))
touch_api_token(i) ==
    /\ call' = <<"touch_api_token", i>>
    /\ IF ~Has("api_tokens", i) THEN Read(Ok(None))
       ELSE UPDATE("api_tokens", i, [duck.api_tokens[i] EXCEPT !.last_used_at = clock], Ok(None))
delete_api_token(i) == call' = <<"delete_api_token", i>> /\ DELETE_KEY("api_tokens", i)
delete_api_tokens_for_user(u) ==
    /\ call' = <<"delete_api_tokens_for_user", u>>
    /\ DELETE_COUNT("api_tokens", LAMBDA t : t.user = u)
delete_expired_api_tokens(cutoff) ==
    /\ call' = <<"delete_expired_api_tokens", cutoff>>
    /\ DELETE_COUNT("api_tokens", LAMBDA t : t.expires_at # None /\ t.expires_at < cutoff)

create_magic_link(i, prefix, expires) ==
    LET new == [id |-> i, prefix |-> prefix, created_at |-> clock, expires_at |-> expires,
                used_at |-> None]
    IN  /\ ~Has("links", i)
        /\ call' = <<"create_magic_link", i, prefix, expires>>
        /\ INSERT("links", i, new, Ok(new))
find_magic_links_by_prefix(prefix) ==
    /\ call' = <<"find_magic_links_by_prefix", prefix>>
    /\ SELECT_ORDERED(Descending(Where(duck.links,
          LAMBDA m : m.prefix = prefix /\ m.used_at = None), created_at))
consume_magic_link(i) ==
    /\ call' = <<"consume_magic_link", i>>
    /\ IF Has("links", i) /\ duck.links[i].used_at = None
       THEN LET new == [duck.links[i] EXCEPT !.used_at = clock]
            IN  UPDATE("links", i, new, Ok(new))
       ELSE Read(Ok(None))
delete_expired_magic_links(now) ==
    /\ call' = <<"delete_expired_magic_links", now>>
    /\ DELETE_COUNT("links", LAMBDA m : m.expires_at < now /\ m.used_at = None)

----------------------------------------------------------------------------
(* Escalation policies and states, on-call schedules and overrides.        *)

list_escalation_policies ==
    /\ call' = <<"list_escalation_policies">>
    /\ SELECT_ORDERED(Ascending({[id |-> p.id, steps |-> p.steps, created_at |-> p.created_at] :
                                   p \in Range(duck.policies)}, created_at))
get_escalation_policy(i) == call' = <<"get_escalation_policy", i>> /\ SELECT_ONE("policies", i)
upsert_escalation_policy(p) ==
    call' = <<"upsert_escalation_policy", p>> /\ REPLACE_INTO("policies", p.id, p, Ok(p))
delete_escalation_policy(i) ==
    call' = <<"delete_escalation_policy", i>> /\ DELETE_ONE("policies", i)

get_escalation_state(i) ==
    call' = <<"get_escalation_state", i>> /\ SELECT_OPTION("states", i)
upsert_escalation_state(s) ==
    call' = <<"upsert_escalation_state", s>> /\ REPLACE_INTO("states", s.id, s, Ok(None))
list_due_escalation_states(now) ==
    /\ call' = <<"list_due_escalation_states", now>>
    /\ SELECT_ORDERED(Ascending(Where(duck.states, LAMBDA s : s.next_check_at <= now /\ ~s.acked),
                                LAMBDA s : s.next_check_at))
ack_escalation_state(i) ==
    /\ call' = <<"ack_escalation_state", i>>
    /\ IF ~Has("states", i) THEN Read(NotFound)
       ELSE UPDATE("states", i, [duck.states[i] EXCEPT !.acked = TRUE], Ok(None))
delete_escalation_state(i) ==
    call' = <<"delete_escalation_state", i>> /\ DELETE_KEY("states", i)

list_on_call_overrides_inner(s) ==
    Descending(Where(duck.overrides, LAMBDA o : o.schedule = s), starts_at)
list_on_call_schedules ==
    /\ call' = <<"list_on_call_schedules">>
    /\ SELECT_ORDERED(Ascending(Range(duck.schedules), created_at))
\* The schedule under one hold of the lock, its overrides under the next.
get_on_call_schedule_begin(c, i) ==
    Begin(c, <<"get_on_call_schedule", i>>, Has("schedules", i),
          IF Has("schedules", i) THEN duck.schedules[i] ELSE None)
get_on_call_schedule_finish(c) ==
    /\ Resumes(c, "get_on_call_schedule")
    /\ \E s \in list_on_call_overrides_inner(inflight[c].call[2]) :
          Finish(c, "schedules", duck.schedules, Ok(<<inflight[c].row, s>>))
upsert_on_call_schedule(s) ==
    call' = <<"upsert_on_call_schedule", s>> /\ REPLACE_INTO("schedules", s.id, s, Ok(s))
\* One transaction: a missing schedule rolls the override delete back.
delete_on_call_schedule(i) ==
    /\ call' = <<"delete_on_call_schedule", i>>
    /\ IF ~Has("schedules", i) THEN Read(NotFound)
       ELSE /\ duck' = [duck EXCEPT !.schedules = Restrict(@, DOMAIN @ \ {i}),
                                    !.overrides = Without(@, LAMBDA o : o.schedule = i)]
            /\ reply' = Ok(None) /\ UNCHANGED <<clock, inflight>>
list_on_call_overrides(s) ==
    call' = <<"list_on_call_overrides", s>> /\ SELECT_ORDERED(list_on_call_overrides_inner(s))
create_on_call_override(i, s, from) ==
    LET new == [id |-> i, schedule |-> s, starts_at |-> from]
    IN  call' = <<"create_on_call_override", i, s, from>> /\ INSERT("overrides", i, new, Ok(new))
delete_on_call_override(i) ==
    call' = <<"delete_on_call_override", i>> /\ DELETE_ONE("overrides", i)

----------------------------------------------------------------------------
(* Postmortems and monitor share links.                                    *)

get_postmortem(i) == call' = <<"get_postmortem", i>> /\ SELECT_OPTION("postmortems", i)
\* published_at and created_at are read first and written back.
upsert_postmortem(i, body) ==
    LET known == Has("postmortems", i)
        new == [id |-> i, body |-> body, updated_at |-> clock,
                created_at |-> IF known THEN duck.postmortems[i].created_at ELSE clock,
                published_at |-> IF known THEN duck.postmortems[i].published_at ELSE None]
    IN  call' = <<"upsert_postmortem", i, body>> /\ REPLACE_INTO("postmortems", i, new, Ok(new))
SetPublished(i, at) ==
    IF ~Has("postmortems", i) THEN Read(NotFound)
    ELSE LET new == [duck.postmortems[i] EXCEPT !.published_at = at, !.updated_at = clock]
         IN  UPDATE("postmortems", i, new, Ok(new))
publish_postmortem(i) == call' = <<"publish_postmortem", i>> /\ SetPublished(i, clock)
unpublish_postmortem(i) == call' = <<"unpublish_postmortem", i>> /\ SetPublished(i, None)
delete_postmortem(i) == call' = <<"delete_postmortem", i>> /\ DELETE_KEY("postmortems", i)

list_monitor_shares(t) ==
    /\ call' = <<"list_monitor_shares", t>>
    /\ SELECT_ORDERED(Descending(Where(duck.shares, LAMBDA s : s.target = t), created_at))
create_monitor_share(i, t, expires) ==
    LET new == [id |-> i, target |-> t, created_at |-> clock, expires_at |-> expires,
                views |-> 0, viewed_at |-> None]
    IN  /\ ~Has("shares", i)
        /\ call' = <<"create_monitor_share", i, t, expires>>
        /\ INSERT("shares", i, new, Ok(new))
delete_monitor_share(i) == call' = <<"delete_monitor_share", i>> /\ DELETE_KEY("shares", i)
resolve_monitor_share(i) ==
    /\ call' = <<"resolve_monitor_share", i>>
    /\ IF /\ Has("shares", i)
          /\ duck.shares[i].expires_at = None \/ duck.shares[i].expires_at > clock
       THEN UPDATE("shares", i, [duck.shares[i] EXCEPT !.views = @ + 1, !.viewed_at = clock],
                   Ok(duck.shares[i].target))
       ELSE Read(Ok(None))

ping == call' = <<"ping">> /\ Read(Ok(None))
TimePasses == clock < MaxClock /\ clock' = clock + 1 /\ UNCHANGED <<duck, call, reply, inflight>>

----------------------------------------------------------------------------
(* The calls a caller may make, one group per part of the trait.           *)

TargetCalls ==
    \/ list_targets
    \/ \E i \in Ids : get_target(i) \/ delete_target(i)
    \/ \E i \in Ids, on \in BOOLEAN : create_target(i, on) \/ update_target(i, on)
BeatCalls ==
    \E t \in Ids : \/ record_heartbeat_ping(t) \/ get_last_heartbeat_ping(t)
                   \/ get_domain_expiry_state(t)
                   \/ \E at \in Times : set_domain_expiry_state(t, at)
ResultCalls ==
    \/ \E t \in Ids, ts \in 0..clock, s \in Statuses :
          /\ Cardinality(DOMAIN duck.results \cup {<<t, ts>>}) <= MaxResults
          /\ record_result(t, ts, s)
    \/ \E t \in Ids, on \in BOOLEAN : update_target(t, on)
    \/ \E n \in {1, 2} : \/ list_recent_results(n) \/ \E t \in Ids : list_results(t, n)
                         \/ \E ts \in SUBSET Ids : recent_results_for_targets(ts, n)
    \/ \E before \in Times : delete_old_check_results(before)
    \/ \E t \in Ids, to \in Times : \E from \in 0..to :
          \/ uptime(t, from, to) \/ component_day_history(t, from, to)
          \/ \E n \in {1, 2} : latency_buckets(t, from, to, n)
    \/ dashboard_rollup
    \/ \E c \in Clients : dashboard_summary_begin(c) \/ dashboard_summary_finish(c)
HasRoom(i) == Has("incidents", i) => duck.incidents[i].payload.notes < MaxNotes
IncidentCalls ==
    \/ list_incidents
    \/ \E i \in Ids : \/ get_incident(i)
                      \/ find_open_incident_for_target(i) \/ incident_metrics(i)
    \/ \E i, t \in Ids : create_incident(i, t)
    \/ \E i \in Ids, sev \in {"minor", "major"}, e \in OptionalTimes : update_incident(i, sev, e)
    \/ \E i \in Ids, tr \in Transitions, sev \in {None, "major"}, note \in BOOLEAN :
          (note => HasRoom(i)) /\ apply_incident_ops(i, tr, sev, note)
NoteCalls ==
    \/ \E c \in Clients, i \in Ids : HasRoom(i) /\ add_incident_update_begin(c, i)
    \/ \E c \in Clients : add_incident_update_finish(c)
PageCalls ==
    \/ list_status_pages
    \/ \E p \in Ids : get_status_page(p) \/ delete_status_page(p)
    \/ \E p, slug \in Ids : create_status_page(p, slug) \/ update_status_page(p, slug)
ComponentCalls ==
    \/ \E p \in Ids : list_status_page_components(p)
    \/ \E p, t \in Ids : delete_status_page_component(p, t)
    \/ \E p, t \in Ids, order \in {0, 1} : set_status_page_component(p, t, order)
    \/ \E p \in Ids, list \in SetToSeqs(Ids) : reorder_status_page_components(p, list)
AssetCalls ==
    \/ \E p \in Ids : list_page_assets(p)
    \/ \E p \in Ids, slot \in {"logo"} :
          \/ get_page_asset(p, slot) \/ delete_page_asset(p, slot)
          \/ \E content \in {1, 2} : upload_page_asset(p, slot, content)
WindowCalls ==
    \/ \E f \in Filters : list_maintenance_windows(f)
    \/ \E i \in Ids : \/ get_maintenance_window(i) \/ delete_maintenance_window(i)
                      \/ is_target_in_active_maintenance(i)
    \/ \E w \in Windows : create_maintenance_window(w) \/ update_maintenance_window(w)
SilenceCalls ==
    \/ \E f \in Filters : list_silence_rules(f)
    \/ \E i \in Ids : \/ get_silence_rule(i) \/ delete_silence_rule(i)
                      \/ list_active_silences_for_target(i)
    \/ \E i \in Ids, t \in Ids \cup {None}, from, to \in Times : create_silence_rule(i, t, from, to)
    \/ \E i \in Ids, t \in Ids \cup {None}, from, to \in OptionalTimes :
          update_silence_rule(i, t, from, to)
SubscriberCalls ==
    \/ \E i \in Ids : list_subscribers(i) \/ verify_subscriber(i) \/ delete_subscriber(i)
    \/ \E i, p \in Ids : create_subscriber(i, p)
    \/ \E before \in Times : delete_unverified_subscribers(before)
DeliveryCalls ==
    \/ \E i \in Ids : enqueue_delivery(i) \/ claim_delivery(i)
    \/ \E n \in {1, 2} : list_pending_deliveries(n)
    \/ \E i \in Ids, s \in {"sent", "failed", "dead_letter"} :
          (Has("deliveries", i) => duck.deliveries[i].attempts < MaxAttempts) /\ mark_delivery(i, s)
    \/ \E before \in Times : delete_old_deliveries(before)
VariableCalls ==
    \/ list_variables
    \/ \E i \in Ids : delete_variable(i)
    \/ \E v \in Variables : create_variable(v) \/ update_variable(v)
ChannelCalls ==
    \/ list_notification_channels
    \/ \E i \in Ids : \/ get_notification_channel(i) \/ create_notification_channel(i)
                      \/ delete_notification_channel(i)
    \/ \E c \in Clients, i \in Ids :
          \/ set_channel_verified_begin(c, i) \/ set_channel_disabled_reason_begin(c, i, 1)
          \/ \E p \in ChannelPatches : update_notification_channel_begin(c, i, p[1], p[2])
    \/ \E c \in Clients : \/ set_channel_verified_finish(c) \/ set_channel_disabled_reason_finish(c)
                          \/ update_notification_channel_finish(c)
BindingCalls ==
    \/ \E i \in Ids : \/ create_notification_channel(i) \/ delete_notification_channel(i)
                      \/ list_target_channels(i) \/ unbind_channel_everywhere(i)
    \/ \E t, c \in Ids : bind_target_channel(t, c) \/ unbind_target_channel(t, c)
TokenCalls ==
    \/ \E h \in Ids : consume_channel_verification_token(h)
    \/ \E h, c \in Ids, e \in Times : create_channel_verification_token(h, c, e)
UserCalls ==
    \/ count_users
    \/ \E i \in Ids : get_user(i) \/ find_user_by_email(i) \/ touch_user(i)
    \/ \E i, email \in Ids : create_user(i, email)
    \/ \E c \in Clients : \/ update_user_finish(c)
                          \/ \E i \in Ids, p \in UserPatches : update_user_begin(c, i, p[1], p[2])
SessionCalls ==
    \/ \E i \in Ids : \/ lookup_session(i) \/ touch_session(i) \/ delete_session(i) \/ list_sessions(i)
    \/ \E h, u \in Ids : \/ delete_other_sessions(u, h)
                         \/ \E e \in Times : create_session(h, u, e)
    \/ \E now \in Times : delete_expired_sessions(now)
ApiTokenCalls ==
    \/ \E i \in Ids : \/ find_api_tokens_by_prefix(i) \/ list_api_tokens(i) \/ update_api_token(i, 1)
                      \/ touch_api_token(i) \/ delete_api_token(i) \/ delete_api_tokens_for_user(i)
    \/ \E i, u \in Ids, e \in {None, 1} : create_api_token(i, u, 1, e)
    \/ \E cutoff \in Times : delete_expired_api_tokens(cutoff)
LinkCalls ==
    \/ \E i \in Ids : find_magic_links_by_prefix(i) \/ consume_magic_link(i)
    \/ \E i, prefix \in Ids, e \in Times : create_magic_link(i, prefix, e)
    \/ \E now \in Times : delete_expired_magic_links(now)
EscalationCalls ==
    \/ list_escalation_policies
    \/ \E i \in Ids : \/ get_escalation_policy(i) \/ delete_escalation_policy(i)
                      \/ get_escalation_state(i) \/ ack_escalation_state(i) \/ delete_escalation_state(i)
    \/ \E p \in Policies : upsert_escalation_policy(p)
    \/ \E s \in States : upsert_escalation_state(s)
    \/ \E now \in Times : list_due_escalation_states(now)
OnCallCalls ==
    \/ list_on_call_schedules
    \/ \E i \in Ids : \/ delete_on_call_schedule(i)
                      \/ list_on_call_overrides(i) \/ delete_on_call_override(i)
    \/ \E c \in Clients : \/ get_on_call_schedule_finish(c)
                          \/ \E i \in Ids : get_on_call_schedule_begin(c, i)
    \/ \E s \in Schedules : upsert_on_call_schedule(s)
    \/ \E i, s \in Ids, from \in Times : create_on_call_override(i, s, from)
PostmortemCalls ==
    \/ \E i \in Ids : \/ get_postmortem(i) \/ publish_postmortem(i) \/ unpublish_postmortem(i)
                      \/ delete_postmortem(i)
    \/ \E i \in Ids, body \in {1, 2} : upsert_postmortem(i, body)
ShareCalls ==
    \/ ping
    \/ \E i \in Ids : \/ list_monitor_shares(i) \/ delete_monitor_share(i)
                      \/ /\ Has("shares", i) => duck.shares[i].views < MaxAttempts
                         /\ resolve_monitor_share(i)
    \/ \E i, t \in Ids, e \in {None, 1} : create_monitor_share(i, t, e)

DuckNext ==
    \/ TargetCalls \/ BeatCalls \/ ResultCalls \/ IncidentCalls \/ NoteCalls \/ PageCalls
    \/ ComponentCalls \/ AssetCalls \/ WindowCalls \/ SilenceCalls \/ SubscriberCalls
    \/ DeliveryCalls \/ VariableCalls \/ ChannelCalls \/ BindingCalls \/ TokenCalls \/ UserCalls
    \/ SessionCalls \/ ApiTokenCalls \/ LinkCalls \/ EscalationCalls \/ OnCallCalls
    \/ PostmortemCalls \/ ShareCalls \/ TimePasses
DuckSpec == DuckInit /\ [][DuckNext]_duckVars

----------------------------------------------------------------------------
(* The refinement of MemoryStorage.                                        *)

(***************************************************************************)
(* The maps the rows stand for: a payload, with the sort_order column a    *)
(* reorder writes; the empty text where no value was given.                *)
(***************************************************************************)
AsMap(table, rows) ==
    CASE table \in {"targets", "incidents", "pages", "windows", "silences", "channels"} ->
           [k \in DOMAIN rows |-> rows[k].payload]
      [] table = "components" ->
           [k \in DOMAIN rows |-> [rows[k].payload EXCEPT !.sort_order = rows[k].sort_order]]
      [] table = "variables" ->
           [k \in DOMAIN rows |-> [rows[k] EXCEPT !.value = IF @ = Blank THEN None ELSE @]]
      [] OTHER -> rows
Maps == [table \in Tables |-> AsMap(table, duck[table])]
Memory == INSTANCE MemoryStorage WITH mem <- Maps
refined == <<duck, call, reply, clock>>

\* The first half of a two-step method would still read what it read.
TableRead(method) == CASE method = "add_incident_update" -> "incidents"
                       [] method = "update_user" -> "users"
                       [] method = "get_on_call_schedule" -> "schedules"
                       [] OTHER -> "channels"
IsCurrent(c) ==
    LET asked == inflight[c].call
        table == TableRead(asked[1])
    IN  IF asked[1] = "dashboard_summary" THEN inflight[c].row = Maps.targets
        ELSE Has(table, asked[2]) /\ inflight[c].row = Maps[table][asked[2]]
\* A method writes back, or answers with, a row that changed after its read.
ActsOnStaleRow == \E c \in Clients : inflight[c] # None /\ inflight'[c] = None /\ ~IsCurrent(c)

(***************************************************************************)
(* Where the two backends answer the same call differently: the list a     *)
(* caller of one must not rely on when tested against the other.           *)
(***************************************************************************)
\* An answer with the rows asked for, in another order.
Lists(rows, list) == Len(list) = Cardinality(rows) /\ ToSet(list) = rows
\* As many of the newest rows as the limit allows.
ListsNewest(rows, limit, list) ==
    /\ Len(list) = Min({limit, Cardinality(rows)})
    /\ Cardinality(ToSet(list)) = Len(list)
    /\ ToSet(list) \subseteq rows
    /\ \A kept \in ToSet(list), left \in rows \ ToSet(list) : left.ts <= kept.ts
OrderDiffers ==
    /\ reply'[1] = "ok"
    /\ \/ /\ call'[1] = "list_maintenance_windows" /\ call'[2] \in {"past", "all"}
          /\ Lists({w \in Range(Maps.windows) : InWindow(w, call'[2], clock)}, reply'[2])
       \/ /\ call' = <<"list_silence_rules", "all">>
          /\ Lists(Range(Maps.silences), reply'[2])
       \/ /\ call'[1] = "recent_results_for_targets"
          /\ \A t \in call'[2] : ListsNewest(ResultsOf(t), call'[3], reply'[2][t])
StatementFails ==
    /\ reply' = EngineError
    /\ \/ call' \in {<<"list_silence_rules", "upcoming">>, <<"list_silence_rules", "past">>}
       \/ call'[1] = "incident_metrics"
UniqueColumn ==
    /\ reply' = Conflict
    /\ \/ call'[1] \in {"create_status_page", "update_status_page"} /\ slug_taken(call'[3], call'[2])
       \/ call'[1] = "update_variable" /\ key_taken(call'[2].key, call'[2].id)
OtherError == call'[1] = "apply_incident_ops" /\ call'[3] = "other" /\ reply' = InvalidInput
ColumnNotPayload ==
    \/ /\ call'[1] = "list_status_page_components"
       /\ \E r \in Range(duck.components) : r.sort_order # r.payload.sort_order
    \/ /\ call'[1] = "list_variables"
       /\ \E v \in Range(duck.variables) : v.value = Blank /\ ~v.secret
\* A check at the closing instant of the range takes over the last bucket.
LastBucket == /\ call'[1] = "latency_buckets"
              /\ \E r \in ResultsOf(call'[2]) : r.ts = call'[4]
ReadDiffers == /\ UNCHANGED <<duck, clock>>
               /\ \/ OrderDiffers \/ StatementFails \/ UniqueColumn \/ OtherError
                  \/ ColumnNotPayload \/ LastBucket
\* Marking a delivery that was sent before forgets when.
ForgetsSentAt == /\ call'[1] = "mark_delivery"
                 /\ Has("deliveries", call'[2]) /\ duck.deliveries[call'[2]].sent_at # None
Differs == ReadDiffers \/ ForgetsSentAt \/ ActsOnStaleRow

(***************************************************************************)
(* Every call the DuckDB backend answers is a call the in-memory backend   *)
(* would have answered the same way on the same data, and leaves the same  *)
(* data behind, but for the listed differences and for two-step methods    *)
(* overtaken by a writer (duckdb.rs against memory.rs, method by method).  *)
(***************************************************************************)
MirrorsMemory == [][Differs \/ Memory!MemNext]_refined
==============================================================================
