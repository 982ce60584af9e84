---------------------------- MODULE MemoryStorage ----------------------------
(***************************************************************************)
(* src/crates/storage/src/memory.rs: the storage trait over hash maps.     *)
(* Every method is one action.  (Two deletes release the lock of one map   *)
(* before they clear another; the specification takes both at once.)  An   *)
(* action records the call and its answer: `call' and `reply' are what a   *)
(* caller sees, `mem' the maps.  This is the abstract specification of the *)
(* trait; DuckdbStorage implements it with a mapping from its rows.        *)
(***************************************************************************)
EXTENDS StorageRows

VARIABLES mem,      \* one map per field of MemoryStorage
          call,     \* the last call: method name and arguments
          reply,    \* its result
          clock     \* Utc::now()

memVars == <<mem, call, reply, clock>>

Tables == {"targets", "results", "incidents", "pages", "components", "assets",
           "pings", "expiry", "windows", "silences", "subscribers",
           "deliveries", "variables", "channels", "tokens", "bindings",
           "users", "sessions", "api_tokens", "links", "policies",
           "schedules", "overrides", "states", "postmortems", "shares"}

Empty == [x \in {} |-> None]
MemInit == /\ mem = [t \in Tables |-> Empty]
           /\ call = <<"ping">> /\ reply = Ok(None) /\ clock = 0

\* The steps methods are made of.
Answer(answers) == UNCHANGED <<mem, clock>> /\ reply' \in answers
Read(answer) == Answer({answer})
Write(table, rows, answer) ==
    /\ mem' = [mem EXCEPT ![table] = rows]
    /\ reply' = answer
    /\ UNCHANGED clock
Lists(orders) == {Ok(s) : s \in orders}
Lookup(table, k) == IF k \in DOMAIN mem[table] THEN mem[table][k] ELSE None
GetRow(table, k) ==
    Read(IF k \in DOMAIN mem[table] THEN Ok(mem[table][k]) ELSE NotFound)
InsertNew(table, row) ==
    IF row.id \in DOMAIN mem[table] THEN Read(Conflict)
    ELSE Write(table, With(mem[table], row.id, row), Ok(row))
Replace(table, row) ==
    IF row.id \notin DOMAIN mem[table] THEN Read(NotFound)
    ELSE Write(table, With(mem[table], row.id, row), Ok(row))
Upsert(table, k, row, answer) == Write(table, With(mem[table], k, row), answer)
RemoveRow(table, k) ==
    IF k \notin DOMAIN mem[table] THEN Read(NotFound)
    ELSE Write(table, Restrict(mem[table], DOMAIN mem[table] \ {k}), Ok(None))
RemoveIfThere(table, k) ==
    Write(table, Restrict(mem[table], DOMAIN mem[table] \ {k}), Ok(None))
Purge(table, Test(_)) ==
    Write(table, Without(mem[table], Test), Ok(Cardinality(Where(mem[table], Test))))
created_at(r) == r.created_at

----------------------------------------------------------------------------
(* Targets, check results, heartbeats and domain expiry.                   *)

list_targets == /\ call' = <<"list_targets">>
                /\ Answer(Lists(Ascending(Range(mem.targets), created_at)))
get_target(i) == call' = <<"get_target", i>> /\ GetRow("targets", i)
create_target(i, on) ==
    /\ call' = <<"create_target", i, on>>
    /\ InsertNew("targets", [id |-> i, enabled |-> on, created_at |-> clock])
\* The caller sends back the row it read, with changes.
update_target(i, on) ==
    /\ call' = <<"update_target", i, on>>
    /\ Replace("targets", [id |-> i, enabled |-> on,
                           created_at |-> IF i \in DOMAIN mem.targets
                                          THEN mem.targets[i].created_at ELSE 0])
delete_target(i) == call' = <<"delete_target", i>> /\ RemoveRow("targets", i)

record_result(t, ts, status) ==
    /\ call' = <<"record_result", t, ts, status>>
    /\ Upsert("results", <<t, ts>>, [target |-> t, ts |-> ts, status |-> status], Ok(None))
ResultsOf(t) == Where(mem.results, LAMBDA r : r.target = t)
newest_first(r) == -r.ts
list_results(t, limit) ==
    /\ call' = <<"list_results", t, limit>>
    /\ Answer({Ok(FirstOf(s, limit)) : s \in Ascending(ResultsOf(t), newest_first)})
list_recent_results(limit) ==
    /\ call' = <<"list_recent_results", limit>>
    /\ Answer({Ok(FirstOf(s, limit)) : s \in Ascending(Range(mem.results), newest_first)})
recent_results_for_targets(ts, limit) ==
    /\ call' = <<"recent_results_for_targets", ts, limit>>
    /\ Read(Ok([t \in ts |->
          FirstOf(CHOOSE s \in Ascending(ResultsOf(t), newest_first) : TRUE, limit)]))
delete_old_check_results(before) ==
    /\ call' = <<"delete_old_check_results", before>>
    /\ Purge("results", LAMBDA r : r.ts < before)

Between(t, from, to) == {r \in ResultsOf(t) : from <= r.ts /\ r.ts <= to}
Failures(rows) == Cardinality({r \in rows : r.status # "up"})
UptimeOf(rows) == IF rows = {} THEN None
                  ELSE [total |-> Cardinality(rows), failed |-> Failures(rows)]
uptime(t, from, to) ==
    /\ call' = <<"uptime", t, from, to>>
    /\ Read(Ok(UptimeOf(Between(t, from, to))))

\* How many results fall into each of n buckets; the last bucket takes the
\* results at its closing end.
latency_buckets(t, from, to, n) ==
    LET secs == IF to - from > 1 THEN to - from ELSE 1
        index(r) == LET k == ((r.ts - from) * n) \div secs IN IF k < n THEN k ELSE n - 1
    IN  /\ call' = <<"latency_buckets", t, from, to, n>>
        /\ Read(Ok([i \in 0..(n - 1) |->
                      Cardinality({r \in Between(t, from, to) : index(r) = i})]))

check_status_to_day_state(status) ==
    CASE status = "up" -> "operational"
      [] status = "degraded" -> "degraded"
      [] status \in {"down", "error"} -> "major_outage"
day_state_rank(state) ==
    CASE state = "operational" -> 0 [] state = "degraded" -> 2 [] state = "major_outage" -> 4
\* One entry per day: the worst state seen, no_data where nothing was seen.
day_strip(rows, from, to) ==
    [d \in (from \div DayTicks)..(to \div DayTicks) |->
       LET states == {check_status_to_day_state(r.status) :
                        r \in {x \in rows : x.ts \div DayTicks = d}}
       IN  IF states = {} THEN "no_data"
           ELSE CHOOSE s \in states : \A o \in states : day_state_rank(o) <= day_state_rank(s)]
component_day_history(t, from, to) ==
    /\ call' = <<"component_day_history", t, from, to>>
    /\ Read(Ok(day_strip(Between(t, from, to), from, to)))
LatestOf(t) == IF ResultsOf(t) = {} THEN None
               ELSE CHOOSE r \in ResultsOf(t) : \A o \in ResultsOf(t) : o.ts <= r.ts
StripStart == IF clock > StripDays * DayTicks THEN clock - StripDays * DayTicks ELSE 0
dashboard_rollup ==
    /\ call' = <<"dashboard_rollup">>
    /\ Read(Ok([t \in DOMAIN mem.targets |->
          [enabled |-> mem.targets[t].enabled,
           latest  |-> LatestOf(t),
           day     |-> UptimeOf({r \in ResultsOf(t) : r.ts >= clock - DayTicks}),
           history |-> day_strip({r \in ResultsOf(t) : r.ts >= StripStart},
                                 StripStart, clock)]]))
Tally(targets, Status(_)) ==
    [counts   |-> [s \in Statuses |-> Cardinality({t \in DOMAIN targets :
                                                     targets[t].enabled /\ Status(t) = s})],
     disabled |-> Cardinality({t \in DOMAIN targets : ~targets[t].enabled}),
     total    |-> Cardinality(DOMAIN targets)]
dashboard_summary ==
    /\ call' = <<"dashboard_summary">>
    /\ Read(Ok(Tally(mem.targets,
                     LAMBDA t : IF LatestOf(t) = None THEN None ELSE LatestOf(t).status)))

record_heartbeat_ping(t) ==
    call' = <<"record_heartbeat_ping", t>> /\ Upsert("pings", t, clock, Ok(None))
get_last_heartbeat_ping(t) ==
    call' = <<"get_last_heartbeat_ping", t>> /\ Read(Ok(Lookup("pings", t)))
set_domain_expiry_state(t, at) ==
    call' = <<"set_domain_expiry_state", t, at>> /\ Upsert("expiry", t, at, Ok(None))
get_domain_expiry_state(t) ==
    call' = <<"get_domain_expiry_state", t>> /\ Read(Ok(Lookup("expiry", t)))

----------------------------------------------------------------------------
(* Incidents.                                                              *)

started_at(r) == r.started_at
list_incidents == /\ call' = <<"list_incidents">>
                  /\ Answer({Ok(FirstOf(s, 200)) : s \in Descending(Range(mem.incidents), started_at)})
get_incident(i) == call' = <<"get_incident", i>> /\ GetRow("incidents", i)
create_incident(i, t) ==
    /\ call' = <<"create_incident", i, t>>
    /\ InsertNew("incidents", [id |-> i, target |-> t, started_at |-> clock,
                               ended_at |-> None, severity |-> "minor", notes |-> 0])
\* The caller sends back the incident it read with a new severity or end.
edited(incidents, i, severity, ended) ==
    IF i \in DOMAIN incidents
    THEN [incidents[i] EXCEPT !.severity = severity, !.ended_at = ended]
    ELSE [id |-> i, target |-> i, started_at |-> 0, ended_at |-> ended,
          severity |-> severity, notes |-> 0]
update_incident(i, severity, ended) ==
    /\ call' = <<"update_incident", i, severity, ended>>
    /\ Replace("incidents", edited(mem.incidents, i, severity, ended))
add_incident_update(i) ==
    /\ call' = <<"add_incident_update", i>>
    /\ IF i \notin DOMAIN mem.incidents THEN Read(NotFound)
       ELSE LET new == [mem.incidents[i] EXCEPT !.notes = @ + 1]
            IN  Upsert("incidents", i, new, Ok(new))
find_open_incident_for_target(t) ==
    LET open == Where(mem.incidents, LAMBDA r : r.target = t /\ r.ended_at = None)
    IN  /\ call' = <<"find_open_incident_for_target", t>>
        /\ Answer({Ok(IF s = <<>> THEN None ELSE s[1]) : s \in Descending(open, started_at)})
apply_incident_ops(i, transition, severity, note) ==
    /\ call' = <<"apply_incident_ops", i, transition, severity, note>>
    /\ IF i \notin DOMAIN mem.incidents THEN Read(NotFound)
       ELSE IF transition = "other" THEN Read(Conflict)
       ELSE IF /\ transition # None
               /\ next_state(mem.incidents[i].ended_at, transition) = None
            THEN Read(Conflict)
       ELSE LET new == patched(mem.incidents[i], transition, severity, note, clock)
            IN  Upsert("incidents", i, new, Ok(new))
incident_metrics(window) ==
    LET rows == Where(mem.incidents, LAMBDA r : r.started_at >= clock - window)
        open == {r \in rows : r.ended_at = None}
    IN  /\ call' = <<"incident_metrics", window>>
        /\ Read(Ok([total |-> Cardinality(rows), open |-> Cardinality(open),
                    resolved |-> Cardinality(rows \ open)]))

----------------------------------------------------------------------------
(* Status pages, their components and assets.                              *)

list_status_pages == /\ call' = <<"list_status_pages">>
                     /\ Answer(Lists(Ascending(Range(mem.pages), created_at)))
get_status_page(p) == call' = <<"get_status_page", p>> /\ GetRow("pages", p)
create_status_page(p, slug) ==
    /\ call' = <<"create_status_page", p, slug>>
    /\ InsertNew("pages", [id |-> p, slug |-> slug, created_at |-> clock])
update_status_page(p, slug) ==
    /\ call' = <<"update_status_page", p, slug>>
    /\ Replace("pages", [id |-> p, slug |-> slug,
                         created_at |-> IF p \in DOMAIN mem.pages
                                        THEN mem.pages[p].created_at ELSE 0])
delete_status_page(p) == call' = <<"delete_status_page", p>> /\ RemoveRow("pages", p)

list_status_page_components(p) ==
    /\ call' = <<"list_status_page_components", p>>
    /\ Answer(Lists(Ascending({mem.components[k] : k \in {x \in DOMAIN mem.components : x[1] = p}},
                              LAMBDA c : c.sort_order)))
set_status_page_component(p, t, order) ==
    /\ call' = <<"set_status_page_component", p, t, order>>
    /\ Upsert("components", <<p, t>>, [target |-> t, sort_order |-> order], Ok(None))
delete_status_page_component(p, t) ==
    /\ call' = <<"delete_status_page_component", p, t>>
    /\ RemoveIfThere("components", <<p, t>>)
\* Each listed component that is bound takes its position as its sort order.
Position(list, t) == Max({i \in DOMAIN list : list[i] = t}) - 1
reorder_status_page_components(p, list) ==
    /\ call' = <<"reorder_status_page_components", p, list>>
    /\ Write("components",
             [k \in DOMAIN mem.components |->
                IF k[1] = p /\ k[2] \in ToSet(list)
                THEN [mem.components[k] EXCEPT !.sort_order = Position(list, k[2])]
                ELSE mem.components[k]], Ok(None))

\* A replaced asset keeps the time it was first uploaded.
uploaded(assets, k, content, now) ==
    [content |-> content, updated_at |-> now,
     created_at |-> IF k \in DOMAIN assets THEN assets[k].created_at ELSE now]
upload_page_asset(p, slot, content) ==
    LET new == uploaded(mem.assets, <<p, slot>>, content, clock)
    IN  /\ call' = <<"upload_page_asset", p, slot, content>>
        /\ Upsert("assets", <<p, slot>>, new, Ok(new))
get_page_asset(p, slot) ==
    call' = <<"get_page_asset", p, slot>> /\ Read(Ok(Lookup("assets", <<p, slot>>)))
delete_page_asset(p, slot) ==
    call' = <<"delete_page_asset", p, slot>> /\ RemoveIfThere("assets", <<p, slot>>)
list_page_assets(p) ==
    /\ call' = <<"list_page_assets", p>>
    /\ Read(Ok(Restrict(mem.assets, {k \in DOMAIN mem.assets : k[1] = p})))

----------------------------------------------------------------------------
(* Maintenance windows and silence rules.                                  *)

starts_at(r) == r.starts_at
list_maintenance_windows(filter) ==
    /\ call' = <<"list_maintenance_windows", filter>>
    /\ Answer(Lists(Ascending(Where(mem.windows, LAMBDA w : InWindow(w, filter, clock)), starts_at)))
get_maintenance_window(i) == call' = <<"get_maintenance_window", i>> /\ GetRow("windows", i)
create_maintenance_window(w) ==
    call' = <<"create_maintenance_window", w>> /\ InsertNew("windows", w)
update_maintenance_window(w) ==
    call' = <<"update_maintenance_window", w>> /\ Replace("windows", w)
delete_maintenance_window(i) ==
    call' = <<"delete_maintenance_window", i>> /\ RemoveRow("windows", i)
is_target_in_active_maintenance(t) ==
    /\ call' = <<"is_target_in_active_maintenance", t>>
    /\ Read(Ok(\E w \in Range(mem.windows) : IsActive(w, clock) /\ t \in w.components))

list_silence_rules(filter) ==
    /\ call' = <<"list_silence_rules", filter>>
    /\ Answer(Lists(Ascending(Where(mem.silences, LAMBDA s : InWindow(s, filter, clock)), starts_at)))
get_silence_rule(i) == call' = <<"get_silence_rule", i>> /\ GetRow("silences", i)
\* The id is a fresh Uuid; the trait leaves the window of a new rule unchecked.
create_silence_rule(i, t, from, to) ==
    /\ call' = <<"create_silence_rule", i, t, from, to>>
    /\ i \notin DOMAIN mem.silences
    /\ InsertNew("silences", [id |-> i, target |-> t, starts_at |-> from, ends_at |-> to])
\* A patch that would leave an empty window is refused before it is applied.
update_silence_rule(i, t, from, to) ==
    /\ call' = <<"update_silence_rule", i, t, from, to>>
    /\ IF i \notin DOMAIN mem.silences THEN Read(NotFound)
       ELSE LET old == mem.silences[i]
                new == [old EXCEPT !.target = t,
                          !.starts_at = IF from = None THEN @ ELSE from,
                          !.ends_at = IF to = None THEN @ ELSE to]
            IN  IF new.starts_at >= new.ends_at THEN Read(InvalidInput)
                ELSE Upsert("silences", i, new, Ok(new))
delete_silence_rule(i) == call' = <<"delete_silence_rule", i>> /\ RemoveRow("silences", i)
list_active_silences_for_target(t) ==
    /\ call' = <<"list_active_silences_for_target", t>>
    /\ Answer(Lists(Ascending(Where(mem.silences,
                LAMBDA s : IsActive(s, clock) /\ s.target \in {None, t}), starts_at)))

----------------------------------------------------------------------------
(* Subscribers and their deliveries.                                       *)

list_subscribers(p) ==
    /\ call' = <<"list_subscribers", p>>
    /\ Answer(Lists(Ascending(Where(mem.subscribers, LAMBDA s : s.page = p), created_at)))
create_subscriber(i, p) ==
    /\ call' = <<"create_subscriber", i, p>>
    /\ InsertNew("subscribers", [id |-> i, page |-> p, verified_at |-> None,
                                 created_at |-> clock])
verify_subscriber(i) ==
    /\ call' = <<"verify_subscriber", i>>
    /\ IF i \notin DOMAIN mem.subscribers THEN Read(NotFound)
       ELSE LET new == [mem.subscribers[i] EXCEPT !.verified_at = clock]
            IN  Upsert("subscribers", i, new, Ok(new))
delete_subscriber(i) == call' = <<"delete_subscriber", i>> /\ RemoveRow("subscribers", i)
delete_unverified_subscribers(before) ==
    /\ call' = <<"delete_unverified_subscribers", before>>
    /\ Purge("subscribers", LAMBDA s : s.verified_at = None /\ s.created_at < before)

enqueue_delivery(i) ==
    /\ call' = <<"enqueue_delivery", i>>
    /\ i \notin DOMAIN mem.deliveries
    /\ Upsert("deliveries", i, [id |-> i, status |-> "pending", attempts |-> 0,
          created_at |-> clock, sent_at |-> None, next_attempt_at |-> clock], Ok(None))
Claimable(d, now) ==
    \/ d.status = "pending"
    \/ d.status = "failed" /\ d.next_attempt_at # None /\ d.next_attempt_at <= now
list_pending_deliveries(limit) ==
    /\ call' = <<"list_pending_deliveries", limit>>
    /\ Answer({Ok(FirstOf(s, limit)) :
          s \in Ascending(Where(mem.deliveries, LAMBDA d : Claimable(d, clock)), created_at)})
claim_delivery(i) ==
    /\ call' = <<"claim_delivery", i>>
    /\ IF i \in DOMAIN mem.deliveries /\ Claimable(mem.deliveries[i], clock)
       THEN LET new == [mem.deliveries[i] EXCEPT !.status = "claimed"]
            IN  Upsert("deliveries", i, new, Ok(new))
       ELSE Read(Ok(None))
mark_delivery(i, status) ==
    /\ call' = <<"mark_delivery", i, status>>
    /\ IF i \notin DOMAIN mem.deliveries THEN Read(NotFound)
       ELSE Upsert("deliveries", i, [mem.deliveries[i] EXCEPT
              !.status = status, !.attempts = @ + 1,
              !.sent_at = IF status = "sent" THEN clock ELSE @,
              !.next_attempt_at =
                 IF status = "failed" THEN clock + Backoff(mem.deliveries[i].attempts + 1)
                 ELSE None], Ok(None))
delete_old_deliveries(before) ==
    /\ call' = <<"delete_old_deliveries", before>>
    /\ Purge("deliveries", LAMBDA d :
          /\ d.status \in {"sent", "dead_letter"}
          /\ (IF d.sent_at = None THEN d.created_at ELSE d.sent_at) < before)

----------------------------------------------------------------------------
(* Variables: a secret's value is never read back.                         *)

redacted(v) == IF v.secret THEN [v EXCEPT !.value = None] ELSE v
list_variables ==
    /\ call' = <<"list_variables">>
    /\ Answer(Lists(Ascending({redacted(v) : v \in Range(mem.variables)}, LAMBDA v : v.key)))
create_variable(v) ==
    /\ call' = <<"create_variable", v>>
    /\ v.id \notin DOMAIN mem.variables
    /\ IF \E o \in Range(mem.variables) : o.key = v.key THEN Read(Conflict)
       ELSE Upsert("variables", v.id, v, Ok(redacted(v)))
update_variable(v) ==
    /\ call' = <<"update_variable", v>>
    /\ IF v.id \notin DOMAIN mem.variables THEN Read(NotFound)
       ELSE Upsert("variables", v.id, v, Ok(redacted(v)))
delete_variable(i) == call' = <<"delete_variable", i>> /\ RemoveRow("variables", i)

----------------------------------------------------------------------------
(* Notification channels, their verification tokens and target bindings.   *)

list_notification_channels ==
    /\ call' = <<"list_notification_channels">>
    /\ Answer(Lists(Ascending(Range(mem.channels), created_at)))
get_notification_channel(i) ==
    call' = <<"get_notification_channel", i>> /\ GetRow("channels", i)
create_notification_channel(i) ==
    /\ call' = <<"create_notification_channel", i>>
    /\ i \notin DOMAIN mem.channels
    /\ InsertNew("channels", [id |-> i, config |-> 0, enabled |-> TRUE,
          disabled_reason |-> None, verified_at |-> None, created_at |-> clock])
\* Enabling a channel clears the reason it was disabled for.
channel_patch(c, config, enabled) ==
    [c EXCEPT !.config = IF config = None THEN @ ELSE config,
              !.enabled = IF enabled = None THEN @ ELSE enabled,
              !.disabled_reason = IF enabled = TRUE THEN None ELSE @]
ChangeChannel(i, new, answer) ==
    IF i \notin DOMAIN mem.channels THEN Read(NotFound)
    ELSE Upsert("channels", i, new, answer)
update_notification_channel(i, config, enabled) ==
    /\ call' = <<"update_notification_channel", i, config, enabled>>
    /\ ChangeChannel(i, channel_patch(mem.channels[i], config, enabled),
                     Ok(channel_patch(mem.channels[i], config, enabled)))
set_channel_verified(i) ==
    /\ call' = <<"set_channel_verified", i>>
    /\ ChangeChannel(i, [mem.channels[i] EXCEPT !.verified_at = clock], Ok(None))
set_channel_disabled_reason(i, reason) ==
    /\ call' = <<"set_channel_disabled_reason", i, reason>>
    /\ ChangeChannel(i, [mem.channels[i] EXCEPT !.disabled_reason = reason], Ok(None))
\* The bindings of the channel go with it.
delete_notification_channel(i) ==
    /\ call' = <<"delete_notification_channel", i>>
    /\ IF i \notin DOMAIN mem.channels THEN Read(NotFound)
       ELSE /\ mem' = [mem EXCEPT
                 !.channels = Restrict(@, DOMAIN @ \ {i}),
                 !.bindings = Restrict(@, {k \in DOMAIN @ : k[2] # i})]
            /\ reply' = Ok(None) /\ UNCHANGED clock
\* The hash of a random token is unique: it stands for the row's id.
create_channel_verification_token(h, c, expires) ==
    /\ call' = <<"create_channel_verification_token", h, c, expires>>
    /\ h \notin DOMAIN mem.tokens
    /\ Upsert("tokens", h, [channel |-> c, expires_at |-> expires, used_at |-> None], Ok(None))
Redeemable(t, now) == t.used_at = None /\ t.expires_at > now
consume_channel_verification_token(h) ==
    /\ call' = <<"consume_channel_verification_token", h>>
    /\ IF h \in DOMAIN mem.tokens /\ Redeemable(mem.tokens[h], clock)
       THEN Upsert("tokens", h, [mem.tokens[h] EXCEPT !.used_at = clock],
                   Ok(mem.tokens[h].channel))
       ELSE Read(Ok(None))
list_target_channels(t) ==
    /\ call' = <<"list_target_channels", t>>
    /\ Answer(Lists(Ascending({[channel |-> k[2], created_at |-> mem.bindings[k]] :
                                 k \in {x \in DOMAIN mem.bindings : x[1] = t}}, created_at)))
bind_target_channel(t, c) ==
    /\ call' = <<"bind_target_channel", t, c>>
    /\ IF <<t, c>> \in DOMAIN mem.bindings THEN Read(Ok(None))
       ELSE Upsert("bindings", <<t, c>>, clock, Ok(None))
unbind_target_channel(t, c) ==
    call' = <<"unbind_target_channel", t, c>> /\ RemoveIfThere("bindings", <<t, c>>)
unbind_channel_everywhere(c) ==
    /\ call' = <<"unbind_channel_everywhere", c>>
    /\ Write("bindings", Restrict(mem.bindings, {k \in DOMAIN mem.bindings : k[2] # c}), Ok(None))


----------------------------------------------------------------------------
(* Users, sessions, API tokens and magic links.  Ids, cookie hashes and    *)
(* token hashes are fresh random values; a prefix may be shared.           *)

create_user(i, email) ==
    /\ call' = <<"create_user", i, email>>
    /\ i \notin DOMAIN mem.users
    /\ IF \E u \in Range(mem.users) : u.email = email THEN Read(Conflict)
       ELSE LET new == [id |-> i, email |-> email, name |-> None, theme |-> 0,
                        last_seen_at |-> None]
            IN  Upsert("users", i, new, Ok(new))
get_user(i) == call' = <<"get_user", i>> /\ GetRow("users", i)
find_user_by_email(email) ==
    /\ call' = <<"find_user_by_email", email>>
    /\ LET found == Where(mem.users, LAMBDA u : u.email = email)
       IN  Answer(IF found = {} THEN {Ok(None)} ELSE {Ok(u) : u \in found})
count_users == call' = <<"count_users">> /\ Read(Ok(Cardinality(DOMAIN mem.users)))
user_patch(u, name, theme) ==
    [u EXCEPT !.name = IF name = None THEN @ ELSE name,
              !.theme = IF theme = None THEN @ ELSE theme]
update_user(i, name, theme) ==
    /\ call' = <<"update_user", i, name, theme>>
    /\ IF i \notin DOMAIN mem.users THEN Read(NotFound)
       ELSE LET new == user_patch(mem.users[i], name, theme)
            IN  Upsert("users", i, new, Ok(new))
touch_user(i) ==
    /\ call' = <<"touch_user", i>>
    /\ IF i \notin DOMAIN mem.users THEN Read(Ok(None))
       ELSE Upsert("users", i, [mem.users[i] EXCEPT !.last_seen_at = clock], Ok(None))

create_session(h, u, expires) ==
    /\ call' = <<"create_session", h, u, expires>>
    /\ InsertNew("sessions", [id |-> h, user |-> u, created_at |-> clock,
                              last_used_at |-> clock, expires_at |-> expires])
lookup_session(h) == call' = <<"lookup_session", h>> /\ Read(Ok(Lookup("sessions", h)))
touch_session(h) ==
    /\ call' = <<"touch_session", h>>
    /\ IF h \notin DOMAIN mem.sessions THEN Read(Ok(None))
       ELSE Upsert("sessions", h, [mem.sessions[h] EXCEPT !.last_used_at = clock], Ok(None))
delete_session(h) == call' = <<"delete_session", h>> /\ RemoveIfThere("sessions", h)
delete_other_sessions(u, keep) ==
    /\ call' = <<"delete_other_sessions", u, keep>>
    /\ Purge("sessions", LAMBDA s : s.user = u /\ s.id # keep)
list_sessions(u) ==
    /\ call' = <<"list_sessions", u>>
    /\ Answer(Lists(Descending(Where(mem.sessions, LAMBDA s : s.user = u), created_at)))
delete_expired_sessions(now) ==
    /\ call' = <<"delete_expired_sessions", now>>
    /\ Purge("sessions", LAMBDA s : s.expires_at < now)

create_api_token(i, u, prefix, expires) ==
    /\ call' = <<"create_api_token", i, u, prefix, expires>>
    /\ i \notin DOMAIN mem.api_tokens
    /\ InsertNew("api_tokens", [id |-> i, user |-> u, prefix |-> prefix, name |-> 0,
                    created_at |-> clock, last_used_at |-> None, expires_at |-> expires])
find_api_tokens_by_prefix(prefix) ==
    /\ call' = <<"find_api_tokens_by_prefix", prefix>>
    /\ Answer(Lists(Descending(Where(mem.api_tokens, LAMBDA t : t.prefix = prefix), created_at)))
list_api_tokens(u) ==
    /\ call' = <<"list_api_tokens", u>>
    /\ Answer(Lists(Descending(Where(mem.api_tokens, LAMBDA t : t.user = u), created_at)))
update_api_token(i, name) ==
    /\ call' = <<"update_api_token", i, name>>
    /\ IF i \notin DOMAIN mem.api_tokens THEN Read(NotFound)
       ELSE LET new == [mem.api_tokens[i] EXCEPT !.name = name]
            IN  Upsert("api_tokens", i, new, Ok(new))
touch_api_token(i) ==
    /\ call' = <<"touch_api_token", i>>
    /\ IF i \notin DOMAIN mem.api_tokens THEN Read(Ok(None))
       ELSE Upsert("api_tokens", i, [mem.api_tokens[i] EXCEPT !.last_used_at = clock], Ok(None))
delete_api_token(i) == call' = <<"delete_api_token", i>> /\ RemoveIfThere("api_tokens", i)
delete_api_tokens_for_user(u) ==
    /\ call' = <<"delete_api_tokens_for_user", u>>
    /\ Purge("api_tokens", LAMBDA t : t.user = u)
delete_expired_api_tokens(cutoff) ==
    /\ call' = <<"delete_expired_api_tokens", cutoff>>
    /\ Purge("api_tokens", LAMBDA t : t.expires_at # None /\ t.expires_at < cutoff)

create_magic_link(i, prefix, expires) ==
    /\ call' = <<"create_magic_link", i, prefix, expires>>
    /\ i \notin DOMAIN mem.links
    /\ InsertNew("links", [id |-> i, prefix |-> prefix, created_at |-> clock,
                           expires_at |-> expires, used_at |-> None])
find_magic_links_by_prefix(prefix) ==
    /\ call' = <<"find_magic_links_by_prefix", prefix>>
    /\ Answer(Lists(Descending(Where(mem.links,
                LAMBDA m : m.prefix = prefix /\ m.used_at = None), created_at)))
consume_magic_link(i) ==
    /\ call' = <<"consume_magic_link", i>>
    /\ IF i \in DOMAIN mem.links /\ mem.links[i].used_at = None
       THEN LET new == [mem.links[i] EXCEPT !.used_at = clock]
            IN  Upsert("links", i, new, Ok(new))
       ELSE Read(Ok(None))
delete_expired_magic_links(now) ==
    /\ call' = <<"delete_expired_magic_links", now>>
    /\ Purge("links", LAMBDA m : m.expires_at < now /\ m.used_at = None)

----------------------------------------------------------------------------
(* Escalation policies and states, on-call schedules and overrides.        *)

summary(p) == [id |-> p.id, steps |-> p.steps, created_at |-> p.created_at]
list_escalation_policies ==
    /\ call' = <<"list_escalation_policies">>
    /\ Answer(Lists(Ascending({summary(p) : p \in Range(mem.policies)}, created_at)))
get_escalation_policy(i) == call' = <<"get_escalation_policy", i>> /\ GetRow("policies", i)
upsert_escalation_policy(p) ==
    call' = <<"upsert_escalation_policy", p>> /\ Upsert("policies", p.id, p, Ok(p))
delete_escalation_policy(i) ==
    call' = <<"delete_escalation_policy", i>> /\ RemoveRow("policies", i)

get_escalation_state(i) ==
    call' = <<"get_escalation_state", i>> /\ Read(Ok(Lookup("states", i)))
upsert_escalation_state(s) ==
    call' = <<"upsert_escalation_state", s>> /\ Upsert("states", s.id, s, Ok(None))
list_due_escalation_states(now) ==
    /\ call' = <<"list_due_escalation_states", now>>
    /\ Answer(Lists(Ascending(Where(mem.states, LAMBDA s : ~s.acked /\ s.next_check_at <= now),
                              LAMBDA s : s.next_check_at)))
ack_escalation_state(i) ==
    /\ call' = <<"ack_escalation_state", i>>
    /\ IF i \notin DOMAIN mem.states THEN Read(NotFound)
       ELSE Upsert("states", i, [mem.states[i] EXCEPT !.acked = TRUE], Ok(None))
delete_escalation_state(i) ==
    call' = <<"delete_escalation_state", i>> /\ RemoveIfThere("states", i)

overrides_for_schedule(s) ==
    Descending(Where(mem.overrides, LAMBDA o : o.schedule = s), starts_at)
list_on_call_schedules ==
    /\ call' = <<"list_on_call_schedules">>
    /\ Answer(Lists(Ascending(Range(mem.schedules), created_at)))
get_on_call_schedule(i) ==
    /\ call' = <<"get_on_call_schedule", i>>
    /\ IF i \notin DOMAIN mem.schedules THEN Read(NotFound)
       ELSE Answer({Ok(<<mem.schedules[i], s>>) : s \in overrides_for_schedule(i)})
upsert_on_call_schedule(s) ==
    call' = <<"upsert_on_call_schedule", s>> /\ Upsert("schedules", s.id, s, Ok(s))
\* The overrides of the schedule go with it.
delete_on_call_schedule(i) ==
    /\ call' = <<"delete_on_call_schedule", i>>
    /\ IF i \notin DOMAIN mem.schedules THEN Read(NotFound)
       ELSE /\ mem' = [mem EXCEPT !.schedules = Restrict(@, DOMAIN @ \ {i}),
                                  !.overrides = Without(@, LAMBDA o : o.schedule = i)]
            /\ reply' = Ok(None) /\ UNCHANGED clock
list_on_call_overrides(s) ==
    call' = <<"list_on_call_overrides", s>> /\ Answer(Lists(overrides_for_schedule(s)))
create_on_call_override(i, s, from) ==
    /\ call' = <<"create_on_call_override", i, s, from>>
    /\ InsertNew("overrides", [id |-> i, schedule |-> s, starts_at |-> from])
delete_on_call_override(i) ==
    call' = <<"delete_on_call_override", i>> /\ RemoveRow("overrides", i)

----------------------------------------------------------------------------
(* Postmortems and monitor share links.                                    *)

get_postmortem(i) == call' = <<"get_postmortem", i>> /\ Read(Ok(Lookup("postmortems", i)))
\* An edit keeps the creation time and does not unpublish.
written(postmortems, i, body, now) ==
    IF i \in DOMAIN postmortems
    THEN [postmortems[i] EXCEPT !.body = body, !.updated_at = now]
    ELSE [id |-> i, body |-> body, created_at |-> now, updated_at |-> now,
          published_at |-> None]
upsert_postmortem(i, body) ==
    LET new == written(mem.postmortems, i, body, clock)
    IN  call' = <<"upsert_postmortem", i, body>> /\ Upsert("postmortems", i, new, Ok(new))
Publication(i, at) ==
    IF i \notin DOMAIN mem.postmortems THEN Read(NotFound)
    ELSE LET new == [mem.postmortems[i] EXCEPT !.published_at = at, !.updated_at = clock]
         IN  Upsert("postmortems", i, new, Ok(new))
publish_postmortem(i) == call' = <<"publish_postmortem", i>> /\ Publication(i, clock)
unpublish_postmortem(i) == call' = <<"unpublish_postmortem", i>> /\ Publication(i, None)
delete_postmortem(i) == call' = <<"delete_postmortem", i>> /\ RemoveIfThere("postmortems", i)

list_monitor_shares(t) ==
    /\ call' = <<"list_monitor_shares", t>>
    /\ Answer(Lists(Descending(Where(mem.shares, LAMBDA s : s.target = t), created_at)))
create_monitor_share(i, t, expires) ==
    /\ call' = <<"create_monitor_share", i, t, expires>>
    /\ i \notin DOMAIN mem.shares
    /\ InsertNew("shares", [id |-> i, target |-> t, created_at |-> clock,
                            expires_at |-> expires, views |-> 0, viewed_at |-> None])
delete_monitor_share(i) == call' = <<"delete_monitor_share", i>> /\ RemoveIfThere("shares", i)
\* Every page view of a live link counts.
Live(s, now) == s.expires_at = None \/ s.expires_at > now
resolve_monitor_share(i) ==
    /\ call' = <<"resolve_monitor_share", i>>
    /\ IF i \in DOMAIN mem.shares /\ Live(mem.shares[i], clock)
       THEN Upsert("shares", i, [mem.shares[i] EXCEPT !.views = @ + 1, !.viewed_at = clock],
                   Ok(mem.shares[i].target))
       ELSE Read(Ok(None))

ping == call' = <<"ping">> /\ Read(Ok(None))
TimePasses == clock' = clock + 1 /\ UNCHANGED <<mem, call, reply>>

----------------------------------------------------------------------------
(* The calls a caller may make, one group per part of the trait.           *)

TargetCalls ==
    \/ list_targets
    \/ \E i \in Ids : get_target(i) \/ delete_target(i)
    \/ \E i \in Ids, on \in BOOLEAN : create_target(i, on) \/ update_target(i, on)
BeatCalls ==
    \E t \in Ids : \/ record_heartbeat_ping(t) \/ get_last_heartbeat_ping(t)
                   \/ get_domain_expiry_state(t)
                   \/ \E at \in Times : set_domain_expiry_state(t, at)
ResultCalls ==
    \/ \E t \in Ids, ts \in Times, s \in Statuses : record_result(t, ts, s)
    \/ \E t \in Ids, on \in BOOLEAN : update_target(t, on)
    \/ \E n \in {1, 2} : \/ list_recent_results(n) \/ \E t \in Ids : list_results(t, n)
                         \/ \E ts \in SUBSET Ids : recent_results_for_targets(ts, n)
    \/ \E before \in Times : delete_old_check_results(before)
    \/ \E t \in Ids, to \in Times : \E from \in 0..to :
          \/ uptime(t, from, to) \/ component_day_history(t, from, to)
          \/ \E n \in {1, 2} : latency_buckets(t, from, to, n)
    \/ dashboard_rollup \/ dashboard_summary
IncidentCalls ==
    \/ list_incidents
    \/ \E i \in Ids : \/ get_incident(i) \/ add_incident_update(i)
                      \/ find_open_incident_for_target(i) \/ incident_metrics(i)
    \/ \E i, t \in Ids : create_incident(i, t)
    \/ \E i \in Ids, sev \in {"minor", "major"}, e \in OptionalTimes : update_incident(i, sev, e)
    \/ \E i \in Ids, tr \in Transitions, sev \in {None, "major"}, note \in BOOLEAN :
          apply_incident_ops(i, tr, sev, note)
PageCalls ==
    \/ list_status_pages
    \/ \E p \in Ids : get_status_page(p) \/ delete_status_page(p)
    \/ \E p, slug \in Ids : create_status_page(p, slug) \/ update_status_page(p, slug)
ComponentCalls ==
    \/ \E p \in Ids : list_status_page_components(p)
    \/ \E p, t \in Ids : delete_status_page_component(p, t)
    \/ \E p, t \in Ids, order \in {0, 1} : set_status_page_component(p, t, order)
    \/ \E p \in Ids, list \in SetToSeqs(Ids) : reorder_status_page_components(p, list)
AssetCalls ==
    \/ \E p \in Ids : list_page_assets(p)
    \/ \E p \in Ids, slot \in {"logo"} :
          \/ get_page_asset(p, slot) \/ delete_page_asset(p, slot)
          \/ \E content \in {1, 2} : upload_page_asset(p, slot, content)
WindowCalls ==
    \/ \E f \in Filters : list_maintenance_windows(f)
    \/ \E i \in Ids : \/ get_maintenance_window(i) \/ delete_maintenance_window(i)
                      \/ is_target_in_active_maintenance(i)
    \/ \E w \in Windows : create_maintenance_window(w) \/ update_maintenance_window(w)
SilenceCalls ==
    \/ \E f \in Filters : list_silence_rules(f)
    \/ \E i \in Ids : \/ get_silence_rule(i) \/ delete_silence_rule(i)
                      \/ list_active_silences_for_target(i)
    \/ \E i \in Ids, t \in Ids \cup {None}, from, to \in Times : create_silence_rule(i, t, from, to)
    \/ \E i \in Ids, t \in Ids \cup {None}, from, to \in OptionalTimes :
          update_silence_rule(i, t, from, to)
SubscriberCalls ==
    \/ \E i \in Ids : list_subscribers(i) \/ verify_subscriber(i) \/ delete_subscriber(i)
    \/ \E i, p \in Ids : create_subscriber(i, p)
    \/ \E before \in Times : delete_unverified_subscribers(before)
DeliveryCalls ==
    \/ \E i \in Ids : enqueue_delivery(i) \/ claim_delivery(i)
    \/ \E n \in {1, 2} : list_pending_deliveries(n)
    \/ \E i \in Ids, s \in {"sent", "failed", "dead_letter"} : mark_delivery(i, s)
    \/ \E before \in Times : delete_old_deliveries(before)
VariableCalls ==
    \/ list_variables
    \/ \E i \in Ids : delete_variable(i)
    \/ \E v \in Variables : create_variable(v) \/ update_variable(v)
ChannelCalls ==
    \/ list_notification_channels
    \/ \E i \in Ids : \/ get_notification_channel(i) \/ create_notification_channel(i)
                      \/ delete_notification_channel(i) \/ set_channel_verified(i)
                      \/ set_channel_disabled_reason(i, 1)
    \/ \E i \in Ids, p \in ChannelPatches : update_notification_channel(i, p[1], p[2])
BindingCalls ==
    \/ \E i \in Ids : \/ create_notification_channel(i) \/ delete_notification_channel(i)
                      \/ list_target_channels(i) \/ unbind_channel_everywhere(i)
    \/ \E t, c \in Ids : bind_target_channel(t, c) \/ unbind_target_channel(t, c)
TokenCalls ==
    \/ \E h \in Ids : consume_channel_verification_token(h)
    \/ \E h, c \in Ids, e \in Times : create_channel_verification_token(h, c, e)
UserCalls ==
    \/ count_users
    \/ \E i \in Ids : get_user(i) \/ find_user_by_email(i) \/ touch_user(i)
    \/ \E i, email \in Ids : create_user(i, email)
    \/ \E i \in Ids, p \in UserPatches : update_user(i, p[1], p[2])
SessionCalls ==
    \/ \E i \in Ids : \/ lookup_session(i) \/ touch_session(i) \/ delete_session(i) \/ list_sessions(i)
    \/ \E h, u \in Ids : \/ delete_other_sessions(u, h)
                         \/ \E e \in Times : create_session(h, u, e)
    \/ \E now \in Times : delete_expired_sessions(now)
ApiTokenCalls ==
    \/ \E i \in Ids : \/ find_api_tokens_by_prefix(i) \/ list_api_tokens(i) \/ update_api_token(i, 1)
                      \/ touch_api_token(i) \/ delete_api_token(i) \/ delete_api_tokens_for_user(i)
    \/ \E i, u \in Ids, e \in {None, 1} : create_api_token(i, u, 1, e)
    \/ \E cutoff \in Times : delete_expired_api_tokens(cutoff)
LinkCalls ==
    \/ \E i \in Ids : find_magic_links_by_prefix(i) \/ consume_magic_link(i)
    \/ \E i, prefix \in Ids, e \in Times : create_magic_link(i, prefix, e)
    \/ \E now \in Times : delete_expired_magic_links(now)
EscalationCalls ==
    \/ list_escalation_policies
    \/ \E i \in Ids : \/ get_escalation_policy(i) \/ delete_escalation_policy(i)
                      \/ get_escalation_state(i) \/ ack_escalation_state(i) \/ delete_escalation_state(i)
    \/ \E p \in Policies : upsert_escalation_policy(p)
    \/ \E s \in States : upsert_escalation_state(s)
    \/ \E now \in Times : list_due_escalation_states(now)
OnCallCalls ==
    \/ list_on_call_schedules
    \/ \E i \in Ids : \/ get_on_call_schedule(i) \/ delete_on_call_schedule(i)
                      \/ list_on_call_overrides(i) \/ delete_on_call_override(i)
    \/ \E s \in Schedules : upsert_on_call_schedule(s)
    \/ \E i, s \in Ids, from \in Times : create_on_call_override(i, s, from)
PostmortemCalls ==
    \/ \E i \in Ids : \/ get_postmortem(i) \/ publish_postmortem(i) \/ unpublish_postmortem(i)
                      \/ delete_postmortem(i)
    \/ \E i \in Ids, body \in {1, 2} : upsert_postmortem(i, body)
ShareCalls ==
    \/ ping
    \/ \E i \in Ids : list_monitor_shares(i) \/ delete_monitor_share(i) \/ resolve_monitor_share(i)
    \/ \E i, t \in Ids, e \in {None, 1} : create_monitor_share(i, t, e)

MemNext ==
    \/ TimePasses
    \/ ChannelCalls \/ OnCallCalls \/ IncidentCalls \/ ApiTokenCalls \/ BindingCalls \/ ResultCalls
    \/ SessionCalls \/ SilenceCalls \/ LinkCalls \/ UserCalls \/ EscalationCalls \/ PostmortemCalls
    \/ DeliveryCalls \/ SubscriberCalls \/ ShareCalls \/ TokenCalls \/ BeatCalls \/ TargetCalls
    \/ PageCalls \/ AssetCalls \/ ComponentCalls \/ WindowCalls \/ VariableCalls
MemSpec == MemInit /\ [][MemNext]_memVars
==============================================================================
