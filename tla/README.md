# A TLA+ model of the statuspage server

`statuspage` is a self-hosted status page: a server that probes targets, turns runs of
failures into incidents, tells subscribers, and pages people until somebody
acknowledges. This directory models that server: its background tasks, the handlers that
race with them, the layers around a handler and the storage below, checks the models
with TLC and proves the most important properties with TLAPS.

Paths below are relative to the repository; `S/` stands for
`bin/status-server/src/`.

## 1. The system

All state is in one DuckDB database (`crates/storage/src/duckdb.rs`). A storage
call runs on a blocking thread under the mutex of the one connection: **a single
call is atomic, and anything may happen between two calls of the same task**. The
background tasks, spawned by `S/main.rs` as Tokio tasks, and the HTTP handlers
meet only in the tables.

| Component | State | Operations | Meets |
|---|---|---|---|
| Scheduler, `S/scheduler.rs` | the due table, the target list it last refreshed | probe the due targets one by one, `record_result`, `evaluate_target` | incident writer (call) |
| Check-now, `S/api/targets.rs` | none | probe, record, evaluate | incident writer (call) |
| Incident writer, `S/incident_writer.rs` | locals of one evaluation | per-probe evaluation; a sweep of all targets every 30 s; open, close | results, incidents; enqueues deliveries, seeds and deletes escalation rows |
| Operators' API, `S/api/incidents.rs`, `S/api/incident_ops.rs` | none | create, patch, add update, acknowledge, resolve, reopen | incidents, escalation rows |
| Escalation engine, `S/escalation_engine.rs`, `crates/core/src/domain/escalation_policy.rs` | `incident_escalation_state` | every 30 s: list due rows; per row load, decide, page, upsert or delete | incidents, policies, notifiers |
| Policy API, `S/api/escalation_policies.rs` | `escalation_policies` | validate, upsert, delete | the engine's next read |
| Subscriber dispatch, `S/subscriber_dispatch.rs` | `subscriber_deliveries` | list, claim, dispatch, mark | writer enqueues, cleanup purges |
| Cleanup, `S/cleanup.rs` | none | retention deletes | every table |
| Maintenance windows | `maintenance_windows` | create, end | the writer looks before it evaluates |
| Probes, `S/probes/`, `crates/core/src/domain/check.rs` | none | one verdict per kind of check | called by scheduler, check-now, POST /targets/test |
| Channels and silences, `S/incident_writer/channel_dispatch.rs`, `S/api/notification_channels.rs`, `crates/core/src/domain/notification_channel/`, `S/notifier/` | `notification_channels`, `silence_rules`, confirmation links | CRUD, verify, decline, dispatch | the writer calls the dispatch |
| On-call, `crates/core/src/domain/on_call.rs`, `S/api/on_call_schedules.rs` | schedules, overrides | upsert, delete, who is on call | the engine's targets |
| Public status page, `S/public_status_cache.rs`, `S/api/public_api.rs` | snapshot with a TTL | single-flight fill, invalidate | the console's handlers invalidate it |
| Idempotency, bulk API, `S/idempotency.rs`, `S/api/bulk.rs` | per-key locks, replay cache | look up, queue, run the items, store | targets |
| Rate limiter, `S/rate_limit.rs` | token buckets | take, refuse, evict | every request |
| Authentication, `S/auth/` | accounts, sessions, magic links | bootstrap, request, redeem, touch, log out | every API call |
| Storage, `crates/storage/src/duckdb.rs`, `memory.rs` | all tables | the Storage trait | everything |
| Storage cache, `crates/storage/src/cached.rs` | target rows with a time to live | read through, fill or drop on a write | wraps a Storage |

What is hard in this code, and what makes each part correct:

* **Check-then-act over two storage calls.** The writer looks for an open
  incident and creates one in another call; three kinds of task do this for the
  same target. Correct: duplicates are bounded, and a recovery removes them all.
* **Snapshots used late.** The engine pages from a row it listed earlier and
  writes that whole row back. The sweep decides on windows it read before it
  worked through other targets. PATCH writes back an incident it read earlier.
  Correct: what is written rests on recorded facts, an acknowledgement holds, an
  ended incident is not paged on.
* **Failure between two effects.** A message is sent and then marked; an incident
  is created and then announced and seeded. Correct: no notification is sent
  twice; a lost step is made up for by a later sweep.
* **Cached answers.** A snapshot, a target row, a replayed response or a target
  list is computed before a write and stored or used after it. Correct: what is
  served is a bounded time old, and a finished write shows.
* **Limits and edges.** Tokens that refill while a janitor evicts, seconds rounded
  from fractions, days that have 23 hours, certificates that expire today.
* **Progress.** Backlogs larger than a batch, retries, ladders that repeat:
  everything ends.

`PROJECT.json` lists each hazard at its line, with the properties that cover it.

## 2. The modules

One storage call (or one dispatch to a transport) whose result or effect the models
keep is one step; a call whose result they leave out (the day strips of the public
page, the names of the targets in a listed window) belongs to the step before it, and
the header of the module says so. Timestamps in
tables are kept where their order matters (check results, incidents); timers are
reduced to whether they have elapsed. What a message says, who exactly is paged
and over which channel is left out.

### SubscriberDispatch: the delivery queue

`status`, `attempts`, `retryDue` are columns of `subscriber_deliveries`
(`retryDue`: `next_attempt_at` has passed). `stage`, `pending`, `claimed`, `seen` are
the locals of `sweep`: the listed rows, the claimed one, and the attempts read back
by the claim. `StartSweep` is `list_pending_deliveries`; `Claim`/`ClaimLost` is
`claim_delivery` (an UPDATE guarded by the same WHERE as the list);
`DispatchOk`/`DispatchErr` is the transport; `MarkSent`/`MarkFailed` is
`mark_delivery`, with `FailedStatus` choosing between a retry and a dead letter.
`ClaimFails`, `MarkFails` and `StopWorker` are storage errors and the death of the
worker. `EnqueueDelivery` is the writer's, `DeleteOldDeliveries` the cleanup's.
`main.rs` spawns one worker; the run has two, because nothing stops two
processes from sharing the table and the claim exists for that.

`DeliveryQueue` is what all this promises, without workers and claims: an item is
put, offered, taken, given up after at least `Due` offers, or lost, and after the last
three left alone. `Outcome` maps a row to it by its status, its counters and
whether somebody holds it; a row that is claimed and held by nobody is lost.
`ActsAsQueue` is the refinement, with `Due` = `MAX_ATTEMPTS`. The queue sets no upper
bound on the offers: the maximum the code documents is one less than the tries it
makes, which is what the run `dispatch_attempts` shows.

### EscalationEngine: the ladder

`row` is `incident_escalation_state` (`due`: `next_check_at` has passed),
`policy` the policy the incident's target points to, `followUp` the second storage
call of a handler (the writer's seed or delete after an open or close, PATCH
/ops' acknowledge or delete). The engine's locals are `pc`, `batch`, `cur`,
`decision`. `Sweep` lists due, unacknowledged rows; `LoadIncident` drops the row of
an ended incident; `Decide` runs `next_step` on the policy read now; `Page` calls
the targets; `Persist` upserts the **snapshot** with the new rung. A step of a
policy is its level, since `next_step` looks at nothing else. `Policies` may be any
set the API's validation accepts, unsorted lists and duplicates included. The history
`edited` says whether the policy was ever edited, `Climbs` whether its levels ascend.

### IncidentWriter: runs, incidents and operators

`hist` is `check_results` by target, `incidents` the table in order of creation;
`pc`, `tgt`, `win`, `found` are the locals of an evaluation, one per evaluator: the
scheduler, each check-now request in flight, and the sweep, which also holds the
windows it has yet to work through (`batch`). A result carries the instant its
probe *started*, so a slow probe is recorded after, and sorts before, a faster one.
`editor` is a read-modify-write in flight (PATCH, POST updates).
History variables only observe: `touched` are the incidents operators have written
(properties about the writer's work leave these out), `notices` counts Resolved
announcements, `silent` the maintenance windows no evaluation straddles.

### Scheduler, Probes, ProbeRequests: from a row to a verdict

`Scheduler` is one task with two timers. `known_targets` and `next_due` are its
locals; a probe reads the row of the snapshot, not of the table. The console
(create, patch, delete; patch reads, then writes the whole row) and the pings of a
heartbeat target run beside it. Time is kept as differences so that a behaviour
may go on for ever. `Probes` is the verdict of every kind the control plane runs,
as an operator from settings and from what the network showed; `ProbeRequests`
runs it on requests (POST /targets/test) and compares it with what each kind
promises. `IsRequest` is all that is assumed of a request; TLC gets those that
vary what each probe branches on (`AllRequests` in `MCMonitoring`).

### Channels and Transports: from an incident to a message

`Channels` has the channel rows, silence rules, confirmation links and the
dispatches in flight, which read the target, the rules and each channel in turn and
spawn a send. The handlers that write a channel read it first and write it all
back. `Transports` holds, kind by kind, which fields the configuration needs and
masks and which the transport uses; the two are separate files in the code.

### OnCall

Rotations with handoffs at a local hour, layers, overrides, in zones with one clock
change. The code counts local dates and resolves today's handoff to an instant; the
property asks whether the wall clock has ever come to the time of the last handoff
counted, and not yet to that of the next. `IsZone` is what is assumed of a zone.

### RateLimiter, Accounts, BulkRequests, PublicStatus: around a handler

`RateLimiter` measures tokens in time: a token is `TokenCost` units, a bucket gains
one per unit. `check()` reads the clock before it locks the bucket, so it is two
steps. `Accounts` has one task per request and one step per storage call; a client
may leave, which drops the task where it awaits, and touches and deletes of
sessions are spawned. A touch reads its own clock and compares it with the row that
was read when the request came in (`DebounceTouch`); the write of that time is a later
step (`WriteTouch`), so an older touch may be written after a newer one, and either
may fail, which is only logged (`SpawnedFails`). The history `behind` holds the sessions
whose idle clock such a touch has left behind. `BulkRequests` has the per-key lock, the
replay cache, its expiry, item failures, aborts and restarts.

`PublicStatus` computes a snapshot single flight, with a fallback, from storage reads
made one by one: the page, its components, the active windows, the incidents, the latest
result of each component, the postmortem of each incident, the active windows once more
for the list, the upcoming ones, the logo. The console's handlers write and then
invalidate; the scheduler, the incident writer and the clock change the tables and tell
nobody. The writer's incidents carry a public title, and a PATCH can give one to an
internal incident. `moved` remembers when a component last went into maintenance or out
of it, `shown` the ages of the snapshots visitors of a page were answered with. Visitors
come back. `FrontDoor` is the four together: they share no state, so their conjunction.

### DuckdbStorage, MemoryStorage, StorageRows: the storage trait

Every method of the trait on rows reduced to what decides an answer. A method is
one action, since it holds the connection; seven DuckDB methods take the lock
twice and are split. `MemoryStorage` is the abstract specification and
`DuckdbStorage` maps its tables to it (`Memory == INSTANCE MemoryStorage WITH ...`).
`Maps` is the refinement mapping: a row with a payload stands for the payload
(`AsMap`), with the column a reorder writes. `Differs` lists, call by call, where
the two backends are known to answer differently; everywhere else a step of one must
be a step of the other, which is `MirrorsMemory`. A method that is split mirrors
memory at its second half, where it has an effect; what it read may be out of date
by then, and `ActsOnStaleRow` is that case, on the steps where it is.

### StorageCache and RecentRows

`RecentRows` says what a cached table promises: writes take effect at once and a
read answers with a row of the last `Window` ticks. `StorageCache` is
`CachedStorage`, every call in its two halves (table and map) in the order of the
code; `CacheServesRecentRows` is the refinement with `Window` the time to live plus
one call.

### How they fit

`IncidentWriter!Notify` is where a delivery is enqueued
(`SubscriberDispatch!EnqueueDelivery`), where the row is seeded or deleted
(`EscalationEngine!AutoOpen`, `AutoClose`, `Seed`, `DeleteState`) and where a
dispatch starts (`Channels`). Each module lets the other side of that interface
happen at any time, which is weaker than what the other module guarantees, so its
results carry over. A probe of `Scheduler` ends where
`IncidentWriter!RecordResult` starts; there its verdict is any status.

## 3. Runs

Bounds are constants; history counters enter guards only to bound a run.

| Run | Question | Instance |
|---|---|---|
| `notifications` | Is a delivery ever sent twice, a claim shared, a dead letter premature, a terminal row revived; is it a queue of tries; does a backlog drain? What do races with every handler, edits and a fault do to the ladder, and is it walked completely and in order? | backlog: 2 workers, 3 deliveries, batch 2, `MAX_ATTEMPTS` 2; faults: the same with 2 deliveries, storage errors and stops; escalation: 1 incident, 5 policies (one unsorted), 1 fault |
| `dispatch_attempts` (violated) | Is a delivery tried at most `MAX_ATTEMPTS` times? | 1 worker, 1 delivery, `MAX_ATTEMPTS` 6 |
| `escalation_ack_lost` (violated) | Does an acknowledgement survive the engine's upsert? | 1 incident, 1 ladder, PATCH only |
| `incident_writer` | Do stale batches and operators break the writer's facts, or the silence of maintenance? Are duplicates bounded, and does the sweep repair what faults, races and operators left? | scheduler, sweep; 4 probes; 2 targets with 1 request, and 1 target with 1 request and 1 fault |
| `writer_duplicate` (violated) | At most one open incident per target? | scheduler and sweep |
| `storage` | Does DuckDB do what the in-memory backend does, call by call? | 24 areas, 2 ids, 2 clients in two-step methods; seven areas with a still clock, three of them with one row |
| `front_door` | Are limits, sign-in, replays and the public page right under races? | limiter; sign-in; sessions; bulk; the public page in four parts: requests against one write, a visitor who comes back, any tables without requests, operators without requests |
| `monitoring` | Does every target get probed, judged, silenced and answered from fresh rows? | scheduler twice, channels twice, cache, on-call, probes |
| `interval_ignored` (violated) | Is a target left alone for its interval? | scheduler, 1 steady target, interval 3 |
| `declined_paged` (violated) | Does a channel whose recipient declined stay silent? | 1 e-mail channel, 2 links |
| `cert_expired` (violated) | Is an expired certificate down? | all requests of `monitoring` |
| `handoff_skipped` (violated) | Is a handoff in a skipped hour made when the clock jumps? | the schedules and zones of `monitoring` |

`notifications`, `incident_writer`, `storage`, `front_door` and `monitoring` put several
components or instances in one run. These share no state, so each behaviour belongs to
one of them, chosen in the first state: the state space is the sum and not the product,
and nothing is lost by it. A part is enabled only in its own behaviours; fairness
constrains only the actions of the part that runs.

Why the bounds are enough. Dispatch: two workers and a batch smaller than the table give
every overlap of list, claim and mark; `MAX_ATTEMPTS` 2 has a first try, a retry and a
last one. Escalation: two rungs and one repeat have a step within a round, a wrap and an
end; policies that are edited into one another, one of them unsorted, or deleted give an
edit at every point; the engine is one sequential task, so a second incident adds only
longer stale snapshots, which an arbitrary interleaving of operators already gives.
Writer: a threshold of 2 and a window of 3 (2 and 10 in the code) allow a run shorter
than, equal to and longer than the threshold, and a window that mixes both kinds; four
probes give an outage and a recovery. A check-now request is a prober like the
scheduler; any number of them is in the theorems. Storage: two rows order, page and
overwrite; two clients are the least that can overtake a two-step method. Limiter: a
bucket of two tokens, a threshold just over its filling time and a clock that runs past
it twice, with two requests of one address applied in either order. Accounts: two
requests race for the lock or for the one link, which may already be in a mailbox at the
start; one session in use, since sessions touch one another only when one user revokes
another session, and its own touches, deletes and revocations overlap; a clock that
passes the link's life and the idle timeout. Bulk: two calls of one key, a body of two
items, one fault of each sort. Public page: two readers, the same one asking first since
they are alike, and one write or the clock during their requests, with a failed read;
two visitors, one of whom returns, beside one recorded result or new logo, with one
failed read or one departure, which gives a snapshot older than an answer three ways to
come back (hot layer, computation, fallback); any tables without requests; two operators
whose reads and writes interleave; a clock of two hours, so that one window opens or
closes. Scheduler: a steady target beside an edited one, a refresh every second tick.
Cache: two callers, two values, one tick to live and one to call. On call: changes of an
hour and half an hour, forward and back, rotations shorter, equal to and longer than a
day. The theorems of section 4 hold without these bounds.

Fairness. `WorkerStep`, `EngineStep`, `EvalStep` and `SweepStep` are weakly fair:
the tasks are loops over a ticker that Tokio keeps polling, each transport call has
a timeout, and each storage call returns. The timers (`BackoffElapses`, `RowDue`)
are fair because time passes. The second call of a handler is fair because the
handler is a task too. `SchedulerFairness`: the sweep and the refresh are arms of one
`select!` polled for ever, probes have a deadline, and time passes. `BulkFairness`,
`PublicFairness`: a request whose client stays is polled to its end; the lock of a
key and the shared computation of a page are handed on when their holder is dropped.
Nothing is assumed of operators, probes' outcomes, faults or
transports: probes may fail and a transport may fail for ever.
`CHECK_DEADLOCK FALSE` is in the configurations where a finite set of deliveries,
requests or edits, or an incident whose ladder has ended, leaves nothing to do.

### What the violated runs show

* `escalation_ack_lost`: an acknowledgement written while the engine pages is
  overwritten by the upsert of the snapshot, and the next rung is paged.
* `writer_duplicate`: the scheduler and the sweep both find no open incident and
  both create one. The README and the module's comment rule this out.
* `interval_ignored`: `probe_due_targets` never moves `next_due` on, so a target is
  probed at every 5 s sweep once it is due, whatever its interval.
* `declined_paged`: declining sets `disabled_reason` and nothing reads it; a channel
  verified by another link goes on being sent to.

* `dispatch_attempts`: the attempts compared with `MAX_ATTEMPTS` do not count the try that
  just failed, so a delivery is tried a seventh time before it is parked
  (`subscriber_dispatch.rs:56` says six).
* `cert_expired`: remaining life is counted in whole days, rounded towards zero, and only
  negative ones are Down (`tls_cert.rs:112`, `:255`): for 24 hours an expired certificate
  is Degraded, or Up when `warn_days` is 0, where line 47 says "`Down` when the
  certificate has already expired".
* `handoff_skipped`: `local_to_utc` adds whole hours to a wall time in the gap, so the
  handoff comes as long after the jump as its time lies within the skipped hour, not at
  "the instant the clock jumps to" (`on_call.rs:258`).

### Observations without a run

Seen while translating; the models contain the behaviour.

* Claims do not expire: a worker that stops between claim and mark leaves a row
  `claimed` for ever (the price of at-most-once delivery).
* POST /incidents/{id}/acknowledge does not mirror to the escalation row; after
  POST /resolve an acknowledged row is never listed again and never deleted.
* `validate_new_policy` accepts unsorted steps, which `next_step` documents as
  forbidden; rungs are then skipped. `NoRungSkipped` is stated for ladders that climb and
  were not edited.
* The recovery time is the oldest Up result of the *window*, so Up, Down, Down, Up,
  Up ends an incident before it starts.
* Two tasks may both close and announce the same incident (`BoundedNotices`); the
  messages are spawned, so Opened and Resolved may arrive in either order.
* A reopened incident gets no escalation row. The row of a deleted policy fails
  in every sweep. Maintenance suppresses closing as well as opening.
* The scheduler's first refresh happens after a full 30 s, although its comment
  says that boot loads the targets (`scheduler.rs:160`).
* A bootstrap whose handler is dropped keeps `BOOTSTRAP_LOCK` until a restart. An
  expired magic link is redeemed as long as the cleanup has not removed it.
* An older clock reading applied after a newer one credits the time between them
  twice (`credit` in `NeverOverspent`).
* A disabled page is served from its snapshot until that expires.
* `verified_at` survives a change of the address (`notification_channel/mod.rs:457`);
  a PATCH with the mask in a secret field stores the mask, as no handler calls
  `has_redaction_sentinel`; `set_channel_verified` writes a whole row back and can
  undo a PATCH. Telegram-app, WhatsApp-app and other than Twilio SMS only log and
  report success. The Opsgenie region, and headers and secrets of some webhooks, are
  accepted and not used.
* An expiring certificate hides a failed response. `negate` has no effect on `exists`
  conditions.
* A session whose touch fails, or whose older touch is written after a newer one, has its
  idle clock behind its use until the next touch (`behind` in `IdleClockKeepsUp`).
* A snapshot read while a window opens or closes may show a component under maintenance
  and not list the window, or the other way round (`stirred` in `SnapshotCoherent`).
* `CachedStorage::delete_target` drops the entry before the row, so a read in
  between brings the deleted row back for one time to live; the server does not
  construct the wrapper yet.
* DuckDB and memory differ where `Differs` says so: two lists in another order, two
  statements the engine refuses (`list_silence_rules` upcoming and past,
  `incident_metrics`), constraints memory does not have, columns that are read in
  place of the payload, the last latency bucket, and the time of an earlier sending.
* `recent_results_for_targets` has no ORDER BY on its outer query. `storage` shows
  that the right rows come back; the order the incident writer relies on is the one
  the engine happens to return, and IncidentWriter takes it.

## 4. Proofs

Eight modules hold theorems for every value of the constants, from the named assumptions
of the modules only: `DispatchAssumption`, `EscalationAssumption`,
`IncidentWriterAssumption`, `LimiterAssumption`, `CacheConstants`, `AccountAssumption`,
`BulkAssumption`, `PublicAssumption`, `ChannelAssumption`, `ProbeAssumption`,
`OnCallConstants`, `SchedulerConstants`, `StorageAssumption` (naturals where numbers are
meant, a positive batch limit, threshold and debounce, finitely many requests in flight,
accounts and incidents, bodies with at least one item, accepted policies, an eviction
threshold longer than a bucket takes to fill, placeholders that are not among the values
they stand beside, requests whose host has addresses only if it resolves and whose
conversation ends at a stage of its kind, zones whose clocks go forward by at most four
hours and back within a local date).

**SubscriberDispatch.** `IInv` adds to the types: who holds a row (a holder's row is
`claimed` and nobody else holds it), what the history counters are worth in each
status, and that a holder's `seen` equals the row's attempts. `ExclusiveClaim` is
not inductive alone: a second worker's claim is excluded only because the first
one's row is `claimed`, not deliverable. `tries` counts attempts plus the try in
flight, which gives `TriesBounded`, one more than the documented maximum, and
`DeadLetterOnlyWhenSpent`; an accepted row is either sent or claimed for
good, which gives `AtMostOnceAccepted`. `TerminalIsFinal` follows from the holder's
row not being terminal. `DispatchImplementsQueue` maps every step: enqueueing puts, a
dispatch offers, the mark of the last failure gives up, a stop or a failed mark loses
the row its worker held, and lists, claims, purges and other marks stutter. It needs
that a row is held exactly while its try is undecided, or an abandoned row could be
mapped to an open item and picked up again.

**EscalationEngine.** `Base` types the snapshot the engine works on. `LateInv`
relates `lateEnd` to the place of the engine: an incident that is not ended, or that
the engine found open and has not paged yet, has no late page, so at most the page in
flight is late. `SetbacksNeedFaults` is not inductive, because a fault does its harm
later: an upsert that is lost leaves the row behind the last page, and the next page
repeats. `Budget` counts every setback and every incident that is `Behind` against the
faults; a page of an incident that is behind turns one into the other, and any other
page is an advance since `next_step` returns a rung beyond the row's in round and level
(`NextStepAdvances`). It holds for unsorted policies and edits at any time.
`LadderWalkedToTheEnd` is about ladders that climb and were never edited, as
`NoRungSkipped` says (`next_step` documents the order, the API does not enforce it), and
those conditions are in the inductive step: while they hold, a row stands for all rungs up to
its own (`ClimbInv`), a row left behind by a fault stands for fewer, so nothing is
left out even then. `SettledAcksHold` needs only the types.

**IncidentWriter.** `WindowsRecorded`: windows, stale or not, are subsets of the
history, which only grows. `WritesCalledFor`: an evaluator at a write has a run in
its window and, to close, an incident of its target. From these: `Justified`, since
a run of the window, counted from the first result of its kind, is found in the
history. `OpenAndComing` counts the open incidents with the evaluators about to
create one: `FindOpen` sends an evaluator there only when the first number is zero,
`CreateIncident` moves one from the second to the first. `SentAndComing` does the
same for notices, with the fact that an open untouched incident was never
announced. `SilentIsQuiet`: in a silent window no evaluator is past the check.
The theorems hold for any number of targets, requests, probes, faults and
operators' requests.

**BulkRequests.** A second execution of a keyed body is excluded by the lock and the
cache together, so `KeyedBodyRunsOnce` needs both: the lock of a key is held by the
one request that works on its body (`LockInv`), and `OnceInv` says what has happened
in each phase: before anybody works on the body nothing is created, while one does
nothing beyond its cursor is (`CursorInv`), and nobody is answered before the response
is stored. Steps that lose a response put the key among the excused.

**Accounts.** `AccountTypes` and `SignInInv` say what a task holds at each await.
`BootstrapInv`: the lock is held by the one task between its claim and its create, and
a task that counted no users finds no owner; a dropped task leaves the lock held, which
only keeps others out. `RedeemInv`: a consumed link stays consumed, and the one task that
consumed it either still carries it or has opened its session; redeeming at the same
time is decided by the consuming update. `ClockInv`: a session
that is not `behind` is up to date, or a touch is on its way that will see to it, either
spawned from a row no later than the present one or holding a time no earlier than the last
request; touches read the clock, write and fail in any order.

**PublicStatus.** `SettledWritesShow` needs that nothing in flight or stored is older
than the last settled write: `ComputeInv` and `HotInv`. The invalidation of a handler
and the start of a computation are two steps, and the proof is about their order.
`SnapshotsCohere` is about reads that are apart: whatever the console, the incident writer
and the clock do between them, a component whose maintenance differs from what the
computation saw has moved since it looked (`MovesInv`, `FollowsAt`), so that the two reads
of the windows can differ only on components that moved; with `ViewInv`, what the part
read so far implies about the ratings, `SnapshotIsCoherent` follows.
`AnswersStayCurrent` rests on `BackInv`: the hot layer, the fallback of a page and the
computation in flight are no older than what the page's visitors were shown (`Ages`), and
neither is what a waiting request may still be answered with (`Awaits`); the fallback it
noted on the way in is where this is least obvious.
`PublicTypeCorrect` needs that a
computation and the readers that wait for it stay together when one of them leaves,
fails or is replaced (`SharedInv`). Lemmas `WorstIncident` and `RatedState` are about the
rating. `SurfacesAgree` compares the computations of the badge, the
list, the feed and the page on one table: `BadgeRates`, `UndisturbedView`.

**Channels.** `MuteInv`: the queue of a dispatch holds only channels that were bound
when it began, and a channel that has been silenced throughout is matched by a rule the
dispatch has loaded. `mute` only shrinks (`MutesShrink`), since it holds the channels
muted at every moment of the dispatch. `SecretsStayInside` reduces to `KeysAreMasked`,
transport by transport, once every row that travels through the handlers is known to be
of one of the kinds (`KindInv`).

**Probes.** The requests are any set that `IsRequest` allows: any settings, hosts and
remaining lives. `BlockedOrPublic` is the address guard, range by range and carrier by
carrier; `CertByHours` the arithmetic of whole days around zero and the warning
threshold; `WorstWins` and `MissesReported` that merging statuses in the code's order
gives the worst of them and leaves no reason out. `ProbeOf` names the probe of each
kind, and `AnswerInv` that an answer is a probe's verdict on a request.

**OnCall.** The schedule is one the API accepted (`OnCallInv`); the rest is arithmetic of
instants and wall-clock times. `ShownInstant`: a time that exists is resolved to the
instant at which the wall clock first reaches it, the earlier one in a repeated hour, so
"at or after that instant" and "reached" are the same. `SkippedInstant`: one that does
not exist is resolved to an instant at which the wall clock is past it. `HandoffsOnTime`
lets a handoff be overdue only on a day that leaves its time out (`TimeSkipped`); that such
a one is late is what `handoff_skipped` shows. `ReachedToday`: no time of a later date has been reached, which is where the
assumption on zones is used: where clocks are put back across midnight (St. John's
until 2011, 00:01 to 23:01) a handoff at midnight is taken back for an hour. `DaysCounted` puts these
together for every position of today's handoff, and `Quotient` passes from days to turns.

**Scheduler.** Three results that no run lists; TLC checked them, and the invariant
`SchedulerInv`, on the instance of `monitoring` with two edits before they were proved.
`DeletedAreNotProbed`: a deleted target the scheduler has evicted stays evicted, since
ids are not reused and `update_target` writes only rows that are there.
`OffAreNotProbed` is what safety says of `SchedulerFollowsTable`: a target that is off in
the table and in the snapshot is left alone until the console writes it. The sweep keeps
visiting it, as it stays in the due table, and the snapshot does not change under a
sweep. `StaleAreReported`: the ping that was read and the last one grow old together, and
only a newer ping parts them, so a judgement is never kinder than the table.

**FrontDoor.** `FrontDoorTypeCorrect` is the conjunction of the four components' type
theorems, as the specification is that of theirs.

**Storage.** `DuckdbMirrorsMemory` goes call by call: a lemma `...Step` for each
group of calls says that a call on the tables is the same call on the maps, or one of
the differences. For tables of plain columns that is the definition of `Maps`. Where a
payload is stored beside columns, a query filters and sorts on the columns and answers
with payloads, while memory does both on the payload; the two agree because of
`StorageInv`, which `RowsStayInShape` proves inductive (lemmas `...Keeps`, checked by
TLC beforehand): columns agree with the payload of their row, but for the sort_order a
reorder writes and the columns two channel setters leave alone; a row is stored under the
id it carries; what a split method holds has the shape of a row of its table, so that
writing it back keeps the first two; and no check result lies in the future, which the
ninety-day strip and the summary rely on. Sorting is compared as the set of all orders
that the sort keys allow, so that ties are no difference; `PayloadOrder` and its kin
carry such a set through the projection to payloads. In the cases of
`ActsOnStaleRow`, `ForgetsSentAt`, `ColumnNotPayload` and `LastBucket` the theorem says
only that the step is one of them, and `StorageInv` holds after it.

**StorageCache.** The refinement needs that an entry, and a row a call has read or
written and is about to put into the map, left the table no longer ago than the
ticks it has used up (`EntriesFresh`, with `CacheTypeOK`): an entry is at most the
time to live and one call old when it is served. `EntriesStayFresh` is the
invariant; `CacheImplements` maps every step: the storage half of a write is the
abstract write, a hit or a miss is an abstract read, a tick ages the recent rows,
and the map halves stutter.

**RateLimiter.** `LimiterInv` keeps the account of each bucket. While it is there,
what was granted and what is left came from the first burst, from elapsed time or
from `credit`; when it is gone, the grants are covered by the time alone
(`Paid`), because the janitor's threshold exceeds the time to fill a bucket:
the next burst is paid for. `PromiseKept` says that a bucket which refused holds a token at
the promised instant; `RetryAfterLongEnough` is the rounding. `ReadingsRecent`
bounds how old a clock reading in flight is.

| Theorem | Property |
|---|---|
| `SubscriberDispatchProofs`: TypeCorrect, AcceptedAtMostOnce, ClaimIsExclusive, RetryBudget, DeadLettersSpent, TerminalStays, DispatchImplementsQueue | DispatchTypeOK, AtMostOnceAccepted, ExclusiveClaim, TriesBounded, DeadLetterOnlyWhenSpent, TerminalIsFinal, ActsAsQueue |
| `EscalationEngineProofs`: TypeCorrect, OnePageAfterEnd, SetbacksArePaidFor, LadderWalkedToTheEnd, SettledAcksHold | TypeOK, AtMostOnePageAfterEnd, SetbacksNeedFaults, NoRungSkipped, SettledAckHolds |
| `IncidentWriterProofs`: TypeCorrect, WritesJustified, DuplicatesBounded, NoticesBounded, MaintenanceIsSilent | TypeOK, Justified, BoundedDuplicates, BoundedNotices, MaintenanceSilence |
| `FrontDoorProofs`, bulk: BulkTypeCorrect, KeyedBodiesRunOnce | BulkTypeOK, KeyedBodyRunsOnce |
| `FrontDoorProofs`, accounts: AccountTypeCorrect, BootstrapOnce, LinksOpenOnce, GoneSessionsStayGone, TouchesKeepUp | AccountTypeOK, OneBootstrapOwner, LinkOpensOneSession, GoneStaysGone, IdleClockKeepsUp |
| `PublicStatusProofs`: PublicTypeCorrect, AnsweredWritesShow, SnapshotsCohere, AnswersStayCurrent, SurfacesAlwaysAgree | PublicTypeOK, SettledWritesShow, SnapshotCoherent, AnswersNeverGoBack, SurfacesAgree |
| `MonitoringProofs`: MutedStaySilent, SecretsNeverShown, VerdictsAlwaysMatch, HandoffsAlwaysOnTime | MutedChannelsSilent, SecretsStayInside, VerdictsMatch, HandoffsOnTime |
| `MonitoringProofs`, scheduler: SweepsStayInShape, DeletedAreNotProbed, OffAreNotProbed, StaleAreReported | the invariant, and DeletedStayForgotten, OffAreLeftAlone, StaleAreNotUp, defined beside the proofs |
| `StorageCacheProofs`: EntriesStayFresh, CacheImplements | the invariant, CacheServesRecentRows |
| `FrontDoorProofs`, limiter: LimiterTypeCorrect, NoOverspending, RetryAfterSuffices | LimiterTypeOK, NeverOverspent, RetryAfterIsEnough |
| `FrontDoorProofs`, composition: FrontDoorTypeCorrect | FrontDoorTypeOK |
| `StorageProofs`: RowsStayInShape, DuckdbMirrorsMemory | the invariant, MirrorsMemory |

Model-checked only: the liveness properties (EventuallySettled, LadderEnds,
OpenIsPaged, OutageOpens, RecoveryCloses, SchedulerFollowsTable, SilenceIsNoticed,
EveryCallAnswered, EveryReadAnswered), whose fairness conditions speak of ENABLED,
which the prover does not reach. Every other property of a passing run is a theorem.

## 5. Not modelled

* Network conversations, SMTP and message texts: free choices of an outcome.
* The Postgres backend: every method answers that it is not implemented.
* The condition DSL (no caller outside its tests) and uptime (SQL aggregation).
* The domain-expiry, flow and suite checks, which the control plane refuses.
* Startup and shutdown: tasks are spawned once and cancelled together; crashes are
  steps of the models of the tasks.
* Configuration, metrics, the MCP surface (queries over the same storage calls),
  demo data and the frontend keep no state that another task races with.
* OIDC, API tokens and role checks; shared monitors and unsubscribe links of the
  public page; the timing of the cleanup task, whose deletes are storage calls.

## 6. What is left

1. API tokens and OIDC sign-in in Accounts; the cleanup task as an actor beside the
   public page and the dispatch.
