----------------------------- MODULE MCMonitoring -----------------------------
(***************************************************************************)
(* What happens to a target between its row and a message, for TLC: the    *)
(* scheduler, one probe, the channels an incident is sent to, who is on    *)
(* call, and the cache in front of the target table.  They meet in the     *)
(* tables only, so each behaviour is one part's, chosen at the start.  The *)
(* scheduler has two parts, a second target without storage errors and     *)
(* storage errors without a second target, and the channels have two, one  *)
(* for rules and dispatches and one for every kind of channel.             *)
(***************************************************************************)
EXTENDS Scheduler, Channels, StorageCache, OnCall, ProbeRequests

CONSTANTS Parts,   \* the parts of a run
          Steady   \* the targets the console leaves alone
VARIABLE part

schedulePart == <<channelVars, cacheVars, onCallVars, answer>>
channelPart == <<schedulerVars, cacheVars, onCallVars, answer>>
cachePart == <<schedulerVars, channelVars, onCallVars, answer>>
onCallPart == <<schedulerVars, channelVars, cacheVars, answer>>
probePart == <<schedulerVars, channelVars, cacheVars, onCallVars>>
vars == <<part, schedulerVars, channelVars, cacheVars, onCallVars, answer>>

----------------------------------------------------------------------------
(* Clock changes by one hour and by half an hour, forward and back, in     *)
(* zones on both sides of UTC, and no change.                              *)
ClockChanges ==
    {[at |-> 8, before |-> 0, after |-> 0], [at |-> 8, before |-> 0, after |-> 2],
     [at |-> 9, before |-> 2, after |-> 0], [at |-> 9, before |-> -2, after |-> 0],
     [at |-> 8, before |-> -1, after |-> -2], [at |-> 8, before |-> 1, after |-> 2]}
Instants == -2 .. 20
SomeSwaps == {[user |-> "u3", starts_at |-> 3, ends_at |-> 9], [user |-> "u4", starts_at |-> 5, ends_at |-> 6],
              [user |-> "u5", starts_at |-> 7, ends_at |-> 7]}

\* One layer of any kind, alone or with one that outranks or equals it.
AnyLayer ==
    [rotation_type : {"daily", "custom"}, length : {0, 5, 6, 12}, handoff_at : 0 .. 5, order : {0},
     participants : {<<>>, <<"u1">>, <<"u1", "u2">>}]
Backup(n) == [rotation_type |-> "custom", length |-> 5, handoff_at |-> 0, order |-> n, participants |-> <<"u9">>]
SomePlans == {<<>>} \cup {<<layer>> : layer \in AnyLayer}
             \cup {<<layer, Backup(n)>> : layer \in {q \in AnyLayer : q.length = 6 /\ q.handoff_at = 3}, n \in {0, 1}}

----------------------------------------------------------------------------
(* Every kind of check against the ways a conversation can go; each slice  *)
(* varies what its probe branches on.                                      *)
Plain == [kind |-> "http", expected_status |-> [kind |-> "one_of", codes |-> {}], needle |-> FALSE,
          conditions |-> <<>>, max_response_time |-> 0, cert_expiry_warn_days |-> 0, verify_tls |-> TRUE,
          rcode |-> "any", warn_days |-> 2]
Public == [resolves |-> TRUE, ips |-> {V4("public")}]
Fine == [host |-> Public, answered |-> TRUE, code |-> 200, found |-> TRUE, json |-> TRUE, body |-> Missing,
         elapsed |-> 1, agent |-> TRUE, cert |-> "readable", hours |-> 100, stage |-> "connected",
         resolver |-> TRUE, rcode |-> "noerror", answers |-> 1, sni |-> TRUE]

Hosts == {[resolves |-> FALSE, ips |-> {}], [resolves |-> TRUE, ips |-> {}]}
         \cup {[resolves |-> TRUE, ips |-> {a}] : a \in Addresses}
         \cup {[resolves |-> TRUE, ips |-> {a, V4("public")}] : a \in Addresses}

\* How far a conversation gets when nothing is wrong.
HealthyStage(kind) ==
    CASE kind = "ping" -> "echo" [] kind = "starttls" -> "advertised" [] kind = "ssh" -> "banner"
      [] kind = "udp" -> "reply" [] kind = "tls_cert" -> "handshake" [] OTHER -> "connected"

Conditions ==
    {[exists |-> e, value |-> v, len |-> l, negate |-> n] :
        e \in BOOLEAN, v \in {"none", "1", "true", "abc"}, l \in BOOLEAN, n \in BOOLEAN}
Bodies == {Missing, Num(1), Num(2), Bool(TRUE), Bool(FALSE), Text({}), Text({"abc", "1"}), Array(1), Array(2)}

HostCases ==
    {[spec |-> [Plain EXCEPT !.kind = k], net |-> [Fine EXCEPT !.host = h, !.stage = HealthyStage(k)]] :
        k \in ALL_KINDS, h \in Hosts}
StageCases ==
    UNION {{[spec |-> [Plain EXCEPT !.kind = k, !.needle = n],
             net |-> [Fine EXCEPT !.stage = s, !.found = fd, !.answered = a, !.code = c]] :
                n \in BOOLEAN, s \in StagesOf(k), fd \in BOOLEAN, a \in BOOLEAN, c \in {101, 200, 503}} :
            k \in ALL_KINDS}
Present == [exists |-> TRUE, value |-> "none", len |-> FALSE, negate |-> FALSE]
ResponseCases ==
    {[spec |-> [Plain EXCEPT !.expected_status = e, !.needle = n, !.conditions = c, !.max_response_time = m],
      net |-> [Fine EXCEPT !.code = code, !.found = fd, !.json = j, !.body = b, !.elapsed = el]] :
        e \in {[kind |-> "exact", code |-> 301], [kind |-> "range", min |-> 200, max |-> 301],
               [kind |-> "one_of", codes |-> {}], [kind |-> "one_of", codes |-> {503}]},
        n \in BOOLEAN, c \in {<<>>, <<Present>>}, m \in {0, 2},
        code \in Codes, fd \in BOOLEAN, j \in BOOLEAN, b \in {Missing, Num(1)}, el \in {2, 3}}
BodyCases ==
    {[spec |-> [Plain EXCEPT !.conditions = c], net |-> [Fine EXCEPT !.code = code, !.json = j, !.body = b]] :
        c \in {<<x>> : x \in Conditions} \cup {<<Present, x>> : x \in Conditions},
        code \in {200, 503}, j \in BOOLEAN, b \in Bodies}
CertCases ==
    {[spec |-> [Plain EXCEPT !.kind = k, !.cert_expiry_warn_days = w, !.warn_days = w, !.verify_tls = v],
      net |-> [Fine EXCEPT !.agent = a, !.cert = c, !.hours = h, !.stage = s, !.code = code, !.sni = sni]] :
        k \in {"http", "tls_cert"}, w \in {0, 2}, v \in BOOLEAN, a \in BOOLEAN,
        c \in {"readable", "unreadable"}, h \in {-25, -24, -23, -1, 0, 23, 24, 47, 48, 49},
        s \in {"handshake", "refused"}, code \in {200, 503}, sni \in BOOLEAN}
DnsCases ==
    {[spec |-> [Plain EXCEPT !.kind = "dns", !.rcode = r, !.needle = n],
      net |-> [Fine EXCEPT !.rcode = got, !.answers = k, !.found = fd, !.resolver = res, !.agent = a]] :
        r \in DnsRcodes \cup {"any"}, n \in BOOLEAN, got \in DnsRcodes, k \in {0, 1}, fd \in BOOLEAN,
        res \in BOOLEAN, a \in BOOLEAN}
AllRequests == HostCases \cup StageCases \cup ResponseCases \cup BodyCases \cup CertCases \cup DnsCases

----------------------------------------------------------------------------
First == CHOOSE c \in Channels : TRUE

\* Rules that apply now or are about to, with and without filters.
SomeRules ==
    {[on |-> "target", channel |-> Nothing, reasons |-> {}, window |-> w] : w \in {"upcoming", "active"}}
    \cup {[on |-> Nothing, channel |-> First, reasons |-> {}, window |-> "active"],
          [on |-> Nothing, channel |-> Nothing, reasons |-> {"opened"}, window |-> "active"]}
LaterRules == SomeRules \cup {[q EXCEPT !.window = "past"] : q \in SomeRules}
                        \cup {[q EXCEPT !.window = "active"] : q \in SomeRules}

Verified(ch) == [ch EXCEPT !.verified = TRUE]
Mailbox == Verified(ChannelRow("email", Filled("email"), TRUE))
SomeRows == {ChannelRow(k, Filled(k), TRUE) : k \in Kinds} \cup {Mailbox}
Rows(first, others) == [c \in Channels |-> IF c = First THEN first ELSE others]
NoRules == [r \in Rules |-> Nothing]

----------------------------------------------------------------------------
Parked == [t \in Targets |-> Unborn]

MCInit ==
    /\ part \in Parts
    /\ SchedulerInit
    /\ CASE part = "scheduler" -> \A t \in Steady : table[t] = TargetRow("tcp", TRUE)
         [] part = "faults" -> \A t \in Steady : table[t] = Unborn
         [] OTHER -> table = Parked
    /\ CASE part = "channels" -> ChannelsFrom({Rows(ch, Mailbox) : ch \in SomeRows}, [Rules -> SomeRules \cup {Nothing}])
                                 /\ alerts = Channels
         [] part = "kinds" -> ChannelsFrom({Rows(ChannelRow(k, Filled(k), TRUE), Nothing) : k \in ALL}, {NoRules})
                              /\ alerts = Channels
         [] OTHER -> ChannelsFrom({Rows(Nothing, Nothing)}, {NoRules}) /\ alerts = {}
    /\ CacheInit /\ (part # "cache" => row = [i \in Ids |-> Absent])
    /\ OnCallInit /\ (part # "oncall" => clock = 0)
    /\ ProbeInit

SchedulerPart ==
    /\ SchedulerNext
    /\ \A t \in Steady : table'[t] = table[t]
    /\ draft'.target \notin Steady
    /\ part = "scheduler" => failures' = failures
    /\ UNCHANGED schedulePart

ChannelPart ==
    /\ ChannelNext
    /\ part = "channels" => \A r \in Rules : rule'[r] \in LaterRules \cup {Nothing}
    /\ part = "kinds" => alerts' = alerts /\ rule' = rule /\ setbacks' = setbacks
    /\ UNCHANGED channelPart

\* A schedule is written once: the states are those of any number of writes.
OnCallPart ==
    /\ (saves = 0 /\ upsert_on_call_schedule) \/ OnCallSteps
    /\ UNCHANGED onCallPart

MCNext ==
    /\ UNCHANGED part
    /\ \/ part \in {"scheduler", "faults"} /\ SchedulerPart
       \/ part \in {"channels", "kinds"} /\ ChannelPart
       \/ part = "cache" /\ CacheNext /\ UNCHANGED cachePart
       \/ part = "oncall" /\ OnCallPart
       \/ part = "probes" /\ ProbeNext /\ UNCHANGED probePart

(* Only the scheduler's part has liveness properties. *)
MCSpec == MCInit /\ [][MCNext]_vars /\ SchedulerFairness
===============================================================================
