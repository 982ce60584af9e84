------------------------------- MODULE Probes -------------------------------
(***************************************************************************)
(* What a probe reports of what it saw (scheduler.rs, probes/, check.rs,   *)
(* security/ssrf.rs).  A probe is a function of the check's settings and   *)
(* of what the network showed; it answers a status and the reasons for it. *)
(* Hosts, payloads and messages are reduced to the facts the code branches *)
(* on: whether a name resolved and to which kinds of address, how far a    *)
(* connection got, which of the expected texts a body contains.            *)
(***************************************************************************)
EXTENDS Integers, FiniteSets, Sequences

----------------------------------------------------------------------------
(* Check kinds (check.rs).                                                 *)
ALL_KINDS == {"http", "tcp", "ping", "heartbeat", "dns", "tls_cert", "domain_expiry", "flow",
              "websocket", "grpc", "ssh", "udp", "starttls", "suite"}

supported_on_control_plane(kind) == kind \in ALL_KINDS \ {"domain_expiry", "flow", "suite"}

is_passive(kind) == kind = "heartbeat"

(* The kinds POST /targets/test refuses: they need a stored target.        *)
Untestable == {"heartbeat", "domain_expiry"}

----------------------------------------------------------------------------
(* A verdict: a status and the set of reasons, empty for None.             *)
Up == [status |-> "up", errors |-> {}]
Report(status, why) == [status |-> status, errors |-> {why}]

\* mutant: the later status wins
merge_statusLast(a, b) == b
(* Worst wins: Down > Degraded > Up.                                       *)
merge_status(a, b) ==
    CASE "down" \in {a, b} -> "down"
      [] "down" \notin {a, b} /\ "degraded" \in {a, b} -> "degraded"
      [] OTHER -> "up"

----------------------------------------------------------------------------
(* The address guard.  An address is known by its range; a v6 address may  *)
(* carry a v4 one.                                                         *)
BlockedV4 == {"unspecified", "loopback", "private", "link_local", "broadcast", "multicast",
              "documentation", "cgnat", "ietf", "benchmarking", "reserved"}
BlockedV6 == {"unspecified", "loopback", "multicast", "unique_local", "link_local", "v4_compatible",
              "documentation", "discard", "teredo", "isatap"}
Carriers == {"v4_mapped", "6to4", "nat64"}

is_blocked_v4(range) == range \in BlockedV4

is_blocked_v6(range, carried) ==
    \/ range \in BlockedV6
    \/ range \in Carriers /\ is_blocked_v4(carried)

V4(range) == [v |-> 4, range |-> range, carried |-> range]
V6(range, carried) == [v |-> 6, range |-> range, carried |-> carried]

is_blocked_ip(ip) ==
    IF ip.v = 4 THEN is_blocked_v4(ip.range) ELSE is_blocked_v6(ip.range, ip.carried)

(* SsrfGuard::strict().filter.                                             *)
filter(ips) == {ip \in ips : ~is_blocked_ip(ip)}

(* A host resolves or not, and to a set of addresses.                      *)
ssrf_check_host(host) == host.resolves /\ host.ips # {} /\ filter(host.ips) # {}

----------------------------------------------------------------------------
(* http                                                                    *)
Codes == {200, 301, 503}

status_matches(expected, code) ==
    CASE expected.kind = "exact" -> code = expected.code
      [] expected.kind = "range" -> code >= expected.min /\ code <= expected.max
      [] expected.kind = "one_of" ->
            IF expected.codes = {} THEN code \in 200 .. 299 ELSE code \in expected.codes

(* A JSON value by its type: numbers and lengths, booleans, and for text   *)
(* the set of expected texts it contains.                                  *)
Missing == [type |-> "missing"]
Num(n) == [type |-> "number", n |-> n]
Bool(b) == [type |-> "bool", b |-> b]
Text(has) == [type |-> "text", has |-> has]
Array(n) == [type |-> "array", n |-> n]

(* What an expected text parses to.                                        *)
ParsesToNumber(text) == text \in {"1", "2"}
NumberOf(text) == IF text = "1" THEN 1 ELSE 2
ParsesToBool(text) == text \in {"true"}

ValueMatches(expected, val) ==
    CASE ParsesToNumber(expected) /\ val.type = "number" -> val.n = NumberOf(expected)
      [] ParsesToBool(expected) /\ val.type = "bool" -> val.b
      [] OTHER -> val.type = "text" /\ expected \in val.has

(* A body is NotJson or what the condition's path leads to.                *)
eval_body_condition(cond, val) ==
    CASE cond.exists -> val # Missing
      [] ~cond.exists /\ cond.value = "none" -> TRUE
      [] ~cond.exists /\ cond.value # "none" /\ cond.len ->
            LET same == val.type = "array" /\ ParsesToNumber(cond.value) /\ val.n = NumberOf(cond.value)
            IN  same # cond.negate
      [] OTHER -> val # Missing /\ ValueMatches(cond.value, val) # cond.negate

(* The certificate's life in hours; a day is HoursPerDay of them.  Whole   *)
(* days are counted by truncating division.                                *)
HoursPerDay == 24
WholeDays(hours) == IF hours >= 0 THEN hours \div HoursPerDay ELSE -((-hours) \div HoursPerDay)

(* check_tls_cert_expiry: builds without the agent feature answer Ok, and  *)
(* a certificate that cannot be read is not fatal.                         *)
CertVerdict(days, warn) ==
    CASE days < 0 -> Report("down", "cert expired")
      [] days >= 0 /\ days < warn -> Report("degraded", "cert expiring")
      [] days >= warn /\ days >= 0 -> Up

check_tls_cert_expiry(net, warn) ==
    IF net.agent /\ net.cert # "unreadable" THEN CertVerdict(WholeDays(net.hours), warn) ELSE Up

(* The criteria a response may miss, with the status each stands for.      *)
StatusMissed(spec, net) == ~status_matches(spec.expected_status, net.code)
TextMissed(spec, net) == spec.needle /\ ~net.found
BodyMissed(spec, net) ==
    /\ spec.conditions # <<>>
    /\ \/ ~net.json
       \/ \E i \in DOMAIN spec.conditions : ~eval_body_condition(spec.conditions[i], net.body)
TooSlow(spec, net) == spec.max_response_time > 0 /\ net.elapsed > spec.max_response_time

(* The answer is judged criterion by criterion, in the code's order.       *)
JudgeResponse(spec, net) ==
    LET s1 == IF StatusMissed(spec, net) THEN "down" ELSE "up"
        s2 == IF TextMissed(spec, net) THEN merge_status(s1, "down") ELSE s1
        s3 == IF BodyMissed(spec, net) THEN merge_status(s2, "down") ELSE s2
        s4 == IF TooSlow(spec, net) THEN merge_status(s3, "degraded") ELSE s3
    IN  [status |-> s4,
         errors |-> {why \in {"status", "text", "body", "slow"} :
                        \/ why = "status" /\ StatusMissed(spec, net)
                        \/ why = "text" /\ TextMissed(spec, net)
                        \/ why = "body" /\ BodyMissed(spec, net)
                        \/ why = "slow" /\ TooSlow(spec, net)}]

(* No connection is opened before the guard has let the host pass.         *)
Guarded(net, verdict) == IF ssrf_check_host(net.host) THEN verdict ELSE Report("error", "ssrf")

(* The certificate is judged first and ends the probe unless it is fine.   *)
CertVetoes(spec, net) ==
    /\ spec.cert_expiry_warn_days > 0
    /\ spec.verify_tls
    /\ check_tls_cert_expiry(net, spec.cert_expiry_warn_days) # Up

probe_http(spec, net) ==
    Guarded(net, IF CertVetoes(spec, net) THEN check_tls_cert_expiry(net, spec.cert_expiry_warn_days)
                 ELSE IF net.answered THEN JudgeResponse(spec, net) ELSE Report("down", "request"))

----------------------------------------------------------------------------
(* The other network kinds.  A conversation is known by how far it got.    *)
probe_tcp(net) == Guarded(net, IF net.stage = "connected" THEN Up ELSE Report("down", "connect"))

(* The name is looked up a second time, and the first address is pinged.   *)
probe_ping(net) ==
    Guarded(net, CASE net.stage = "lookup failed" -> Report("down", "dns")
                   [] net.stage = "no socket" -> Report("error", "icmp client")
                   [] net.stage = "no echo" -> Report("down", "echo")
                   [] net.stage = "echo" -> Up)

probe_websocket(net) ==
    Guarded(net, IF ~net.answered THEN Report("down", "connect")
                 ELSE IF net.code \in {101} \cup 200 .. 299 THEN Up ELSE Report("down", "upgrade"))

(* Any HTTP answer counts as healthy.                                      *)
probe_grpc(net) == Guarded(net, IF net.answered THEN Up ELSE Report("down", "connect"))

probe_ssh(net) == Guarded(net, IF net.stage = "banner" THEN Up ELSE Report("down", net.stage))

probe_udp(spec, net) ==
    Guarded(net, IF net.stage # "reply" THEN Report("down", net.stage)
                 ELSE IF spec.needle /\ ~net.found THEN Report("down", "text") ELSE Up)

probe_starttls(net) ==
    Guarded(net, CASE net.stage = "advertised" -> Up
                   [] net.stage = "not advertised" -> Report("degraded", net.stage)
                   [] OTHER -> Report("down", net.stage))

(* dns: an expected response code may turn a failed lookup into success    *)
(* and a successful one into a failure.                                    *)
DnsRcodes == {"noerror", "nxdomain", "servfail"}
probe_dns(spec, net) ==
    LET failed == net.rcode # "noerror"
    IN  CASE ~net.resolver -> Report("error", "resolver")
          [] net.resolver /\ failed -> IF spec.rcode = net.rcode THEN Up ELSE Report("down", "lookup")
          [] net.resolver /\ ~failed ->
                IF spec.rcode \notin {"any", "noerror"} THEN Report("down", "rcode")
                ELSE IF net.answers = 0 THEN Report("down", "no records")
                ELSE IF spec.needle /\ ~net.found THEN Report("down", "text") ELSE Up

(* tls_cert: the allowed addresses are tried in order until a handshake    *)
(* succeeds; the leaf it presents is judged.                               *)
tls_handshake(net) == net.stage = "handshake"
cert_days_remaining(net) == WholeDays(net.hours)

probe_tls_cert(spec, net) ==
    IF ~net.sni THEN Report("error", "sni")
    ELSE Guarded(net, IF ~tls_handshake(net) THEN Report("down", "handshake")
                      ELSE IF net.cert = "unreadable" THEN Report("error", "cert parse")
                      ELSE CertVerdict(cert_days_remaining(net), spec.warn_days))

(* heartbeat: age is how long ago the last ping was, None before the first.*)
NoPing == -1
HeartbeatVerdict(deadline, age) ==
    IF age # NoPing /\ age > deadline THEN Report("down", "stale") ELSE Up

(* probe_target_with_client, for every kind but heartbeat, which reads     *)
(* storage.                                                                *)
probe_target(spec, net) ==
    CASE ~supported_on_control_plane(spec.kind) -> Report("error", "not supported")
      [] spec.kind = "http" -> probe_http(spec, net)
      [] spec.kind = "tcp" -> probe_tcp(net)
      [] spec.kind = "ping" -> probe_ping(net)
      [] spec.kind = "websocket" -> probe_websocket(net)
      [] spec.kind = "grpc" -> probe_grpc(net)
      [] spec.kind = "ssh" -> probe_ssh(net)
      [] spec.kind = "udp" -> probe_udp(spec, net)
      [] spec.kind = "starttls" -> probe_starttls(net)
      [] spec.kind = "dns" -> IF net.agent THEN probe_dns(spec, net) ELSE Report("error", "build")
      [] spec.kind = "tls_cert" -> IF net.agent THEN probe_tls_cert(spec, net) ELSE Report("error", "build")
=============================================================================
