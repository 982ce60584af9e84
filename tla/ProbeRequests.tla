---------------------------- MODULE ProbeRequests ----------------------------
(***************************************************************************)
(* POST /targets/test: one probe of a check that is not stored, answered   *)
(* with its verdict.  A request is a check and what the network will show  *)
(* of its target.                                                          *)
(***************************************************************************)
EXTENDS Probes

CONSTANT Requests   \* bound: the requests that may come

----------------------------------------------------------------------------
(* Requests.                                                               *)
AnyV4 == BlockedV4 \cup {"public"}
Addresses ==
    {V4(r) : r \in AnyV4} \cup {V6(r, r) : r \in BlockedV6 \cup {"public"}}
    \cup {V6(r, v4) : r \in Carriers, v4 \in AnyV4}

Stages == {"connected", "refused", "lookup failed", "no socket", "no echo", "echo", "banner", "reply",
           "advertised", "not advertised", "handshake"}
StagesOf(kind) ==
    CASE kind = "ping" -> {"lookup failed", "no socket", "no echo", "echo"}
      [] kind = "starttls" -> {"refused", "advertised", "not advertised"}
      [] OTHER -> Stages

(* Any settings and anything the network may show: a name that does not    *)
(* resolve has no addresses, and a conversation ends at a stage of its     *)
(* kind.                                                                   *)
IsRequest(case) ==
    /\ case.spec.kind \in ALL_KINDS
    /\ case.spec.warn_days \in Nat /\ case.spec.cert_expiry_warn_days \in Nat
    /\ case.net.stage \in StagesOf(case.spec.kind)
    /\ case.net.hours \in Int
    /\ case.net.host.ips \subseteq Addresses
    /\ case.net.host.ips # {} => case.net.host.resolves

ASSUME ProbeAssumption == \A case \in Requests : IsRequest(case)

VARIABLE answer   \* the check, what the network showed, and the verdict

NoAnswer == [asked |-> FALSE]

----------------------------------------------------------------------------
ProbeInit == answer = NoAnswer

test_target_spec(case) ==
    /\ case.spec.kind \notin Untestable
    /\ answer' = [asked |-> TRUE, spec |-> case.spec, net |-> case.net, verdict |-> probe_target(case.spec, case.net)]

\* One request; the next would start from scratch.
ProbeNext ==
    /\ answer = NoAnswer
    /\ \E case \in Requests : test_target_spec(case)

ProbeSpec == ProbeInit /\ [][ProbeNext]_answer

----------------------------------------------------------------------------
(* The reference.                                                          *)
Rank(status) == CASE status = "up" -> 0 [] status = "degraded" -> 1 [] OTHER -> 2

\* An address may be contacted when it is public, however it is written.
PublicAddress(ip) == ip.range = "public" \/ (ip.range \in Carriers /\ ip.carried = "public")
Dialled == {"http", "tcp", "ping", "websocket", "grpc", "ssh", "udp", "starttls", "tls_cert"}

\* What an answer to an http check misses, with the severity of each miss.
Missed(spec, net) ==
    {m \in {<<"status", 2>>, <<"text", 2>>, <<"body", 2>>, <<"slow", 1>>} :
        \/ m[1] = "status" /\ StatusMissed(spec, net)
        \/ m[1] = "text" /\ TextMissed(spec, net)
        \/ m[1] = "body" /\ BodyMissed(spec, net)
        \/ m[1] = "slow" /\ TooSlow(spec, net)}

\* A tls_cert check that got as far as reading the certificate.
Read(spec, net) ==
    /\ spec.kind = "tls_cert" /\ net.agent /\ net.sni
    /\ net.stage = "handshake" /\ net.cert = "readable"
    /\ \E ip \in net.host.ips : PublicAddress(ip)

(* A verdict does not depend on the order its criteria are looked at: it   *)
(* is up exactly when nothing was missed, and otherwise as bad as the      *)
(* worst miss, all of which are reported (probe_http, merge_status).  A    *)
(* host without a public address is never reported as anything but an      *)
(* error, whatever it would have answered (ssrf_check_host), and a         *)
(* certificate decides by its remaining life: down when it is over, and up *)
(* as long as the days to warn of are left (cert_days_remaining).  For the *)
(* first day after its end see ExpiredIsDown.                              *)
VerdictsMatch ==
    answer # NoAnswer =>
        LET spec == answer.spec
            net == answer.net
            verdict == answer.verdict
            reachable == \E ip \in net.host.ips : PublicAddress(ip)
            missed == Missed(spec, net)
        IN  /\ verdict.status = "up" <=> verdict.errors = {}
            /\ spec.kind \in Dialled /\ ~reachable => verdict.status = "error"
            /\ spec.kind = "http" /\ reachable /\ net.answered /\ spec.cert_expiry_warn_days = 0 =>
                  /\ verdict.errors = {m[1] : m \in missed}
                  /\ \A m \in missed : Rank(verdict.status) >= m[2]
                  /\ missed # {} => \E m \in missed : Rank(verdict.status) = m[2]
            /\ Read(spec, net) =>
                  /\ net.hours >= 0 \/ net.hours <= -HoursPerDay => (verdict.status = "down" <=> net.hours < 0)
                  /\ spec.warn_days > 0 => (verdict.status = "up" <=> net.hours >= HoursPerDay * spec.warn_days)
                  /\ spec.warn_days = 0 => verdict.status # "degraded"

(* "Down when the certificate has already expired" (tls_cert.rs:47).       *)
ExpiredIsDown ==
    answer # NoAnswer /\ Read(answer.spec, answer.net) /\ answer.net.hours < 0 =>
        answer.verdict.status = "down"
=============================================================================
