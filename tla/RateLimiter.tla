---------------------------- MODULE RateLimiter ----------------------------
(***************************************************************************)
(* The per-IP token buckets of rate_limit.rs, the three middlewares that   *)
(* consult them and the janitor that evicts idle ones.                     *)
(*                                                                         *)
(* Tokens are fractional in the code and refill at a constant rate, so the *)
(* model measures them in time: a whole token is TokenCost time units, a   *)
(* bucket gains one unit per unit of time and holds at most Capacity       *)
(* (twice the per-minute quota, LimiterConfig::from_per_minute).           *)
(* check() reads the clock BEFORE it takes the bucket's lock, so two       *)
(* requests of one address may update the bucket in the opposite order of  *)
(* their clock readings; the two halves of check() are therefore separate  *)
(* steps.                                                                  *)
(***************************************************************************)
EXTENDS Integers, FiniteSets

CONSTANTS
    IPs,              \* client addresses
    Requests,         \* requests in the middleware at one time
    TokenCost,        \* time units a whole token is worth
    Capacity,         \* bucket capacity, in the same units
    Second,           \* time units per second (Retry-After is whole seconds)
    IdleThreshold,    \* evict_idle threshold (24 h)
    MaxLag,           \* longest a thread waits between its clock reading and the lock
    MaxTime,          \* bound: the clock stops here
    NoIP              \* no client address could be determined

ASSUME LimiterAssumption ==
    /\ TokenCost \in Nat \ {0}
    /\ Capacity \in Nat
    /\ Capacity >= TokenCost
    /\ Second \in Nat \ {0}
    /\ IdleThreshold \in Nat
    /\ MaxLag \in Nat
    /\ IdleThreshold >= Capacity + MaxLag     \* 24 h refill any configured bucket
    /\ MaxTime \in Nat
    /\ NoIP \notin IPs

VARIABLES
    clock,         \* the monotonic clock
    bucket,        \* bucket[ip]: present, tokens, last_refill
    request,       \* request[r]: idle, or holding an address and a clock reading
    granted,       \* history: tokens' worth granted to an address
    since,         \* history: reading at which an address was first seen
    credit,        \* history: time credited twice because readings were applied out of order
    promise        \* history: when a refused address was told to come back

limiterVars == <<clock, bucket, request, granted, since, credit, promise>>
limiterHistory == <<granted, since, credit, promise>>

NoPromise == -1
Idle == [ip |-> NoIP, now |-> 0]
NoBucket == [present |-> FALSE, tokens |-> 0, last_refill |-> 0]
Least(a, b) == IF a <= b THEN a ELSE b
Most(a, b) == IF a >= b THEN a ELSE b

LimiterInit ==
    /\ clock = 0
    /\ bucket = [ip \in IPs |-> NoBucket]
    /\ request = [r \in Requests |-> Idle]
    /\ granted = [ip \in IPs |-> 0]
    /\ since = [ip \in IPs |-> 0]
    /\ credit = [ip \in IPs |-> 0]
    /\ promise = [ip \in IPs |-> NoPromise]

----------------------------------------------------------------------------
(* What the headers and the socket say about the sender.  A peer that is   *)
(* not a trusted proxy is its own client whatever it forwards; a trusted   *)
(* one is believed, Forwarded before X-Forwarded-For.                      *)
client_ip(peer, trusted, forwarded, xff) ==
    IF peer # NoIP /\ trusted /\ forwarded # NoIP THEN forwarded
    ELSE IF peer # NoIP /\ trusted /\ xff # NoIP THEN xff
    ELSE peer

(* The first half of a guard: find the address (none is a 429, nothing     *)
(* else happens) and read the clock.                                       *)
Arrive(r) ==
    /\ request[r] = Idle
    /\ \E peer, forwarded, xff \in IPs \cup {NoIP}, trusted \in BOOLEAN :
         LET ip == client_ip(peer, trusted, forwarded, xff)
         IN  /\ ip # NoIP
             /\ request' = [request EXCEPT ![r] = [ip |-> ip, now |-> clock]]
    /\ UNCHANGED <<clock, bucket, limiterHistory>>

(* or_insert_with: a new bucket starts full at the reading that made it.   *)
Entry(ip, now) ==
    IF bucket[ip].present THEN bucket[ip]
    ELSE [present |-> TRUE, tokens |-> Capacity, last_refill |-> now]

(* duration_since saturates at zero when the reading is the older one.     *)
Elapsed(now, last) == Most(now - last, 0)

RefilledUncapped(b, now) == b.tokens + Elapsed(now, b.last_refill)   \* mutant: no min(capacity)
Refilled(b, now) == Least(b.tokens + Elapsed(now, b.last_refill), Capacity)

\* mutant: rounded down
RetryAfterFloor(tokens) == Second * Most((TokenCost - tokens) \div Second, 1)
(* Whole seconds until a token is there, at least one.                     *)
RetryAfter(tokens) ==
    LET seconds == (TokenCost - tokens + Second - 1) \div Second
    IN  Second * Most(seconds, 1)

(* The second half of check(), under the bucket's lock: refill, store the  *)
(* reading, then spend a token or refuse.                                  *)
Check(r) ==
    LET ip == request[r].ip
        now == request[r].now
        b == Entry(ip, now)
        tokens == Refilled(b, now)
    IN  /\ ip \in IPs
        /\ request' = [request EXCEPT ![r] = Idle]
        /\ since' = [since EXCEPT ![ip] =
               IF granted[ip] > 0 THEN @ ELSE now]
        /\ credit' = [credit EXCEPT ![ip] = @ + Most(b.last_refill - now, 0)]
        /\ \/ /\ tokens >= TokenCost
              /\ bucket' = [bucket EXCEPT ![ip] = [present |-> TRUE,
                     tokens |-> tokens - TokenCost, last_refill |-> now]]
              /\ granted' = [granted EXCEPT ![ip] = @ + TokenCost]
              /\ promise' = [promise EXCEPT ![ip] = NoPromise]
           \/ /\ tokens < TokenCost
              /\ bucket' = [bucket EXCEPT ![ip] = [present |-> TRUE,
                     tokens |-> tokens, last_refill |-> now]]
              /\ promise' = [promise EXCEPT ![ip] = now + RetryAfter(tokens)]
              /\ UNCHANGED granted
        /\ UNCHANGED clock

(* Nothing between the reading and the lock waits, so a reading is never   *)
(* more than MaxLag old when it is applied.                                *)
Fresh(r) == request[r] # Idle => clock < request[r].now + MaxLag

\* mutant: the janitor clears the whole map
EvictAll ==
    /\ bucket' = [ip \in IPs |-> NoBucket]
    /\ UNCHANGED <<clock, request, limiterHistory>>
(* evict_idle: drop every bucket not refilled within the threshold.        *)
Evict ==
    /\ \E ip \in IPs : bucket[ip].present /\ Elapsed(clock, bucket[ip].last_refill) >= IdleThreshold
    /\ bucket' = [ip \in IPs |->
           IF Elapsed(clock, bucket[ip].last_refill) < IdleThreshold THEN bucket[ip] ELSE NoBucket]
    /\ UNCHANGED <<clock, request, limiterHistory>>

Tick ==
    /\ clock < MaxTime
    /\ \A r \in Requests : Fresh(r)
    /\ clock' = clock + 1
    /\ UNCHANGED <<bucket, request, limiterHistory>>

LimiterNext ==
    \/ \E r \in Requests : Arrive(r) \/ Check(r)
    \/ Evict
    \/ Tick

LimiterSpec == LimiterInit /\ [][LimiterNext]_limiterVars

----------------------------------------------------------------------------
(* Every bucket, reading and history counter is a natural number of time   *)
(* units and no bucket holds more than Capacity.                           *)
LimiterTypeOK ==
    /\ clock \in 0 .. MaxTime
    /\ bucket \in [IPs -> [present : BOOLEAN, tokens : 0 .. Capacity, last_refill : 0 .. MaxTime]]
    /\ request \in [Requests -> [ip : IPs \cup {NoIP}, now : 0 .. MaxTime]]
    /\ granted \in [IPs -> Nat]
    /\ since \in [IPs -> 0 .. MaxTime]
    /\ credit \in [IPs -> Nat]
    /\ promise \in [IPs -> Nat \cup {NoPromise}]

(* The point of the limiter: since an address was first seen it has been   *)
(* let through for at most one full bucket plus what the elapsed time      *)
(* refilled.  The eviction of its bucket must not hand it a second burst,  *)
(* and the only excess is the time that out-of-order readings credit twice *)
(* (check() stores an older reading over a newer one).                     *)
NeverOverspent ==
    \A ip \in IPs : granted[ip] <= Capacity + (clock - since[ip]) + credit[ip]

(* A refused client that waits for the Retry-After it was given, and whose *)
(* address sends nothing else meanwhile, is let through.                   *)
RetryAfterIsEnough ==
    \A ip \in IPs :
        promise[ip] # NoPromise =>
            LET b == Entry(ip, promise[ip]) IN Refilled(b, promise[ip]) >= TokenCost
=============================================================================
