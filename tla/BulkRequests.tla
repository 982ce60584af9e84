---------------------------- MODULE BulkRequests ----------------------------
(***************************************************************************)
(* POST /targets/bulk and POST /targets/bulk/action with an                *)
(* Idempotency-Key (api/bulk.rs, idempotency.rs): look the response up,    *)
(* queue on the per-key lock, look it up again, work through the items one *)
(* storage call at a time, store the response, answer.  The response cache *)
(* and the locks live in the process: they expire, and a restart empties   *)
(* them while the targets it created stay.                                 *)
(***************************************************************************)
EXTENDS Naturals, FiniteSets, Sequences

CONSTANTS
    Calls,           \* request tasks of one process life
    Keys,            \* (Idempotency-Key, body hash) pairs
    Headerless,      \* the member of Keys that stands for "no header"
    Batch,           \* Batch[k]: the items of the body behind k, a sequence
    Oversize,        \* keys whose response exceeds MAX_CACHED_BODY
    MaxItemFaults,   \* bound: storage errors of single items
    MaxAborts,       \* bound: clients that disconnect
    MaxRestarts,     \* bound: process restarts
    MaxExpiries      \* bound: cache entries that reach their 24 h

NoResponse == <<>>

VARIABLES
    cache,        \* cache[k]: the stored response, or NoResponse
    holder,       \* holder[k]: the call that holds the key's lock, or {}
    call,         \* call[c]: pc, key, next item, response so far
    created,      \* created[k][i]: targets made for item i of k's body
    answers,      \* history: answers[k], the responses given for k
    itemFaults, aborts, restarts, expiries,
    excused       \* history: keys whose cached response was lost or never stored

bulkVars == <<cache, holder, call, created, answers, itemFaults, aborts, restarts, expiries, excused>>
bulkCounters == <<itemFaults, aborts, restarts, expiries>>

ASSUME BulkAssumption ==
    /\ Headerless \in Keys
    /\ \A k \in Keys : Batch[k] \in Seq(Nat) /\ Len(Batch[k]) > 0

NewCall == [pc |-> "new", key |-> Headerless, item |-> 1, response |-> <<>>]
DoneCall == [NewCall EXCEPT !.pc = "done"]

BulkInit ==
    /\ cache = [k \in Keys |-> NoResponse]
    /\ holder = [k \in Keys |-> {}]
    /\ call = [c \in Calls |-> NewCall]
    /\ created = [k \in Keys |-> [i \in DOMAIN Batch[k] |-> 0]]
    /\ answers = [k \in Keys |-> {}]
    /\ itemFaults = 0
    /\ aborts = 0
    /\ restarts = 0
    /\ expiries = 0
    /\ excused = {}

----------------------------------------------------------------------------
(* header_key: a missing or empty header is a pass-through, in the cache   *)
(* and in the lock map alike.                                              *)
HasKey(k) == k # Headerless

Answer(k, response) == answers' = [answers EXCEPT ![k] = @ \cup {response}]

(* The first look at the cache.                                            *)
Lookup(c, k) ==
    /\ call[c].pc = "new"
    /\ \/ /\ cache[k] = NoResponse
          /\ call' = [call EXCEPT ![c] = [@ EXCEPT !.pc = "queued", !.key = k]]
          /\ UNCHANGED answers
       \/ /\ cache[k] # NoResponse
          /\ call' = [call EXCEPT ![c] = DoneCall]
          /\ Answer(k, cache[k])
    /\ UNCHANGED <<cache, holder, created, bulkCounters, excused>>

\* mutant: no second look under the guard
EnterUnchecked(c) ==
    /\ call[c].pc = "queued"
    /\ HasKey(call[c].key) => holder[call[c].key] = {}
    /\ call' = [call EXCEPT ![c].pc = "items"]
    /\ holder' = IF HasKey(call[c].key) THEN [holder EXCEPT ![call[c].key] = {c}] ELSE holder
    /\ UNCHANGED <<cache, answers, created, bulkCounters, excused>>
(* acquire_in_flight, then the second look under the guard; the guard is   *)
(* dropped with the answer.                                                *)
Enter(c) ==
    LET k == call[c].key
    IN  /\ call[c].pc = "queued"
        /\ HasKey(k) => holder[k] = {}
        /\ \/ /\ cache[k] = NoResponse
              /\ call' = [call EXCEPT ![c].pc = "items"]
              /\ holder' = IF HasKey(k) THEN [holder EXCEPT ![k] = {c}] ELSE holder
              /\ UNCHANGED answers
           \/ /\ cache[k] # NoResponse
              /\ call' = [call EXCEPT ![c] = DoneCall]
              /\ Answer(k, cache[k])
              /\ UNCHANGED holder
        /\ UNCHANGED <<cache, created, bulkCounters, excused>>

(* One item: created (a fresh id every time), or reported in its place of  *)
(* the response; the batch goes on either way.                             *)
Item(c) ==
    LET k == call[c].key
        i == call[c].item
        Push(result) == call' = [call EXCEPT ![c] = [@ EXCEPT !.item = i + 1,
                                    !.response = Append(call[c].response, result)]]
    IN  /\ call[c].pc = "items"
        /\ i <= Len(Batch[k])
        /\ \/ /\ created' = [created EXCEPT ![k][i] = @ + 1]
              /\ Push("ok")
              /\ UNCHANGED itemFaults
           \/ /\ itemFaults < MaxItemFaults
              /\ itemFaults' = itemFaults + 1
              /\ Push("storage_error")
              /\ UNCHANGED created
        /\ UNCHANGED <<cache, holder, answers, aborts, restarts, expiries, excused>>

(* store: nothing without a key or above the size limit.                   *)
Stored(k, response) ==
    IF HasKey(k) /\ k \notin Oversize THEN [cache EXCEPT ![k] = response] ELSE cache

UnlockNot(k, c) == holder   \* mutant: the guard is kept
Unlock(k, c) == [holder EXCEPT ![k] = @ \ {c}]

(* All items done: store the response, answer, and the guard drops.        *)
Respond(c) ==
    LET k == call[c].key
    IN  /\ call[c].pc = "items"
        /\ call[c].item > Len(Batch[k])
        /\ cache' = Stored(k, call[c].response)
        /\ excused' = IF Stored(k, call[c].response)[k] = NoResponse THEN excused \cup {k} ELSE excused
        /\ Answer(k, call[c].response)
        /\ holder' = Unlock(k, c)
        /\ call' = [call EXCEPT ![c] = DoneCall]
        /\ UNCHANGED <<created, bulkCounters>>

(* The client goes away: the future is dropped at its await, its guard     *)
(* with it; nothing is stored.                                             *)
Abort(c) ==
    /\ aborts < MaxAborts
    /\ call[c].pc \in {"queued", "items"}
    /\ aborts' = aborts + 1
    /\ holder' = Unlock(call[c].key, c)
    /\ call' = [call EXCEPT ![c] = DoneCall]
    /\ excused' = IF call[c].pc = "items" THEN excused \cup {call[c].key} ELSE excused
    /\ UNCHANGED <<cache, created, answers, itemFaults, restarts, expiries>>

(* time_to_live.                                                           *)
Expire(k) ==
    /\ expiries < MaxExpiries
    /\ cache[k] # NoResponse
    /\ cache' = [cache EXCEPT ![k] = NoResponse]
    /\ expiries' = expiries + 1
    /\ excused' = excused \cup {k}
    /\ UNCHANGED <<holder, call, created, answers, itemFaults, aborts, restarts>>

(* The process restarts: cache, locks and calls are gone, targets stay.    *)
Restart ==
    /\ restarts < MaxRestarts
    /\ restarts' = restarts + 1
    /\ cache' = [k \in Keys |-> NoResponse]
    /\ holder' = [k \in Keys |-> {}]
    /\ call' = [c \in Calls |-> NewCall]
    /\ excused' = excused \cup {k \in Keys : cache[k] # NoResponse \/ \E c \in Calls :
                                    call[c].pc = "items" /\ call[c].key = k}
    /\ UNCHANGED <<created, answers, itemFaults, aborts, expiries>>

CallStep(c) ==
    \/ \E k \in Keys : Lookup(c, k)
    \/ Enter(c) \/ Item(c) \/ Respond(c)

BulkNext ==
    \/ \E c \in Calls : CallStep(c) \/ Abort(c)
    \/ \E k \in Keys : Expire(k)
    \/ Restart

BulkSpec == BulkInit /\ [][BulkNext]_bulkVars

(* A handler is polled until it answers; nothing makes clients disconnect, *)
(* entries expire or the process restart.                                  *)
BulkFairness == \A c \in Calls : WF_bulkVars(Enter(c) \/ Item(c) \/ Respond(c))

----------------------------------------------------------------------------
BulkTypeOK ==
    /\ \A c \in Calls : /\ call[c].pc \in {"new", "queued", "items", "done"}
                        /\ call[c].key \in Keys
                        /\ call[c].item \in 1 .. Len(Batch[call[c].key]) + 1
                        /\ Len(call[c].response) = call[c].item - 1
    /\ \A k \in Keys : holder[k] \subseteq Calls /\ Cardinality(holder[k]) <= 1
    /\ \A k \in Keys : created[k] \in [DOMAIN Batch[k] -> Nat]

(* A keyed body is executed once, however many requests bring it and      *)
(* however they overlap: an item becomes two targets, or two requests get  *)
(* different answers, only when the first response was lost (expiry,       *)
(* restart), never stored (client gone mid-batch) or too large to store.   *)
KeyedBodyRunsOnce ==
    \A k \in Keys \ ({Headerless} \cup excused) :
        /\ \A i \in DOMAIN Batch[k] : created[k][i] <= 1
        /\ Cardinality(answers[k]) <= 1

Queueing == \E c \in Calls : call[c].pc = "queued"

(* No request waits for ever: neither the lock of a finished request nor   *)
(* that of one whose client left blocks the next, and the queue empties    *)
(* (acquire_in_flight and the drop of its guard).                          *)
EveryCallAnswered == Queueing ~> ~Queueing
=============================================================================
