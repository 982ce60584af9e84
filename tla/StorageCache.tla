---------------------------- MODULE StorageCache ----------------------------
(***************************************************************************)
(* CachedStorage (cached.rs): a wrapper around the storage that keeps the  *)
(* rows of targets in a map with a time to live.  A call is two steps, the *)
(* storage and the map, in the order of the code; calls run concurrently,  *)
(* so the map may be given a row that is no longer the table's.            *)
(*                                                                         *)
(* Time is counted in ticks.  MaxCall bounds how long a call takes from    *)
(* its storage step to its map step.                                       *)
(***************************************************************************)
EXTENDS Naturals

CONSTANTS
    Ids, Values, Callers,
    TTL,       \* time_to_live of an entry, in ticks
    MaxCall,   \* bound: ticks between the two steps of a call
    Absent

ASSUME CacheConstants ==
    /\ TTL \in Nat /\ MaxCall \in Nat
    /\ Absent \notin Values

VARIABLES
    row,           \* the storage behind the cache
    target_cache,  \* the map: an entry's row and the ticks it has left
    call,          \* the callers
    since,         \* history: ticks since an id last had a value
    served         \* the last answer of every caller

cacheVars == <<row, target_cache, call, since, served>>

Window == TTL + MaxCall
Held == Values \cup {Absent}

\* The promise: reads are at most Window ticks behind the table.
Recent == INSTANCE RecentRows

Resting == [pc |-> "rest", id |-> Absent, val |-> Absent, age |-> 0, reads |-> FALSE]

CacheInit ==
    /\ row \in [Ids -> Held]
    /\ target_cache = [i \in Ids |-> Absent]
    /\ call = [c \in Callers |-> Resting]
    /\ since = [i \in Ids |-> [v \in Held |-> IF v = row[i] THEN 0 ELSE Window + 1]]
    /\ served = [c \in Callers |-> Absent]

Resumes(c, pc, i, v, reads) ==
    call' = [call EXCEPT ![c] = [pc |-> pc, id |-> i, val |-> v, age |-> 0, reads |-> reads]]
Answers(c, i, v) == served' = [served EXCEPT ![c] = <<i, v>>]
Stored(i, v) ==
    /\ row' = [row EXCEPT ![i] = v]
    /\ since' = [since EXCEPT ![i] = [@ EXCEPT ![v] = 0]]

\* mutant: a hit renews the entry (time_to_idle)
cached_get_targetRenews(c, i) ==
    /\ call[c] = Resting
    /\ \/ /\ target_cache[i] # Absent
          /\ Answers(c, i, target_cache[i].val)
          /\ target_cache' = [target_cache EXCEPT ![i] = [@ EXCEPT !.left = TTL]]
          /\ UNCHANGED <<row, call, since>>
       \/ /\ target_cache[i] = Absent
          /\ Resumes(c, "read", i, Absent, TRUE)
          /\ UNCHANGED <<row, target_cache, since, served>>
(* A hit is answered from the map, a miss goes to the storage.             *)
cached_get_target(c, i) ==
    /\ call[c] = Resting
    /\ \/ /\ target_cache[i] # Absent
          /\ Answers(c, i, target_cache[i].val)
          /\ UNCHANGED <<row, target_cache, call, since>>
       \/ /\ target_cache[i] = Absent
          /\ Resumes(c, "read", i, Absent, TRUE)
          /\ UNCHANGED <<row, target_cache, since, served>>

(* A missing row is answered as an error and not kept.                     *)
ReadRow(c) ==
    /\ call[c].pc = "read"
    /\ LET i == call[c].id
       IN  \/ /\ row[i] # Absent
              /\ Resumes(c, "insert", i, row[i], TRUE)
              /\ UNCHANGED served
           \/ /\ row[i] = Absent
              /\ call' = [call EXCEPT ![c] = Resting]
              /\ Answers(c, i, Absent)
    /\ UNCHANGED <<row, target_cache, since>>

cached_create_target(c, i, v) ==
    /\ call[c] = Resting
    /\ row[i] = Absent
    /\ Stored(i, v)
    /\ Resumes(c, "insert", i, v, FALSE)
    /\ UNCHANGED <<target_cache, served>>

cached_update_target(c, i, v) ==
    /\ call[c] = Resting
    /\ row[i] # Absent
    /\ Stored(i, v)
    /\ Resumes(c, "insert", i, v, FALSE)
    /\ UNCHANGED <<target_cache, served>>

(* The last step of get, create and update.                                *)
Insert(c) ==
    /\ call[c].pc = "insert"
    /\ LET i == call[c].id
           v == call[c].val
       IN  /\ target_cache' = [target_cache EXCEPT ![i] = [val |-> v, left |-> TTL]]
           /\ IF call[c].reads THEN Answers(c, i, v) ELSE UNCHANGED served
    /\ call' = [call EXCEPT ![c] = Resting]
    /\ UNCHANGED <<row, since>>

(* The entry goes first and the row after it.                              *)
cached_delete_target(c, i) ==
    /\ call[c] = Resting
    /\ target_cache' = [target_cache EXCEPT ![i] = Absent]
    /\ Resumes(c, "delete", i, Absent, FALSE)
    /\ UNCHANGED <<row, since, served>>

DeleteRow(c) ==
    /\ call[c].pc = "delete"
    /\ IF row[call[c].id] # Absent THEN Stored(call[c].id, Absent) ELSE UNCHANGED <<row, since>>
    /\ call' = [call EXCEPT ![c] = Resting]
    /\ UNCHANGED <<target_cache, served>>

(* The storage fails or the caller goes away between the two steps.        *)
DropCall(c) ==
    /\ call[c] # Resting
    /\ call' = [call EXCEPT ![c] = Resting]
    /\ UNCHANGED <<row, target_cache, since, served>>

(* The map is full.                                                        *)
Evict(i) ==
    /\ target_cache[i] # Absent
    /\ target_cache' = [target_cache EXCEPT ![i] = Absent]
    /\ UNCHANGED <<row, call, since, served>>

Pending(c) == call[c].pc = "insert"

Aged(entry) ==
    CASE entry = Absent -> Absent
      [] entry # Absent -> IF entry.left = 0 THEN Absent ELSE [entry EXCEPT !.left = @ - 1]

CacheTick ==
    /\ \A c \in Callers : Pending(c) => call[c].age < MaxCall
    /\ call' = [c \in Callers |-> IF Pending(c) THEN [call[c] EXCEPT !.age = @ + 1] ELSE call[c]]
    /\ target_cache' = [i \in Ids |-> Aged(target_cache[i])]
    /\ since' = [i \in Ids |-> [v \in Held |-> IF v = row[i] THEN 0 ELSE Recent!Capped(since[i][v] + 1)]]
    /\ UNCHANGED <<row, served>>

CacheNext ==
    \/ \E c \in Callers : ReadRow(c) \/ Insert(c) \/ DeleteRow(c) \/ DropCall(c)
    \/ \E c \in Callers, i \in Ids : cached_get_target(c, i) \/ cached_delete_target(c, i)
    \/ \E c \in Callers, i \in Ids, v \in Values : cached_create_target(c, i, v) \/ cached_update_target(c, i, v)
    \/ \E i \in Ids : Evict(i)
    \/ CacheTick

CacheSpec == CacheInit /\ [][CacheNext]_cacheVars

----------------------------------------------------------------------------
(* The shape of the map and of the calls.                                  *)
CacheTypeOK ==
    /\ row \in [Ids -> Held]
    /\ target_cache \in [Ids -> [val : Values, left : 0 .. TTL] \cup {Absent}]
    /\ call \in [Callers -> [pc : {"rest", "read", "insert", "delete"}, id : Ids \cup {Absent},
                             val : Held, age : 0 .. MaxCall, reads : BOOLEAN]]
    /\ \A c \in Callers : call[c].pc # "rest" => call[c].id \in Ids
    /\ \A c \in Callers : Pending(c) => call[c].val \in Values
    /\ since \in [Ids -> [Held -> 0 .. Window + 1]]
    /\ served \in [Callers -> (Ids \X Held) \cup {Absent}]

(* An entry, and a row on its way into the map, left the table no longer   *)
(* ago than the time it has used up: why a late insert and a late delete   *)
(* do no more harm than the promise allows.                                *)
EntriesFresh ==
    /\ \A i \in Ids : target_cache[i] # Absent =>
          since[i][target_cache[i].val] + target_cache[i].left <= Window
    /\ \A c \in Callers : Pending(c) => since[call[c].id][call[c].val] <= call[c].age

(* Whatever order concurrent reads, writes, deletes and evictions put      *)
(* their steps in, a read answers with a row the table held within the     *)
(* time to live and one call of now: the cache implements RecentRows.      *)
CacheServesRecentRows == Recent!Spec
=============================================================================
