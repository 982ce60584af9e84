------------------------- MODULE StorageCacheProofs -------------------------
(***************************************************************************)
(* The cached target table implements RecentRows, for every set of ids,    *)
(* rows and callers and for every time to live.  A read is answered from   *)
(* the map, so what has to be shown is how old an entry can be: an entry's *)
(* age in the table plus the time it has left never exceeds the window,    *)
(* which rests in turn on how long a row can be on its way into the map.   *)
(***************************************************************************)
EXTENDS StorageCache, TLAPS

USE CacheConstants

\* What the table holds now was never away.
CurrentIsFresh == \A i \in Ids : since[i][row[i]] = 0

CacheInv == CacheTypeOK /\ EntriesFresh /\ CurrentIsFresh

\* A step leaves the calls of the others alone, so only its own call matters.
LEMMA WindowNat == Window \in Nat /\ TTL <= Window /\ MaxCall <= Window
  BY DEF Window

\* The ages after a write: the value written is fresh, the others keep theirs.
LEMMA StoredFacts ==
  ASSUME CacheInv, NEW i \in Ids, NEW v \in Held, Stored(i, v)
  PROVE  /\ row' \in [Ids -> Held]
         /\ since' \in [Ids -> [Held -> 0 .. Window + 1]]
         /\ CurrentIsFresh'
         /\ since'[i][v] = 0
         /\ \A j \in Ids, w \in Held : since'[j][w] <= since[j][w]
<1>1. row' \in [Ids -> Held] /\ row'[i] = v /\ \A j \in Ids \ {i} : row'[j] = row[j]
  BY DEF Stored, CacheInv, CacheTypeOK
<1>2. /\ since' \in [Ids -> [Held -> 0 .. Window + 1]]
      /\ since'[i][v] = 0
      /\ \A j \in Ids, w \in Held : since'[j][w] = since[j][w] \/ (j = i /\ w = v)
  BY WindowNat DEF Stored, CacheInv, CacheTypeOK
<1>3. \A j \in Ids, w \in Held : since[j][w] \in 0 .. Window + 1
  BY DEF CacheInv, CacheTypeOK
<1>4. CurrentIsFresh'
  BY <1>1, <1>2 DEF CurrentIsFresh, CacheInv, CacheTypeOK
<1>5. \A j \in Ids, w \in Held : since'[j][w] <= since[j][w]
  BY <1>2, <1>3, WindowNat
<1> QED BY <1>1, <1>2, <1>4, <1>5

LEMMA InitInv == CacheInit => CacheInv
<1> SUFFICES ASSUME CacheInit PROVE CacheInv
  OBVIOUS
<1>1. CacheTypeOK
  BY WindowNat DEF CacheInit, CacheTypeOK, Resting, Held, Pending
<1>2. EntriesFresh
  BY DEF CacheInit, EntriesFresh, Resting, Pending
<1>3. CurrentIsFresh
  BY DEF CacheInit, CurrentIsFresh
<1> QED BY <1>1, <1>2, <1>3 DEF CacheInv

\* A caller that starts to wait, or stops, leaves the other calls as they are.
LEMMA ResumesFacts ==
  ASSUME CacheTypeOK, NEW c \in Callers, NEW pc \in {"read", "insert", "delete"}, NEW i \in Ids, NEW v \in Held,
         NEW reads \in BOOLEAN, pc = "insert" => v \in Values, Resumes(c, pc, i, v, reads)
  PROVE  /\ call' \in [Callers -> [pc : {"rest", "read", "insert", "delete"}, id : Ids \cup {Absent},
                                    val : Held, age : 0 .. MaxCall, reads : BOOLEAN]]
         /\ \A d \in Callers : call'[d].pc # "rest" => call'[d].id \in Ids
         /\ \A d \in Callers : call'[d].pc = "insert" => call'[d].val \in Values
         /\ call'[c] = [pc |-> pc, id |-> i, val |-> v, age |-> 0, reads |-> reads]
         /\ \A d \in Callers : d # c => call'[d] = call[d]
  BY DEF CacheTypeOK, Resumes, Pending

LEMMA RestsFacts ==
  ASSUME CacheTypeOK, NEW c \in Callers, call' = [call EXCEPT ![c] = Resting]
  PROVE  /\ call' \in [Callers -> [pc : {"rest", "read", "insert", "delete"}, id : Ids \cup {Absent},
                                    val : Held, age : 0 .. MaxCall, reads : BOOLEAN]]
         /\ \A d \in Callers : call'[d].pc # "rest" => call'[d].id \in Ids
         /\ \A d \in Callers : call'[d].pc = "insert" => call'[d].val \in Values
         /\ call'[c].pc = "rest"
         /\ \A d \in Callers : d # c => call'[d] = call[d]
  BY DEF CacheTypeOK, Resting, Held, Pending

LEMMA AnswersFacts ==
  ASSUME CacheTypeOK, NEW c \in Callers, NEW i \in Ids, NEW v \in Held, Answers(c, i, v)
  PROVE  served' \in [Callers -> (Ids \X Held) \cup {Absent}]
  BY DEF CacheTypeOK, Answers

LEMMA GetInv ==
  ASSUME CacheInv, NEW c \in Callers, NEW i \in Ids, cached_get_target(c, i)
  PROVE  CacheInv'
<1>1. CASE target_cache[i] # Absent /\ Answers(c, i, target_cache[i].val) /\ UNCHANGED <<row, target_cache, call, since>>
  <2>1. target_cache[i].val \in Held
    BY <1>1 DEF CacheInv, CacheTypeOK, Held
  <2>2. served' \in [Callers -> (Ids \X Held) \cup {Absent}]
    BY <1>1, <2>1, AnswersFacts DEF CacheInv
  <2> QED BY <1>1, <2>2 DEF CacheInv, CacheTypeOK, EntriesFresh, CurrentIsFresh, Pending
<1>2. CASE Resumes(c, "read", i, Absent, TRUE) /\ UNCHANGED <<row, target_cache, since, served>>
  <2>1. \A d \in Callers : call'[d].pc = "insert" => call'[d] = call[d]
    BY <1>2 DEF CacheInv, CacheTypeOK, Resumes
  <2>2. CacheTypeOK'
    BY <1>2, ResumesFacts DEF CacheInv, CacheTypeOK, Held, Pending
  <2> QED BY <1>2, <2>1, <2>2 DEF CacheInv, EntriesFresh, CurrentIsFresh, Pending
<1> QED BY <1>1, <1>2 DEF cached_get_target

LEMMA ReadInv ==
  ASSUME CacheInv, NEW c \in Callers, ReadRow(c)
  PROVE  CacheInv'
<1> DEFINE i == call[c].id
<1>1. i \in Ids /\ row[i] \in Held /\ since[i][row[i]] = 0
  BY DEF CacheInv, CacheTypeOK, ReadRow, CurrentIsFresh
<1>2. UNCHANGED <<row, target_cache, since>>
  BY DEF ReadRow
<1>3. CASE row[i] # Absent /\ Resumes(c, "insert", i, row[i], TRUE) /\ UNCHANGED served
  <2>1. row[i] \in Values
    BY <1>1, <1>3 DEF Held
  <2> HIDE DEF i
  <2>2. /\ call'[c] = [pc |-> "insert", id |-> i, val |-> row[i], age |-> 0, reads |-> TRUE]
        /\ \A d \in Callers : d # c => call'[d] = call[d]
    BY <1>1, <1>3, <2>1, ResumesFacts DEF CacheInv
  <2>3. CacheTypeOK'
    BY <1>1, <1>2, <1>3, <2>1, ResumesFacts DEF CacheInv, CacheTypeOK, Pending
  <2>4. EntriesFresh'
    BY <1>1, <1>2, <2>2 DEF CacheInv, EntriesFresh, Pending
  <2> QED BY <1>2, <2>3, <2>4 DEF CacheInv, CurrentIsFresh
<1>4. CASE call' = [call EXCEPT ![c] = Resting] /\ Answers(c, i, Absent)
  <2>1. served' \in [Callers -> (Ids \X Held) \cup {Absent}]
    BY <1>1, <1>4, AnswersFacts DEF CacheInv, Held
  <2>2. \A d \in Callers : call'[d].pc = "insert" => call'[d] = call[d]
    BY <1>4, RestsFacts DEF CacheInv
  <2>3. CacheTypeOK'
    BY <1>2, <1>4, <2>1, RestsFacts DEF CacheInv, CacheTypeOK, Pending
  <2> QED BY <1>2, <2>2, <2>3 DEF CacheInv, EntriesFresh, CurrentIsFresh, Pending
<1> QED BY <1>3, <1>4 DEF ReadRow

\* create_target and update_target: the row first, then the map.
LEMMA WriteInv ==
  ASSUME CacheInv, NEW c \in Callers, NEW i \in Ids, NEW v \in Values,
         Stored(i, v), Resumes(c, "insert", i, v, FALSE), UNCHANGED <<target_cache, served>>
  PROVE  CacheInv'
<1>1. v \in Held
  BY DEF Held
<1>2. /\ call'[c] = [pc |-> "insert", id |-> i, val |-> v, age |-> 0, reads |-> FALSE]
      /\ \A d \in Callers : d # c => call'[d] = call[d]
  BY <1>1, ResumesFacts DEF CacheInv
<1>3. CacheTypeOK'
  BY <1>1, ResumesFacts, StoredFacts DEF CacheInv, CacheTypeOK, Pending
<1>4. \A j \in Ids, w \in Held : since'[j][w] <= since[j][w] /\ since'[j][w] \in Nat /\ since[j][w] \in Nat
  BY <1>1, <1>3, StoredFacts, WindowNat DEF CacheInv, CacheTypeOK
<1>5. \A j \in Ids : target_cache[j] # Absent =>
         target_cache[j].val \in Held /\ target_cache[j].left \in Nat
  BY DEF CacheInv, CacheTypeOK, Held
<1>6. \A j \in Ids : target_cache'[j] # Absent =>
         since'[j][target_cache'[j].val] + target_cache'[j].left <= Window
  BY <1>4, <1>5, WindowNat DEF CacheInv, EntriesFresh
<1>7. \A d \in Callers : Pending(d)' => since'[call'[d].id][call'[d].val] <= call'[d].age
  <2>1. SUFFICES ASSUME NEW d \in Callers, Pending(d)'
                 PROVE  since'[call'[d].id][call'[d].val] <= call'[d].age
    OBVIOUS
  <2>2. CASE d = c
    BY <1>1, <1>2, <2>2, StoredFacts
  <2>3. CASE d # c
    <3>1. call'[d] = call[d] /\ Pending(d)
      BY <1>2, <2>1, <2>3 DEF Pending
    <3>2. call[d].id \in Ids /\ call[d].val \in Held /\ call[d].age \in Nat
      BY <3>1 DEF CacheInv, CacheTypeOK, Pending
    <3> QED BY <1>4, <3>1, <3>2 DEF CacheInv, EntriesFresh
  <2> QED BY <2>2, <2>3
<1>8. EntriesFresh'
  BY <1>6, <1>7 DEF EntriesFresh
<1> QED BY <1>1, <1>3, <1>8, StoredFacts DEF CacheInv

LEMMA InsertInv ==
  ASSUME CacheInv, NEW c \in Callers, Insert(c)
  PROVE  CacheInv'
<1> DEFINE i == call[c].id
           v == call[c].val
<1>1. i \in Ids /\ v \in Values /\ v \in Held /\ call[c].age \in 0 .. MaxCall /\ since[i][v] <= call[c].age
  BY DEF CacheInv, CacheTypeOK, EntriesFresh, Insert, Pending, Held
<1>2. since[i][v] \in Nat
  BY <1>1, WindowNat DEF CacheInv, CacheTypeOK
<1>3. /\ target_cache' = [target_cache EXCEPT ![i] = [val |-> v, left |-> TTL]]
      /\ call' = [call EXCEPT ![c] = Resting]
      /\ UNCHANGED <<row, since>>
      /\ Answers(c, i, v) \/ UNCHANGED served
  BY DEF Insert
<1> HIDE DEF i, v
<1>4. target_cache' \in [Ids -> [val : Values, left : 0 .. TTL] \cup {Absent}]
  BY <1>1, <1>3 DEF CacheInv, CacheTypeOK
<1>5. served' \in [Callers -> (Ids \X Held) \cup {Absent}]
  <2>1. CASE Answers(c, i, v)
    BY <1>1, <2>1, AnswersFacts DEF CacheInv
  <2>2. CASE UNCHANGED served
    BY <2>2 DEF CacheInv, CacheTypeOK
  <2> QED BY <1>3, <2>1, <2>2
<1>6. \A d \in Callers : call'[d].pc = "insert" => call'[d] = call[d]
  BY <1>3, RestsFacts DEF CacheInv
<1>7. CacheTypeOK'
  BY <1>3, <1>4, <1>5, RestsFacts DEF CacheInv, CacheTypeOK, Pending
<1>8. \A j \in Ids : target_cache'[j] # Absent =>
         since'[j][target_cache'[j].val] + target_cache'[j].left <= Window
  <2>1. since[i][v] + TTL <= Window
    BY <1>1, <1>2 DEF Window
  <2>2. \A j \in Ids : target_cache'[j] = IF j = i THEN [val |-> v, left |-> TTL] ELSE target_cache[j]
    BY <1>3 DEF CacheInv, CacheTypeOK
  <2> QED BY <1>3, <2>1, <2>2 DEF CacheInv, EntriesFresh
<1> QED BY <1>3, <1>6, <1>7, <1>8 DEF CacheInv, EntriesFresh, CurrentIsFresh, Pending

\* An entry that goes away, with or without a call that starts or stops.
LEMMA ForgetInv ==
  ASSUME CacheInv, NEW i \in Ids, target_cache' = [target_cache EXCEPT ![i] = Absent],
         \/ UNCHANGED call
         \/ \E c \in Callers : Resumes(c, "delete", i, Absent, FALSE),
         UNCHANGED <<row, since, served>>
  PROVE  CacheInv'
<1>1. /\ target_cache' \in [Ids -> [val : Values, left : 0 .. TTL] \cup {Absent}]
      /\ \A j \in Ids : target_cache'[j] # Absent => target_cache'[j] = target_cache[j]
  BY DEF CacheInv, CacheTypeOK
<1>2. \A d \in Callers : call'[d].pc = "insert" => call'[d] = call[d]
  BY DEF CacheInv, CacheTypeOK, Resumes
<1>3. CacheTypeOK'
  <2>1. CASE UNCHANGED call
    BY <1>1, <2>1 DEF CacheInv, CacheTypeOK, Pending
  <2>2. ASSUME NEW c \in Callers, Resumes(c, "delete", i, Absent, FALSE)
        PROVE  CacheTypeOK'
    <3>1. Absent \in Held /\ ("delete" = "insert" => Absent \in Values) /\ CacheTypeOK
      BY DEF Held, CacheInv
    <3>2. /\ call' \in [Callers -> [pc : {"rest", "read", "insert", "delete"}, id : Ids \cup {Absent},
                                    val : Held, age : 0 .. MaxCall, reads : BOOLEAN]]
          /\ \A d \in Callers : call'[d].pc # "rest" => call'[d].id \in Ids
          /\ \A d \in Callers : call'[d].pc = "insert" => call'[d].val \in Values
      BY <2>2, <3>1, ResumesFacts
    <3> QED BY <1>1, <3>1, <3>2 DEF CacheTypeOK, Pending
  <2> QED BY <2>1, <2>2
<1> QED BY <1>1, <1>2, <1>3 DEF CacheInv, EntriesFresh, CurrentIsFresh, Pending

LEMMA DeleteInv ==
  ASSUME CacheInv, NEW c \in Callers, DeleteRow(c)
  PROVE  CacheInv'
<1> DEFINE i == call[c].id
<1>1. i \in Ids /\ Absent \in Held
  BY DEF CacheInv, CacheTypeOK, DeleteRow, Held
<1>2. /\ Stored(i, Absent) \/ UNCHANGED <<row, since>>
      /\ call' = [call EXCEPT ![c] = Resting]
      /\ UNCHANGED <<target_cache, served>>
  BY DEF DeleteRow
<1> HIDE DEF i
<1>3. /\ row' \in [Ids -> Held]
      /\ since' \in [Ids -> [Held -> 0 .. Window + 1]]
      /\ CurrentIsFresh'
      /\ \A j \in Ids, w \in Held : since'[j][w] <= since[j][w]
  <2>1. CASE Stored(i, Absent)
    BY <1>1, <2>1, StoredFacts
  <2>2. CASE UNCHANGED <<row, since>>
    <3>1. \A j \in Ids, w \in Held : since[j][w] \in Nat
      BY WindowNat DEF CacheInv, CacheTypeOK
    <3> QED BY <2>2, <3>1 DEF CacheInv, CacheTypeOK, CurrentIsFresh
  <2> QED BY <1>2, <2>1, <2>2
<1>4. CacheTypeOK'
  BY <1>2, <1>3, RestsFacts DEF CacheInv, CacheTypeOK, Pending
<1>5. \A j \in Ids, w \in Held : since'[j][w] \in Nat /\ since[j][w] \in Nat
  BY <1>4, WindowNat DEF CacheInv, CacheTypeOK
<1>6. \A j \in Ids : target_cache'[j] # Absent =>
         since'[j][target_cache'[j].val] + target_cache'[j].left <= Window
  <2>1. \A j \in Ids : target_cache[j] # Absent => target_cache[j].val \in Held /\ target_cache[j].left \in Nat
    BY DEF CacheInv, CacheTypeOK, Held
  <2> QED BY <1>2, <1>3, <1>5, <2>1, WindowNat DEF CacheInv, EntriesFresh
<1>7. \A d \in Callers : Pending(d)' => since'[call'[d].id][call'[d].val] <= call'[d].age
  <2>1. SUFFICES ASSUME NEW d \in Callers, Pending(d)'
                 PROVE  since'[call'[d].id][call'[d].val] <= call'[d].age
    OBVIOUS
  <2>2. call'[d] = call[d] /\ Pending(d)
    BY <1>2, <2>1, RestsFacts DEF CacheInv, Pending
  <2>3. call[d].id \in Ids /\ call[d].val \in Held /\ call[d].age \in Nat
    BY <2>2 DEF CacheInv, CacheTypeOK, Pending
  <2> QED BY <1>3, <1>5, <2>2, <2>3 DEF CacheInv, EntriesFresh
<1>8. EntriesFresh'
  BY <1>6, <1>7 DEF EntriesFresh
<1> QED BY <1>3, <1>4, <1>8 DEF CacheInv

LEMMA DropInv ==
  ASSUME CacheInv, NEW c \in Callers, DropCall(c)
  PROVE  CacheInv'
<1>1. \A d \in Callers : call'[d].pc = "insert" => call'[d] = call[d]
  BY RestsFacts DEF CacheInv, DropCall
<1>2. CacheTypeOK'
  BY RestsFacts DEF CacheInv, CacheTypeOK, DropCall, Pending
<1> QED BY <1>1, <1>2 DEF CacheInv, EntriesFresh, CurrentIsFresh, DropCall, Pending

LEMMA TickInv ==
  ASSUME CacheInv, CacheTick
  PROVE  CacheInv'
<1> DEFINE Older(i, v) == IF v = row[i] THEN 0 ELSE Recent!Capped(since[i][v] + 1)
<1>1. \A i \in Ids, v \in Held : /\ since[i][v] \in 0 .. Window + 1
                                 /\ Older(i, v) \in 0 .. Window + 1
                                 /\ since[i][v] < Window => Older(i, v) <= since[i][v] + 1
  BY WindowNat DEF CacheInv, CacheTypeOK, Recent!Capped
<1>2. /\ since' = [i \in Ids |-> [v \in Held |-> Older(i, v)]]
      /\ UNCHANGED <<row, served>>
  BY DEF CacheTick
<1>3. \A i \in Ids, v \in Held : since'[i][v] = Older(i, v)
  BY <1>2
<1>4. since' \in [Ids -> [Held -> 0 .. Window + 1]]
  <2> HIDE DEF Older
  <2> QED BY <1>1, <1>2
<1>5. CurrentIsFresh'
  BY <1>2, <1>3 DEF CurrentIsFresh, CacheInv, CacheTypeOK
<1>6. \A d \in Callers : call'[d] = IF Pending(d) THEN [call[d] EXCEPT !.age = @ + 1] ELSE call[d]
  BY DEF CacheTick
<1>7. \A d \in Callers : /\ Pending(d)' <=> Pending(d)
                         /\ Pending(d) => /\ call'[d].id = call[d].id /\ call'[d].val = call[d].val
                                          /\ call'[d].age = call[d].age + 1 /\ call[d].age < MaxCall
                                          /\ call[d].age \in Nat /\ call[d].id \in Ids /\ call[d].val \in Held
  BY <1>6 DEF Pending, CacheTick, CacheInv, CacheTypeOK
<1>8. /\ call' \in [Callers -> [pc : {"rest", "read", "insert", "delete"}, id : Ids \cup {Absent},
                                val : Held, age : 0 .. MaxCall, reads : BOOLEAN]]
      /\ \A d \in Callers : call'[d].pc # "rest" => call'[d].id \in Ids
      /\ \A d \in Callers : Pending(d)' => call'[d].val \in Values
  <2>1. SUFFICES ASSUME NEW d \in Callers
                 PROVE  /\ call'[d] \in [pc : {"rest", "read", "insert", "delete"}, id : Ids \cup {Absent},
                                         val : Held, age : 0 .. MaxCall, reads : BOOLEAN]
                        /\ call'[d].pc # "rest" => call'[d].id \in Ids
                        /\ Pending(d)' => call'[d].val \in Values
    BY DEF CacheTick
  <2>2. /\ call[d] \in [pc : {"rest", "read", "insert", "delete"}, id : Ids \cup {Absent},
                        val : Held, age : 0 .. MaxCall, reads : BOOLEAN]
        /\ call[d].pc # "rest" => call[d].id \in Ids
        /\ Pending(d) => call[d].val \in Values
    BY DEF CacheInv, CacheTypeOK
  <2>3. CASE Pending(d)
    <3>1. call'[d] = [call[d] EXCEPT !.age = call[d].age + 1] /\ call[d].age + 1 \in 0 .. MaxCall
      BY <1>6, <1>7, <2>2, <2>3
    <3>2. /\ call'[d] \in [pc : {"rest", "read", "insert", "delete"}, id : Ids \cup {Absent},
                           val : Held, age : 0 .. MaxCall, reads : BOOLEAN]
          /\ call'[d].id = call[d].id /\ call'[d].val = call[d].val
      BY <2>2, <3>1
    <3> QED BY <1>7, <2>2, <2>3, <3>2
  <2>4. CASE ~Pending(d)
    BY <1>6, <1>7, <2>2, <2>4
  <2> QED BY <2>3, <2>4
<1>9. \A i \in Ids : /\ target_cache'[i] \in [val : Values, left : 0 .. TTL] \cup {Absent}
                     /\ target_cache'[i] # Absent =>
                           /\ target_cache[i] # Absent
                           /\ target_cache'[i].val = target_cache[i].val /\ target_cache[i].val \in Held
                           /\ target_cache[i].left \in Nat \ {0}
                           /\ target_cache'[i].left = target_cache[i].left - 1
  <2>1. SUFFICES ASSUME NEW i \in Ids
                 PROVE  /\ Aged(target_cache[i]) \in [val : Values, left : 0 .. TTL] \cup {Absent}
                        /\ Aged(target_cache[i]) # Absent =>
                              /\ target_cache[i] # Absent
                              /\ Aged(target_cache[i]).val = target_cache[i].val /\ target_cache[i].val \in Held
                              /\ target_cache[i].left \in Nat \ {0}
                              /\ Aged(target_cache[i]).left = target_cache[i].left - 1
    BY DEF CacheTick
  <2>2. CASE target_cache[i] = Absent
    BY <2>2 DEF Aged
  <2>3. CASE target_cache[i] # Absent
    <3>1. target_cache[i] \in [val : Values, left : 0 .. TTL]
      BY <2>3 DEF CacheInv, CacheTypeOK
    <3>2. Aged(target_cache[i]) = IF target_cache[i].left = 0 THEN Absent
                                  ELSE [target_cache[i] EXCEPT !.left = @ - 1]
      BY <2>3 DEF Aged
    <3> QED BY <3>1, <3>2, <2>3 DEF Held
  <2> QED BY <2>2, <2>3
<1>10. target_cache' \in [Ids -> [val : Values, left : 0 .. TTL] \cup {Absent}]
  BY <1>9 DEF CacheTick
<1>11. CacheTypeOK'
  BY <1>2, <1>4, <1>8, <1>10 DEF CacheInv, CacheTypeOK
<1> HIDE DEF Older
<1>12. \A i \in Ids : target_cache'[i] # Absent =>
          since'[i][target_cache'[i].val] + target_cache'[i].left <= Window
  BY <1>1, <1>3, <1>9, WindowNat DEF CacheInv, EntriesFresh
<1>13. \A d \in Callers : Pending(d)' => since'[call'[d].id][call'[d].val] <= call'[d].age
  BY <1>1, <1>3, <1>7, WindowNat DEF CacheInv, EntriesFresh
<1>14. EntriesFresh'
  BY <1>12, <1>13 DEF EntriesFresh
<1> QED BY <1>5, <1>11, <1>14 DEF CacheInv

LEMMA NextInv == CacheInv /\ [CacheNext]_cacheVars => CacheInv'
<1> SUFFICES ASSUME CacheInv, [CacheNext]_cacheVars PROVE CacheInv'
  OBVIOUS
<1>1. ASSUME NEW c \in Callers, ReadRow(c) PROVE CacheInv'
  BY <1>1, ReadInv
<1>2. ASSUME NEW c \in Callers, Insert(c) PROVE CacheInv'
  BY <1>2, InsertInv
<1>3. ASSUME NEW c \in Callers, DeleteRow(c) PROVE CacheInv'
  BY <1>3, DeleteInv
<1>4. ASSUME NEW c \in Callers, DropCall(c) PROVE CacheInv'
  BY <1>4, DropInv
<1>5. ASSUME NEW c \in Callers, NEW i \in Ids, cached_get_target(c, i) PROVE CacheInv'
  BY <1>5, GetInv
<1>6. ASSUME NEW c \in Callers, NEW i \in Ids, cached_delete_target(c, i) PROVE CacheInv'
  BY <1>6, ForgetInv DEF cached_delete_target
<1>7. ASSUME NEW c \in Callers, NEW i \in Ids, NEW v \in Values, cached_create_target(c, i, v) PROVE CacheInv'
  BY <1>7, WriteInv DEF cached_create_target
<1>8. ASSUME NEW c \in Callers, NEW i \in Ids, NEW v \in Values, cached_update_target(c, i, v) PROVE CacheInv'
  BY <1>8, WriteInv DEF cached_update_target
<1>9. ASSUME NEW i \in Ids, Evict(i) PROVE CacheInv'
  BY <1>9, ForgetInv DEF Evict
<1>10. CASE CacheTick
  BY <1>10, TickInv
<1>11. CASE UNCHANGED cacheVars
  BY <1>11 DEF CacheInv, CacheTypeOK, EntriesFresh, CurrentIsFresh, Pending, cacheVars
<1> QED BY <1>1, <1>2, <1>3, <1>4, <1>5, <1>6, <1>7, <1>8, <1>9, <1>10, <1>11 DEF CacheNext

\* Every step is a write, an answer or a tick of RecentRows, or changes nothing it shows.
LEMMA StepRefines == CacheInv /\ [CacheNext]_cacheVars => [Recent!Next]_<<row, since, served>>
<1> SUFFICES ASSUME CacheInv, [CacheNext]_cacheVars, ~UNCHANGED <<row, since, served>> PROVE Recent!Next
  OBVIOUS
<1>1. \A i \in Ids, v \in Held : since[i][v] \in Nat
  BY WindowNat DEF CacheInv, CacheTypeOK
<1>2. ASSUME NEW c \in Callers, NEW i \in Ids, NEW v \in Held, since[i][v] <= Window,
             Answers(c, i, v), UNCHANGED <<row, since>>
      PROVE  Recent!Next
  BY <1>2 DEF Recent!Next, Recent!Serve, Recent!Held, Held, Answers
<1>3. ASSUME NEW i \in Ids, NEW v \in Held, Stored(i, v), UNCHANGED served
      PROVE  Recent!Next
  BY <1>3 DEF Recent!Next, Recent!Store, Recent!Held, Held, Stored
<1>4. ASSUME NEW c \in Callers, ReadRow(c) PROVE Recent!Next
  <2> DEFINE i == call[c].id
  <2>1. i \in Ids /\ row[i] = Absent /\ Answers(c, i, Absent) /\ UNCHANGED <<row, since>>
    BY <1>4 DEF ReadRow, CacheInv, CacheTypeOK
  <2>2. since[i][Absent] <= Window
    BY <2>1, WindowNat DEF CacheInv, CurrentIsFresh
  <2> QED BY <1>2, <2>1, <2>2 DEF Held
<1>5. ASSUME NEW c \in Callers, Insert(c) PROVE Recent!Next
  <2> DEFINE i == call[c].id
             v == call[c].val
  <2>1. /\ i \in Ids /\ v \in Held /\ call[c].age \in 0 .. MaxCall /\ since[i][v] <= call[c].age
        /\ Answers(c, i, v) /\ UNCHANGED <<row, since>>
    BY <1>5 DEF Insert, CacheInv, CacheTypeOK, EntriesFresh, Pending
  <2>2. since[i][v] <= Window
    BY <1>1, <2>1, WindowNat
  <2> QED BY <1>2, <2>1, <2>2
<1>6. ASSUME NEW c \in Callers, NEW i \in Ids, cached_get_target(c, i) PROVE Recent!Next
  <2>1. target_cache[i] # Absent /\ Answers(c, i, target_cache[i].val) /\ UNCHANGED <<row, since>>
    BY <1>6 DEF cached_get_target
  <2>2. target_cache[i].val \in Held /\ target_cache[i].left \in Nat
    BY <2>1 DEF CacheInv, CacheTypeOK, Held
  <2>3. since[i][target_cache[i].val] <= Window
    BY <1>1, <2>1, <2>2, WindowNat DEF CacheInv, EntriesFresh
  <2> QED BY <1>2, <2>1, <2>2, <2>3
<1>7. ASSUME NEW c \in Callers, DeleteRow(c) PROVE Recent!Next
  <2>1. call[c].id \in Ids /\ Stored(call[c].id, Absent) /\ UNCHANGED served
    BY <1>7 DEF DeleteRow, CacheInv, CacheTypeOK
  <2> QED BY <1>3, <2>1 DEF Held
<1>8. ASSUME NEW c \in Callers, NEW i \in Ids, NEW v \in Values, cached_create_target(c, i, v) PROVE Recent!Next
  BY <1>3, <1>8 DEF cached_create_target, Held
<1>9. ASSUME NEW c \in Callers, NEW i \in Ids, NEW v \in Values, cached_update_target(c, i, v) PROVE Recent!Next
  BY <1>3, <1>9 DEF cached_update_target, Held
<1>10. CASE CacheTick
  BY <1>10 DEF CacheTick, Recent!Next, Recent!Tick, Recent!Held, Held
<1> QED
  BY <1>4, <1>5, <1>6, <1>7, <1>8, <1>9, <1>10
  DEF CacheNext, DropCall, cached_delete_target, Evict, cacheVars

(* An entry of the cache, and a row on its way into it, left the table no  *)
(* longer ago than the time they used up (get_target, create_target,       *)
(* update_target, delete_target of CachedStorage).                         *)
THEOREM EntriesStayFresh == CacheSpec => [](CacheTypeOK /\ EntriesFresh)
<1>1. CacheInv => CacheTypeOK /\ EntriesFresh
  BY DEF CacheInv
<1> QED BY <1>1, InitInv, NextInv, PTL DEF CacheSpec

(* The cache in front of the target table implements RecentRows: a write   *)
(* takes effect at once, and whatever order the two halves of concurrent   *)
(* calls come in, a read answers with a row the table held within the time *)
(* to live and the length of one call of now.                              *)
THEOREM CacheImplements == CacheSpec => CacheServesRecentRows
<1>1. CacheInit => Recent!Init
  BY DEF CacheInit, Recent!Init, Recent!Held, Held
<1> QED BY <1>1, InitInv, NextInv, StepRefines, PTL DEF CacheSpec, CacheServesRecentRows, Recent!Spec
=============================================================================
