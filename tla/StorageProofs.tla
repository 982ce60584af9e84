---------------------------- MODULE StorageProofs ----------------------------
(***************************************************************************)
(* DuckdbStorage implements MemoryStorage, but for the listed differences: *)
(* theorem DuckdbMirrorsMemory.  A step of a query is a step of the maps   *)
(* only when the columns a row is found and sorted by agree with the       *)
(* payload the answer is made of; that is the invariant StorageInv, which  *)
(* RowsStayInShape proves.  Everything else goes call by call, in the      *)
(* order of DuckNext: a lemma XStep says that a call of group X is a call  *)
(* of memory's group X or a difference, XKeeps that it keeps the           *)
(* invariant.                                                              *)
(***************************************************************************)
EXTENDS DuckdbStorage, FiniteSetTheorems, TLAPS

Plain == {"results", "assets", "pings", "expiry", "subscribers", "deliveries", "tokens", "bindings",
          "users", "sessions", "api_tokens", "links", "policies", "schedules", "overrides",
          "states", "postmortems", "shares"}

\* A table of plain columns is the map itself.
LEMMA PlainMap == \A table \in Plain : \A rows : AsMap(table, rows) = rows
  BY Zenon DEF Plain, AsMap

LEMMA PlainHeld ==
    ASSUME NEW table \in Plain
    PROVE  Maps[table] = duck[table]
  <1>1. table \in Tables BY DEF Plain, Tables
  <1> QED BY <1>1, PlainMap DEF Maps

\* The library's operators are the same on both sides of the INSTANCE.
LEMMA SameLibrary ==
    /\ \A S : Memory!SetToSeqs(S) = SetToSeqs(S)
    /\ \A f : Memory!Range(f) = Range(f)
    /\ \A S : Memory!Cardinality(S) = Cardinality(S)
    /\ \A f, S : Memory!Restrict(f, S) = Restrict(f, S)
    /\ \A S : Memory!Max(S) = Max(S)
    /\ \A s : Memory!ToSet(s) = ToSet(s)
  <1>1. \A S : Memory!Cardinality(S) = Cardinality(S)
    BY DEF Cardinality, Memory!Cardinality
  <1>2. \A S : Memory!SetToSeqs(S) = SetToSeqs(S)
    BY <1>1 DEF SetToSeqs, Memory!SetToSeqs
  <1>3. \A f : Memory!Range(f) = Range(f)
    BY DEF Range, Memory!Range
  <1>4. \A f, S : Memory!Restrict(f, S) = Restrict(f, S)
    BY DEF Restrict, Memory!Restrict
  <1>5. \A S : Memory!Max(S) = Max(S)
    BY DEF Max, Memory!Max
  <1>6. \A s : Memory!ToSet(s) = ToSet(s)
    BY DEF ToSet, Memory!ToSet
  <1> QED BY <1>1, <1>2, <1>3, <1>4, <1>5, <1>6

\* The answers, tables, sets and rules of StorageRows are the same on both sides too.
LEMMA SameResults ==
    /\ \A v : Memory!Ok(v) = Ok(v)
    /\ Memory!NotFound = NotFound /\ Memory!Conflict = Conflict
    /\ Memory!InvalidInput = InvalidInput
    /\ \A t, k, r : Memory!With(t, k, r) = With(t, k, r)
  BY DEF Memory!Ok, Ok, Memory!NotFound, NotFound, Memory!Conflict, Conflict,
         Memory!InvalidInput, InvalidInput, Memory!With, With

LEMMA SameSets ==
    /\ Memory!Times = Times
    /\ Memory!OptionalTimes = OptionalTimes
    /\ Memory!Statuses = Statuses
    /\ Memory!Filters = Filters
    /\ Memory!Transitions = Transitions
    /\ Memory!UserPatches = UserPatches
    /\ Memory!ChannelPatches = ChannelPatches
  BY DEF Memory!Times, Times, Memory!OptionalTimes, OptionalTimes, Memory!Statuses, Statuses,
         Memory!Filters, Filters, Memory!Transitions, Transitions, Memory!UserPatches, UserPatches,
         Memory!ChannelPatches, ChannelPatches

LEMMA SameRules ==
    /\ \A l, n : Memory!FirstOf(l, n) = FirstOf(l, n)
    /\ \A n : Memory!Backoff(n) = Backoff(n)
    /\ \A r, f, now : Memory!InWindow(r, f, now) = InWindow(r, f, now)
    /\ \A o, t : Memory!next_state(o, t) = next_state(o, t)
    /\ \A i, t, s, n, now : Memory!patched(i, t, s, n, now) = patched(i, t, s, n, now)
  <1>1. \A l, n : Memory!FirstOf(l, n) = FirstOf(l, n)
    BY DEF Memory!FirstOf, FirstOf
  <1>2. \A n : Memory!Backoff(n) = Backoff(n)
    BY DEF Memory!Backoff, Backoff
  <1>3. \A r, f, now : Memory!InWindow(r, f, now) = InWindow(r, f, now)
    BY Zenon DEF Memory!InWindow, InWindow, Memory!IsActive, IsActive
  <1>4. \A o, t : Memory!next_state(o, t) = next_state(o, t)
    BY Zenon DEF Memory!next_state, next_state
  <1>5. ASSUME NEW i, NEW t, NEW s, NEW n, NEW now
        PROVE  Memory!patched(i, t, s, n, now) = patched(i, t, s, n, now)
    BY <1>4, Zenon DEF Memory!patched, patched
  <1> QED BY <1>1, <1>2, <1>3, <1>4, <1>5, Zenon

\* A statement that only answers is a read of the maps.
LEMMA AnswerHeld ==
    ASSUME NEW answers, Answer(answers)
    PROVE  Memory!Answer(answers)
  <1>1. UNCHANGED duck BY DEF Answer
  <1>2. UNCHANGED Maps BY <1>1 DEF Maps
  <1> QED BY <1>2 DEF Answer, Memory!Answer

LEMMA ReadHeld ==
    ASSUME NEW answer, Read(answer)
    PROVE  Memory!Read(answer)
  <1> DEFINE A == {answer}
  <1>1. Answer(A) BY DEF Read
  <1>2. Memory!Answer(A) BY <1>1, AnswerHeld
  <1> QED BY <1>2 DEF Memory!Read

\* A statement that writes one table writes one map.
LEMMA PutHeld ==
    ASSUME NEW table \in Tables, NEW rows, NEW answer, DOMAIN duck = Tables,
           Put(table, rows, answer)
    PROVE  Memory!Write(table, AsMap(table, rows), answer)
  <1>1. duck' = [duck EXCEPT ![table] = rows] BY DEF Put
  <1>2. Maps' = [Maps EXCEPT ![table] = AsMap(table, rows)]
    <2>1. Maps' = [t \in Tables |-> AsMap(t, duck'[t])] BY DEF Maps
    <2>2. \A t \in Tables : duck'[t] = IF t = table THEN rows ELSE duck[t] BY <1>1
    <2>3. \A t \in Tables : AsMap(t, duck'[t]) = IF t = table THEN AsMap(t, rows) ELSE AsMap(t, duck[t])
      BY <2>2
    <2> QED BY <2>1, <2>3 DEF Maps
  <1> QED BY <1>1, <1>2 DEF Put, Memory!Write

LEMMA PlainPutHeld ==
    ASSUME NEW table \in Plain, NEW rows, NEW answer, DOMAIN duck = Tables,
           Put(table, rows, answer)
    PROVE  Memory!Write(table, rows, answer)
  <1>1. table \in Tables BY DEF Plain, Tables
  <1> QED BY <1>1, PutHeld, PlainMap

LEMMA PlainWriteHeld ==
    ASSUME NEW table \in Plain, NEW rows, NEW answer, DOMAIN duck = Tables,
           Write(table, rows, answer)
    PROVE  Memory!Write(table, rows, answer)
  BY PlainPutHeld DEF Write

WithPayload == {"targets", "incidents", "pages", "windows", "silences", "channels"}

\* A table with a payload column stands for the map of its payloads.
LEMMA PayloadMap ==
    \A table \in WithPayload : \A rows : AsMap(table, rows) = [k \in DOMAIN rows |-> rows[k].payload]
  BY Zenon DEF WithPayload, AsMap

LEMMA PayloadHeld ==
    ASSUME NEW table \in WithPayload
    PROVE  /\ DOMAIN Maps[table] = DOMAIN duck[table]
           /\ \A k \in DOMAIN duck[table] : Maps[table][k] = duck[table][k].payload
           /\ Range(Maps[table]) = {r.payload : r \in Range(duck[table])}
  <1>1. table \in Tables BY DEF WithPayload, Tables
  <1>2. Maps[table] = [k \in DOMAIN duck[table] |-> duck[table][k].payload]
    BY <1>1, PayloadMap DEF Maps
  <1> QED BY <1>2 DEF Range

\* Putting a row, or dropping rows, commutes with taking the payloads.
LEMMA PayloadWith ==
    ASSUME NEW table \in WithPayload, NEW rows, NEW k, NEW row
    PROVE  AsMap(table, With(rows, k, row)) = With(AsMap(table, rows), k, row.payload)
  <1>1. PICK new : new = With(rows, k, row) OBVIOUS
  <1>2. AsMap(table, new) = [x \in DOMAIN new |-> new[x].payload] BY PayloadMap
  <1>3. AsMap(table, rows) = [x \in DOMAIN rows |-> rows[x].payload] BY PayloadMap
  <1> QED BY <1>1, <1>2, <1>3 DEF With

LEMMA PayloadRestrict ==
    ASSUME NEW table \in WithPayload, NEW rows, NEW S \in SUBSET DOMAIN rows
    PROVE  AsMap(table, Restrict(rows, S)) = Restrict(AsMap(table, rows), S)
  <1>1. PICK new : new = Restrict(rows, S) OBVIOUS
  <1>2. AsMap(table, new) = [x \in DOMAIN new |-> new[x].payload] BY PayloadMap
  <1>3. AsMap(table, rows) = [x \in DOMAIN rows |-> rows[x].payload] BY PayloadMap
  <1> QED BY <1>1, <1>2, <1>3 DEF Restrict

\* A statement that puts or deletes a row puts or deletes its payload.
LEMMA SetPayload ==
    ASSUME NEW table \in WithPayload, NEW k, NEW row, NEW answer, DOMAIN duck = Tables,
           Put(table, With(duck[table], k, row), answer)
    PROVE  Memory!Write(table, With(Maps[table], k, row.payload), answer)
  <1>1. table \in Tables BY DEF WithPayload, Tables
  <1>2. PICK rows : rows = With(duck[table], k, row) OBVIOUS
  <1>3. Memory!Write(table, AsMap(table, rows), answer) BY <1>1, <1>2, PutHeld
  <1>4. AsMap(table, rows) = With(AsMap(table, duck[table]), k, row.payload) BY <1>2, PayloadWith
  <1>5. AsMap(table, duck[table]) = Maps[table] BY <1>1 DEF Maps
  <1> QED BY <1>3, <1>4, <1>5

LEMMA PutPayload ==
    ASSUME NEW table \in WithPayload, NEW k, NEW row, NEW answer, DOMAIN duck = Tables,
           Write(table, With(duck[table], k, row), answer)
    PROVE  Memory!Write(table, With(Maps[table], k, row.payload), answer)
  BY SetPayload DEF Write

LEMMA DropPayload ==
    ASSUME NEW table \in WithPayload, NEW k, NEW answer, DOMAIN duck = Tables,
           Write(table, Restrict(duck[table], DOMAIN duck[table] \ {k}), answer)
    PROVE  Memory!Write(table, Restrict(Maps[table], DOMAIN Maps[table] \ {k}), answer)
  <1>1. table \in Tables BY DEF WithPayload, Tables
  <1>2. PICK S : S = DOMAIN duck[table] \ {k} OBVIOUS
  <1>3. PICK rows : rows = Restrict(duck[table], S) OBVIOUS
  <1>4. Memory!Write(table, AsMap(table, rows), answer) BY <1>1, <1>2, <1>3, PutHeld DEF Write
  <1>5. AsMap(table, rows) = Restrict(AsMap(table, duck[table]), S)
    BY <1>2, <1>3, PayloadRestrict
  <1>6. AsMap(table, duck[table]) = Maps[table] BY <1>1 DEF Maps
  <1>7. DOMAIN Maps[table] = DOMAIN duck[table] BY PayloadHeld
  <1> QED BY <1>2, <1>4, <1>5, <1>6, <1>7

\* When payloads tell rows apart, an order of the rows is an order of the payloads.
LEMMA PayloadOrder ==
    ASSUME NEW R, IsFiniteSet(R), \A r, q \in R : r.payload = q.payload => r = q,
           NEW s \in SetToSeqs(R)
    PROVE  /\ [i \in DOMAIN s |-> s[i].payload] \in SetToSeqs({r.payload : r \in R})
           /\ DOMAIN s = 1..Cardinality(R)
           /\ \A i \in DOMAIN s : s[i] \in R
  <1>1. PICK P : P = {r.payload : r \in R} OBVIOUS
  <1>2. Cardinality(P) = Cardinality(R)
    <2>1. PICK f : f = [r \in R |-> r.payload] OBVIOUS
    <2>2. f \in Bijection(R, P) BY <1>1, <2>1 DEF Bijection, Injection, Surjection, IsInjective
    <2>3. ExistsBijection(R, P) BY <2>2 DEF ExistsBijection
    <2> QED BY <2>3, FS_Bijection
  <1>3. /\ s \in [1..Cardinality(R) -> R]
        /\ \A i, j \in 1..Cardinality(R) : i # j => s[i] # s[j]
    BY DEF SetToSeqs
  <1>4. PICK t : t = [i \in DOMAIN s |-> s[i].payload] OBVIOUS
  <1>5. t \in [1..Cardinality(P) -> P] BY <1>1, <1>2, <1>3, <1>4
  <1>6. \A i, j \in 1..Cardinality(P) : i # j => t[i] # t[j] BY <1>2, <1>3, <1>4
  <1>7. t \in SetToSeqs(P) BY <1>5, <1>6 DEF SetToSeqs
  <1> QED BY <1>1, <1>3, <1>4, <1>7

----------------------------------------------------------------------------
(* The rows of the tables: what is projected out of a payload agrees with  *)
(* it, and a payload carries the key it is stored under.                   *)

TargetPayload(k) == [id : {k}, enabled : BOOLEAN, created_at : Times]
TargetRows(rows) == \A k \in DOMAIN rows :
    k \in Ids /\ \E p \in TargetPayload(k) : rows[k] = target_row(p)
IncidentPayload(k) == [id : {k}, target : Ids, started_at : Times, ended_at : OptionalTimes,
                       severity : {"minor", "major"}, notes : Nat]
IncidentRows(rows) == \A k \in DOMAIN rows :
    k \in Ids /\ \E p \in IncidentPayload(k) : rows[k] = incident_row(p)
PagePayload(k) == [id : {k}, slug : Ids, created_at : Times]
PageRows(rows) == \A k \in DOMAIN rows :
    k \in Ids /\ \E p \in PagePayload(k) : rows[k] = page_row(p)
\* A reorder changes the sort_order column alone.
ComponentRow(k, row) ==
    /\ k \in Ids \X Ids
    /\ \E sent, order : row = [payload |-> [target |-> k[2], sort_order |-> sent],
                               sort_order |-> order]
ComponentRows(rows) == \A k \in DOMAIN rows : ComponentRow(k, rows[k])
WindowRows(rows) == \A k \in DOMAIN rows :
    k \in Ids /\ \E w \in Windows : w.id = k /\ rows[k] = window_row(w)
SilencePayload(k) == [id : {k}, target : Ids \cup {None}, starts_at : Times, ends_at : Times]
SilenceRows(rows) == \A k \in DOMAIN rows :
    k \in Ids /\ \E p \in SilencePayload(k) : rows[k] = silence_row(p)
ChannelPayload(k) == [id : {k}, config : {0, 1}, enabled : BOOLEAN, disabled_reason : {None, 1},
                      verified_at : OptionalTimes, created_at : Times]
\* Two methods write the payload column alone.
ChannelRows(rows) == \A k \in DOMAIN rows :
    /\ k \in Ids
    /\ \E p \in ChannelPayload(k), sealed, enabled \in BOOLEAN :
          rows[k] = [payload |-> p, sealed |-> sealed, enabled |-> enabled,
                     created_at |-> p.created_at]
VariableRows(rows) == \A k \in DOMAIN rows :
    k \in Ids /\ rows[k] \in [id : {k}, key : Ids, secret : BOOLEAN, value : {Blank, 1}]
PostmortemPayload(k) == [id : {k}, body : {1, 2}, created_at : Times, updated_at : Times,
                         published_at : OptionalTimes]
PostmortemRows(rows) == \A k \in DOMAIN rows : rows[k] \in PostmortemPayload(k)
UserPayload(k) == [id : {k}, email : Ids, name : {None, 1}, theme : {0, 1},
                   last_seen_at : OptionalTimes]
UserRows(rows) == \A k \in DOMAIN rows : rows[k] \in UserPayload(k)
ResultRows(rows) == \A k \in DOMAIN rows :
    k \in Ids \X Times /\ rows[k] \in [target : {k[1]}, ts : {k[2]}, status : Statuses]

\* What a call between its two halves was asked and has read.
Pending(p) ==
    \/ p.call = <<"dashboard_summary">>
    \/ \E i \in Ids : /\ p.call = <<"add_incident_update", i>>
                      /\ p.row \in IncidentPayload(i)
    \/ \E i \in Ids : p.call = <<"get_on_call_schedule", i>>
    \/ \E i \in Ids : /\ \E patch \in UserPatches : p.call = <<"update_user", i, patch[1], patch[2]>>
                      /\ p.row \in UserPayload(i)
    \/ \E i \in Ids : /\ \/ p.call = <<"set_channel_verified", i>>
                         \/ p.call = <<"set_channel_disabled_reason", i, 1>>
                         \/ \E patch \in ChannelPatches :
                               p.call = <<"update_notification_channel", i, patch[1], patch[2]>>
                      /\ p.row \in ChannelPayload(i)

RowsAgree(d) ==
    /\ DOMAIN d = Tables
    /\ TargetRows(d.targets) /\ IncidentRows(d.incidents) /\ PageRows(d.pages)
    /\ ComponentRows(d.components) /\ WindowRows(d.windows) /\ SilenceRows(d.silences)
    /\ ChannelRows(d.channels) /\ VariableRows(d.variables) /\ PostmortemRows(d.postmortems)
    /\ UserRows(d.users) /\ ResultRows(d.results)
CallsAgree == \A c \in Clients : inflight[c] # None => Pending(inflight[c])
\* No check result lies in the future.
ResultsPast(rows, now) == \A k \in DOMAIN rows : k[2] <= now
StorageInv == /\ RowsAgree(duck) /\ CallsAgree /\ ResultsPast(duck.results, clock)
              /\ clock \in Times /\ DOMAIN inflight = Clients
----------------------------------------------------------------------------
(* Tables of plain columns.                                                *)

LEMMA BeatStep ==
    ASSUME DOMAIN duck = Tables, BeatCalls
    PROVE  Memory!BeatCalls
  <1>1. "pings" \in Plain /\ "expiry" \in Plain BY DEF Plain
  <1>2. Maps.pings = duck.pings /\ Maps.expiry = duck.expiry BY <1>1, PlainHeld
  <1>3. ASSUME NEW t \in Ids, record_heartbeat_ping(t)
        PROVE  Memory!record_heartbeat_ping(t)
    BY <1>3, <1>1, <1>2, PlainWriteHeld, SameResults
    DEF record_heartbeat_ping, REPLACE_INTO, Memory!record_heartbeat_ping, Memory!Upsert
  <1>4. ASSUME NEW t \in Ids, get_last_heartbeat_ping(t)
        PROVE  Memory!get_last_heartbeat_ping(t)
    BY <1>4, <1>1, <1>2, ReadHeld, SameResults
    DEF get_last_heartbeat_ping, SELECT_OPTION, Has, Memory!get_last_heartbeat_ping,
        Memory!Lookup
  <1>5. ASSUME NEW t \in Ids, get_domain_expiry_state(t)
        PROVE  Memory!get_domain_expiry_state(t)
    BY <1>5, <1>1, <1>2, ReadHeld, SameResults
    DEF get_domain_expiry_state, SELECT_OPTION, Has, Memory!get_domain_expiry_state,
        Memory!Lookup
  <1>6. ASSUME NEW t \in Ids, NEW at \in Times, set_domain_expiry_state(t, at)
        PROVE  Memory!set_domain_expiry_state(t, at)
    BY <1>6, <1>1, <1>2, PlainWriteHeld, SameResults
    DEF set_domain_expiry_state, REPLACE_INTO, Memory!set_domain_expiry_state, Memory!Upsert
  <1> QED BY <1>3, <1>4, <1>5, <1>6, SameSets
    DEF BeatCalls, Memory!BeatCalls

LEMMA SubscriberStep ==
    ASSUME DOMAIN duck = Tables, SubscriberCalls
    PROVE  Memory!SubscriberCalls
  <1>1. "subscribers" \in Plain BY DEF Plain
  <1>2. Maps.subscribers = duck.subscribers BY <1>1, PlainHeld
  <1>3. ASSUME NEW i \in Ids, list_subscribers(i)
        PROVE  Memory!list_subscribers(i)
    BY <1>3, <1>1, <1>2, AnswerHeld, SameLibrary, SameResults
    DEF list_subscribers, Ascending, SELECT_ORDERED, Where, created_at, Memory!list_subscribers,
        Memory!Ascending, Memory!Lists, Memory!Where, Memory!created_at
  <1>4. ASSUME NEW i \in Ids, verify_subscriber(i)
        PROVE  Memory!verify_subscriber(i)
    BY <1>4, <1>1, <1>2, ReadHeld, PlainWriteHeld, SameResults
    DEF verify_subscriber, Has, UPDATE, Memory!verify_subscriber, Memory!Upsert
  <1>5. ASSUME NEW i \in Ids, delete_subscriber(i)
        PROVE  Memory!delete_subscriber(i)
    BY <1>5, <1>1, <1>2, ReadHeld, PlainWriteHeld, SameLibrary, SameResults
    DEF delete_subscriber, DELETE_ONE, DELETE_KEY, Has, Memory!delete_subscriber,
        Memory!RemoveRow
  <1>6. ASSUME NEW i \in Ids, NEW p \in Ids, create_subscriber(i, p)
        PROVE  Memory!create_subscriber(i, p)
    BY <1>6, <1>1, <1>2, ReadHeld, PlainWriteHeld, SameResults
    DEF create_subscriber, INSERT, Has, Memory!create_subscriber, Memory!InsertNew
  <1>7. ASSUME NEW before \in Times, delete_unverified_subscribers(before)
        PROVE  Memory!delete_unverified_subscribers(before)
    BY <1>7, <1>1, <1>2, PlainWriteHeld, SameLibrary, SameResults
    DEF delete_unverified_subscribers, DELETE_COUNT, Where, Without, RestrictValues,
        Memory!delete_unverified_subscribers, Memory!Purge, Memory!Where, Memory!Without,
        Memory!RestrictValues
  <1> QED BY <1>3, <1>4, <1>5, <1>6, <1>7, SameSets
    DEF SubscriberCalls, Memory!SubscriberCalls

LEMMA TokenStep ==
    ASSUME DOMAIN duck = Tables, TokenCalls
    PROVE  Memory!TokenCalls
  <1>1. "tokens" \in Plain BY DEF Plain
  <1>2. Maps.tokens = duck.tokens BY <1>1, PlainHeld
  <1>3. ASSUME NEW h \in Ids, consume_channel_verification_token(h)
        PROVE  Memory!consume_channel_verification_token(h)
    BY <1>3, <1>1, <1>2, ReadHeld, PlainWriteHeld, SameResults
    DEF consume_channel_verification_token, Has, UPDATE,
        Memory!consume_channel_verification_token, Memory!Redeemable, Memory!Upsert
  <1>4. ASSUME NEW h \in Ids, NEW c \in Ids, NEW e \in Times,
        create_channel_verification_token(h, c, e)
        PROVE  Memory!create_channel_verification_token(h, c, e)
    BY <1>4, <1>1, <1>2, ReadHeld, PlainWriteHeld, SameResults
    DEF create_channel_verification_token, Has, INSERT,
        Memory!create_channel_verification_token, Memory!Upsert
  <1> QED BY <1>3, <1>4, SameSets
    DEF TokenCalls, Memory!TokenCalls

LEMMA SessionStep ==
    ASSUME DOMAIN duck = Tables, SessionCalls
    PROVE  Memory!SessionCalls
  <1>1. "sessions" \in Plain BY DEF Plain
  <1>2. Maps.sessions = duck.sessions BY <1>1, PlainHeld
  <1>3. ASSUME NEW i \in Ids, lookup_session(i)
        PROVE  Memory!lookup_session(i)
    BY <1>3, <1>1, <1>2, ReadHeld, SameResults
    DEF lookup_session, SELECT_OPTION, Has, Memory!lookup_session, Memory!Lookup
  <1>4. ASSUME NEW i \in Ids, touch_session(i)
        PROVE  Memory!touch_session(i)
    BY <1>4, <1>1, <1>2, ReadHeld, PlainWriteHeld, SameResults
    DEF touch_session, Has, UPDATE, Memory!touch_session, Memory!Upsert
  <1>5. ASSUME NEW i \in Ids, delete_session(i)
        PROVE  Memory!delete_session(i)
    BY <1>5, <1>1, <1>2, PlainWriteHeld, SameLibrary, SameResults
    DEF delete_session, DELETE_KEY, Memory!delete_session, Memory!RemoveIfThere
  <1>6. ASSUME NEW i \in Ids, list_sessions(i)
        PROVE  Memory!list_sessions(i)
    BY <1>6, <1>1, <1>2, AnswerHeld, SameLibrary, SameResults
    DEF list_sessions, Descending, SELECT_ORDERED, Where, created_at, Ascending,
        Memory!list_sessions, Memory!Descending, Memory!Lists, Memory!Where, Memory!created_at,
        Memory!Ascending
  <1>7. ASSUME NEW u \in Ids, NEW h \in Ids, delete_other_sessions(u, h)
        PROVE  Memory!delete_other_sessions(u, h)
    BY <1>7, <1>1, <1>2, PlainWriteHeld, SameLibrary, SameResults
    DEF delete_other_sessions, DELETE_COUNT, Where, Without, RestrictValues,
        Memory!delete_other_sessions, Memory!Purge, Memory!Where, Memory!Without,
        Memory!RestrictValues
  <1>8. ASSUME NEW h \in Ids, NEW u \in Ids, NEW e \in Times, create_session(h, u, e)
        PROVE  Memory!create_session(h, u, e)
    BY <1>8, <1>1, <1>2, ReadHeld, PlainWriteHeld, SameResults
    DEF create_session, INSERT, Has, Memory!create_session, Memory!InsertNew
  <1>9. ASSUME NEW now \in Times, delete_expired_sessions(now)
        PROVE  Memory!delete_expired_sessions(now)
    BY <1>9, <1>1, <1>2, PlainWriteHeld, SameLibrary, SameResults
    DEF delete_expired_sessions, DELETE_COUNT, Where, Without, RestrictValues,
        Memory!delete_expired_sessions, Memory!Purge, Memory!Where, Memory!Without,
        Memory!RestrictValues
  <1> QED BY <1>3, <1>4, <1>5, <1>6, <1>7, <1>8, <1>9, SameSets
    DEF SessionCalls, Memory!SessionCalls

LEMMA ApiTokenStep ==
    ASSUME DOMAIN duck = Tables, ApiTokenCalls
    PROVE  Memory!ApiTokenCalls
  <1>1. "api_tokens" \in Plain BY DEF Plain
  <1>2. Maps.api_tokens = duck.api_tokens BY <1>1, PlainHeld
  <1>3. ASSUME NEW i \in Ids, find_api_tokens_by_prefix(i)
        PROVE  Memory!find_api_tokens_by_prefix(i)
    BY <1>3, <1>1, <1>2, AnswerHeld, SameLibrary, SameResults
    DEF find_api_tokens_by_prefix, Descending, SELECT_ORDERED, Where, created_at, Ascending,
        Memory!find_api_tokens_by_prefix, Memory!Descending, Memory!Lists, Memory!Where,
        Memory!created_at, Memory!Ascending
  <1>4. ASSUME NEW i \in Ids, list_api_tokens(i)
        PROVE  Memory!list_api_tokens(i)
    BY <1>4, <1>1, <1>2, AnswerHeld, SameLibrary, SameResults
    DEF list_api_tokens, Descending, SELECT_ORDERED, Where, created_at, Ascending,
        Memory!list_api_tokens, Memory!Descending, Memory!Lists, Memory!Where,
        Memory!created_at, Memory!Ascending
  <1>5. ASSUME NEW i \in Ids, NEW name \in {1}, update_api_token(i, name)
        PROVE  Memory!update_api_token(i, name)
    BY <1>5, <1>1, <1>2, ReadHeld, PlainWriteHeld, SameResults
    DEF update_api_token, Has, UPDATE, Memory!update_api_token, Memory!Upsert
  <1>6. ASSUME NEW i \in Ids, touch_api_token(i)
        PROVE  Memory!touch_api_token(i)
    BY <1>6, <1>1, <1>2, ReadHeld, PlainWriteHeld, SameResults
    DEF touch_api_token, Has, UPDATE, Memory!touch_api_token, Memory!Upsert
  <1>7. ASSUME NEW i \in Ids, delete_api_token(i)
        PROVE  Memory!delete_api_token(i)
    BY <1>7, <1>1, <1>2, PlainWriteHeld, SameLibrary, SameResults
    DEF delete_api_token, DELETE_KEY, Memory!delete_api_token, Memory!RemoveIfThere
  <1>8. ASSUME NEW i \in Ids, delete_api_tokens_for_user(i)
        PROVE  Memory!delete_api_tokens_for_user(i)
    BY <1>8, <1>1, <1>2, PlainWriteHeld, SameLibrary, SameResults
    DEF delete_api_tokens_for_user, DELETE_COUNT, Where, Without, RestrictValues,
        Memory!delete_api_tokens_for_user, Memory!Purge, Memory!Where, Memory!Without,
        Memory!RestrictValues
  <1>9. ASSUME NEW i \in Ids, NEW u \in Ids, NEW prefix \in {1}, NEW e \in {None, 1},
        create_api_token(i, u, prefix, e)
        PROVE  Memory!create_api_token(i, u, prefix, e)
    BY <1>9, <1>1, <1>2, ReadHeld, PlainWriteHeld, SameResults
    DEF create_api_token, Has, INSERT, Memory!create_api_token, Memory!InsertNew
  <1>10. ASSUME NEW cutoff \in Times, delete_expired_api_tokens(cutoff)
        PROVE  Memory!delete_expired_api_tokens(cutoff)
    BY <1>10, <1>1, <1>2, PlainWriteHeld, SameLibrary, SameResults
    DEF delete_expired_api_tokens, DELETE_COUNT, Where, Without, RestrictValues,
        Memory!delete_expired_api_tokens, Memory!Purge, Memory!Where, Memory!Without,
        Memory!RestrictValues
  <1> QED BY <1>3, <1>4, <1>5, <1>6, <1>7, <1>8, <1>9, <1>10, SameSets
    DEF ApiTokenCalls, Memory!ApiTokenCalls

LEMMA LinkStep ==
    ASSUME DOMAIN duck = Tables, LinkCalls
    PROVE  Memory!LinkCalls
  <1>1. "links" \in Plain BY DEF Plain
  <1>2. Maps.links = duck.links BY <1>1, PlainHeld
  <1>3. ASSUME NEW i \in Ids, find_magic_links_by_prefix(i)
        PROVE  Memory!find_magic_links_by_prefix(i)
    BY <1>3, <1>1, <1>2, AnswerHeld, SameLibrary, SameResults
    DEF find_magic_links_by_prefix, Descending, SELECT_ORDERED, Where, created_at, Ascending,
        Memory!find_magic_links_by_prefix, Memory!Descending, Memory!Lists, Memory!Where,
        Memory!created_at, Memory!Ascending
  <1>4. ASSUME NEW i \in Ids, consume_magic_link(i)
        PROVE  Memory!consume_magic_link(i)
    BY <1>4, <1>1, <1>2, ReadHeld, PlainWriteHeld, SameResults
    DEF consume_magic_link, Has, UPDATE, Memory!consume_magic_link, Memory!Upsert
  <1>5. ASSUME NEW i \in Ids, NEW prefix \in Ids, NEW e \in Times,
        create_magic_link(i, prefix, e)
        PROVE  Memory!create_magic_link(i, prefix, e)
    BY <1>5, <1>1, <1>2, ReadHeld, PlainWriteHeld, SameResults
    DEF create_magic_link, Has, INSERT, Memory!create_magic_link, Memory!InsertNew
  <1>6. ASSUME NEW now \in Times, delete_expired_magic_links(now)
        PROVE  Memory!delete_expired_magic_links(now)
    BY <1>6, <1>1, <1>2, PlainWriteHeld, SameLibrary, SameResults
    DEF delete_expired_magic_links, DELETE_COUNT, Where, Without, RestrictValues,
        Memory!delete_expired_magic_links, Memory!Purge, Memory!Where, Memory!Without,
        Memory!RestrictValues
  <1> QED BY <1>3, <1>4, <1>5, <1>6, SameSets
    DEF LinkCalls, Memory!LinkCalls

LEMMA EscalationStep ==
    ASSUME DOMAIN duck = Tables, EscalationCalls
    PROVE  Memory!EscalationCalls
  <1>1. "policies" \in Plain /\ "states" \in Plain BY DEF Plain
  <1>2. Maps.policies = duck.policies /\ Maps.states = duck.states BY <1>1, PlainHeld
  <1>3. ASSUME list_escalation_policies PROVE Memory!list_escalation_policies
    BY <1>3, <1>1, <1>2, AnswerHeld, SameLibrary, SameResults
    DEF list_escalation_policies, Ascending, SELECT_ORDERED, created_at,
        Memory!list_escalation_policies, Memory!Ascending, Memory!Lists, Memory!created_at,
        Memory!summary
  <1>4. ASSUME NEW i \in Ids, get_escalation_policy(i)
        PROVE  Memory!get_escalation_policy(i)
    BY <1>4, <1>1, <1>2, ReadHeld, SameResults
    DEF get_escalation_policy, SELECT_ONE, Has, Memory!get_escalation_policy, Memory!GetRow
  <1>5. ASSUME NEW i \in Ids, delete_escalation_policy(i)
        PROVE  Memory!delete_escalation_policy(i)
    BY <1>5, <1>1, <1>2, ReadHeld, PlainWriteHeld, SameLibrary, SameResults
    DEF delete_escalation_policy, DELETE_ONE, DELETE_KEY, Has, Memory!delete_escalation_policy,
        Memory!RemoveRow
  <1>6. ASSUME NEW i \in Ids, get_escalation_state(i)
        PROVE  Memory!get_escalation_state(i)
    BY <1>6, <1>1, <1>2, ReadHeld, SameResults
    DEF get_escalation_state, SELECT_OPTION, Has, Memory!get_escalation_state, Memory!Lookup
  <1>7. ASSUME NEW i \in Ids, ack_escalation_state(i)
        PROVE  Memory!ack_escalation_state(i)
    BY <1>7, <1>1, <1>2, ReadHeld, PlainWriteHeld, SameResults
    DEF ack_escalation_state, Has, UPDATE, Memory!ack_escalation_state, Memory!Upsert
  <1>8. ASSUME NEW i \in Ids, delete_escalation_state(i)
        PROVE  Memory!delete_escalation_state(i)
    BY <1>8, <1>1, <1>2, PlainWriteHeld, SameLibrary, SameResults
    DEF delete_escalation_state, DELETE_KEY, Memory!delete_escalation_state,
        Memory!RemoveIfThere
  <1>9. ASSUME NEW p \in Policies, upsert_escalation_policy(p)
        PROVE  Memory!upsert_escalation_policy(p)
    BY <1>9, <1>1, <1>2, PlainWriteHeld, SameResults
    DEF upsert_escalation_policy, REPLACE_INTO, Memory!upsert_escalation_policy, Memory!Upsert
  <1>10. ASSUME NEW s \in States, upsert_escalation_state(s)
        PROVE  Memory!upsert_escalation_state(s)
    BY <1>10, <1>1, <1>2, PlainWriteHeld, SameResults
    DEF upsert_escalation_state, REPLACE_INTO, Memory!upsert_escalation_state, Memory!Upsert
  <1>11. ASSUME NEW now \in Times, list_due_escalation_states(now)
        PROVE  Memory!list_due_escalation_states(now)
    BY <1>11, <1>1, <1>2, AnswerHeld, SameLibrary, SameResults
    DEF list_due_escalation_states, Ascending, SELECT_ORDERED, Where,
        Memory!list_due_escalation_states, Memory!Ascending, Memory!Lists, Memory!Where
  <1> QED BY <1>3, <1>4, <1>5, <1>6, <1>7, <1>8, <1>9, <1>10, <1>11, SameSets
    DEF EscalationCalls, Memory!EscalationCalls, Policies, States, Memory!Policies,
        Memory!States

LEMMA ShareStep ==
    ASSUME DOMAIN duck = Tables, ShareCalls
    PROVE  Memory!ShareCalls
  <1>1. "shares" \in Plain BY DEF Plain
  <1>2. Maps.shares = duck.shares BY <1>1, PlainHeld
  <1>3. ASSUME ping PROVE Memory!ping
    BY <1>3, <1>1, <1>2, ReadHeld, SameResults
    DEF ping, Memory!ping
  <1>4. ASSUME NEW i \in Ids, list_monitor_shares(i)
        PROVE  Memory!list_monitor_shares(i)
    BY <1>4, <1>1, <1>2, AnswerHeld, SameLibrary, SameResults
    DEF list_monitor_shares, Descending, SELECT_ORDERED, Where, created_at, Ascending,
        Memory!list_monitor_shares, Memory!Descending, Memory!Lists, Memory!Where,
        Memory!created_at, Memory!Ascending
  <1>5. ASSUME NEW i \in Ids, delete_monitor_share(i)
        PROVE  Memory!delete_monitor_share(i)
    BY <1>5, <1>1, <1>2, PlainWriteHeld, SameLibrary, SameResults
    DEF delete_monitor_share, DELETE_KEY, Memory!delete_monitor_share, Memory!RemoveIfThere
  <1>6. ASSUME NEW i \in Ids, resolve_monitor_share(i)
        PROVE  Memory!resolve_monitor_share(i)
    BY <1>6, <1>1, <1>2, ReadHeld, PlainWriteHeld, SameResults
    DEF resolve_monitor_share, Has, UPDATE, Memory!resolve_monitor_share, Memory!Live,
        Memory!Upsert
  <1>7. ASSUME NEW i \in Ids, NEW t \in Ids, NEW e \in {None, 1}, create_monitor_share(i, t, e)
        PROVE  Memory!create_monitor_share(i, t, e)
    BY <1>7, <1>1, <1>2, ReadHeld, PlainWriteHeld, SameResults
    DEF create_monitor_share, Has, INSERT, Memory!create_monitor_share, Memory!InsertNew
  <1> QED BY <1>3, <1>4, <1>5, <1>6, <1>7, SameSets
    DEF ShareCalls, Memory!ShareCalls

LEMMA AssetStep ==
    ASSUME DOMAIN duck = Tables, AssetCalls
    PROVE  Memory!AssetCalls
  <1>1. "assets" \in Plain BY DEF Plain
  <1>2. Maps.assets = duck.assets BY <1>1, PlainHeld
  <1>3. ASSUME NEW p \in Ids, list_page_assets(p)
        PROVE  Memory!list_page_assets(p)
    BY <1>3, <1>1, <1>2, ReadHeld, SameLibrary, SameResults
    DEF list_page_assets, Memory!list_page_assets
  <1>4. ASSUME NEW p \in Ids, NEW slot \in {"logo"}, get_page_asset(p, slot)
        PROVE  Memory!get_page_asset(p, slot)
    BY <1>4, <1>1, <1>2, ReadHeld, SameResults
    DEF get_page_asset, SELECT_OPTION, Has, Memory!get_page_asset, Memory!Lookup
  <1>5. ASSUME NEW p \in Ids, NEW slot \in {"logo"}, delete_page_asset(p, slot)
        PROVE  Memory!delete_page_asset(p, slot)
    BY <1>5, <1>1, <1>2, PlainWriteHeld, SameLibrary, SameResults
    DEF delete_page_asset, DELETE_KEY, Memory!delete_page_asset, Memory!RemoveIfThere
  <1>6. ASSUME NEW p \in Ids, NEW slot \in {"logo"}, NEW content \in {1, 2},
        upload_page_asset(p, slot, content)
        PROVE  Memory!upload_page_asset(p, slot, content)
    BY <1>6, <1>1, <1>2, PlainWriteHeld, SameResults
    DEF upload_page_asset, Has, REPLACE_INTO, Memory!upload_page_asset, Memory!Upsert,
        Memory!uploaded
  <1> QED BY <1>3, <1>4, <1>5, <1>6, SameSets
    DEF AssetCalls, Memory!AssetCalls

LEMMA DeliveryStep ==
    ASSUME DOMAIN duck = Tables, DeliveryCalls
    PROVE  Memory!DeliveryCalls \/ Differs
  <1>1. "deliveries" \in Plain BY DEF Plain
  <1>2. Maps.deliveries = duck.deliveries BY <1>1, PlainHeld
  <1>3. ASSUME NEW i \in Ids, enqueue_delivery(i)
        PROVE  Memory!enqueue_delivery(i)
    BY <1>3, <1>1, <1>2, ReadHeld, PlainWriteHeld, SameResults
    DEF enqueue_delivery, Has, INSERT, Memory!enqueue_delivery, Memory!Upsert
  <1>4. ASSUME NEW i \in Ids, claim_delivery(i)
        PROVE  Memory!claim_delivery(i)
    BY <1>4, <1>1, <1>2, ReadHeld, PlainWriteHeld, SameResults
    DEF claim_delivery, Has, UPDATE, due, Memory!claim_delivery, Memory!Claimable, Memory!Upsert
  <1>5. ASSUME NEW n \in {1, 2}, list_pending_deliveries(n)
        PROVE  Memory!list_pending_deliveries(n)
    BY <1>5, <1>1, <1>2, AnswerHeld, SameLibrary, SameResults, SameRules
    DEF list_pending_deliveries, Ascending, SELECT_ORDERED, Where, created_at, due,
        Memory!list_pending_deliveries, Memory!Ascending, Memory!Claimable, Memory!Where,
        Memory!created_at
  <1>6. ASSUME NEW before \in Times, delete_old_deliveries(before)
        PROVE  Memory!delete_old_deliveries(before)
    BY <1>6, <1>1, <1>2, PlainWriteHeld, SameLibrary, SameResults
    DEF delete_old_deliveries, DELETE_COUNT, Where, Without, RestrictValues,
        Memory!delete_old_deliveries, Memory!Purge, Memory!Where, Memory!Without,
        Memory!RestrictValues
  <1>7. ASSUME NEW i \in Ids, NEW s \in {"sent", "failed", "dead_letter"}, mark_delivery(i, s)
        PROVE  Memory!mark_delivery(i, s) \/ Differs
    <2>1. CASE ~Has("deliveries", i)
      BY <1>1, <1>2, <1>7, <2>1, ReadHeld, SameResults
      DEF mark_delivery, Has, Memory!mark_delivery
    <2>2. CASE Has("deliveries", i) /\ duck.deliveries[i].sent_at # None
      <3>1. call'[1] = "mark_delivery" /\ call'[2] = i BY <1>7 DEF mark_delivery
      <3> QED BY <2>2, <3>1 DEF Differs, ForgetsSentAt
    <2>3. CASE Has("deliveries", i) /\ duck.deliveries[i].sent_at = None
      <3>1. PICK d : d = duck.deliveries[i] OBVIOUS
      <3>2. Write("deliveries",
              With(duck.deliveries, i,
                [d EXCEPT !.status = s, !.attempts = d.attempts + 1,
                          !.sent_at = IF s = "sent" THEN clock ELSE d.sent_at,
                          !.next_attempt_at = IF s = "failed" THEN clock + Backoff(d.attempts + 1)
                                              ELSE None]), Ok(None))
        BY <1>7, <2>3, <3>1 DEF mark_delivery, UPDATE, Has
      <3> QED
        BY <1>1, <1>2, <1>7, <2>3, <3>1, <3>2, PlainWriteHeld, SameResults, SameRules
        DEF mark_delivery, Has, Memory!mark_delivery, Memory!Upsert
    <2> QED BY <2>1, <2>2, <2>3
  <1> QED BY <1>3, <1>4, <1>5, <1>6, <1>7, SameSets
    DEF DeliveryCalls, Memory!DeliveryCalls

LEMMA PostmortemStep ==
    ASSUME StorageInv, PostmortemCalls
    PROVE  Memory!PostmortemCalls
  <1> DOMAIN duck = Tables BY DEF StorageInv, RowsAgree
  <1>1. "postmortems" \in Plain BY DEF Plain
  <1>2. Maps.postmortems = duck.postmortems BY <1>1, PlainHeld
  <1>3. ASSUME NEW i \in Ids, get_postmortem(i)
        PROVE  Memory!get_postmortem(i)
    BY <1>3, <1>1, <1>2, ReadHeld, SameResults
    DEF get_postmortem, SELECT_OPTION, Has, Memory!get_postmortem, Memory!Lookup
  <1>4. ASSUME NEW i \in Ids, publish_postmortem(i)
        PROVE  Memory!publish_postmortem(i)
    BY <1>4, <1>1, <1>2, ReadHeld, PlainWriteHeld, SameResults
    DEF publish_postmortem, SetPublished, Has, UPDATE, Memory!publish_postmortem,
        Memory!Publication, Memory!Upsert
  <1>5. ASSUME NEW i \in Ids, unpublish_postmortem(i)
        PROVE  Memory!unpublish_postmortem(i)
    BY <1>5, <1>1, <1>2, ReadHeld, PlainWriteHeld, SameResults
    DEF unpublish_postmortem, SetPublished, Has, UPDATE, Memory!unpublish_postmortem,
        Memory!Publication, Memory!Upsert
  <1>6. ASSUME NEW i \in Ids, delete_postmortem(i)
        PROVE  Memory!delete_postmortem(i)
    BY <1>6, <1>1, <1>2, PlainWriteHeld, SameLibrary, SameResults
    DEF delete_postmortem, DELETE_KEY, Memory!delete_postmortem, Memory!RemoveIfThere
  <1>7. ASSUME NEW i \in Ids, NEW body \in {1, 2}, upsert_postmortem(i, body)
        PROVE  Memory!upsert_postmortem(i, body)
    <2>1. PICK old, at : old = duck.postmortems /\ at = clock OBVIOUS
    <2>2. PICK new : new = [id |-> i, body |-> body, updated_at |-> at,
                created_at |-> IF i \in DOMAIN old THEN old[i].created_at ELSE at,
                published_at |-> IF i \in DOMAIN old THEN old[i].published_at ELSE None]
      OBVIOUS
    <2>3. new = Memory!written(old, i, body, at)
      <3>1. PostmortemRows(old) BY <2>1 DEF StorageInv, RowsAgree
      <3> QED BY <2>2, <3>1 DEF PostmortemRows, PostmortemPayload, Memory!written
    <2>4. Write("postmortems", With(duck.postmortems, i, new), Ok(new))
      BY <1>7, <2>1, <2>2 DEF upsert_postmortem, REPLACE_INTO, Has
    <2> QED
      BY <1>1, <1>2, <1>7, <2>1, <2>3, <2>4, PlainWriteHeld, SameResults
      DEF upsert_postmortem, Memory!upsert_postmortem, Memory!Upsert
  <1> QED BY <1>3, <1>4, <1>5, <1>6, <1>7, SameSets
    DEF PostmortemCalls, Memory!PostmortemCalls

\* Rows and what is made of them have the same orders by a common key.
LEMMA KeyedOrder ==
    ASSUME NEW rows, \A k \in DOMAIN rows : k \in Ids /\ rows[k].payload.id = k,
           NEW R \in SUBSET Range(rows), NEW s \in SetToSeqs(R)
    PROVE  /\ [i \in DOMAIN s |-> s[i].payload] \in SetToSeqs({r.payload : r \in R})
           /\ DOMAIN s = 1..Cardinality(R)
           /\ \A i \in DOMAIN s : s[i] \in R
  <1>1. IsFiniteSet(R)
    <2>1. IsFiniteSet(DOMAIN rows)
      <3>1. DOMAIN rows \subseteq Ids OBVIOUS
      <3> QED BY <3>1, StorageAssumption, FS_Subset
    <2>2. IsFiniteSet({rows[k] : k \in DOMAIN rows})
      <3>1. PICK f : f = [k \in DOMAIN rows |-> rows[k]] OBVIOUS
      <3>2. f \in Surjection(DOMAIN rows, {rows[k] : k \in DOMAIN rows}) BY <3>1 DEF Surjection
      <3> QED BY <2>1, <3>2, FS_Surjection
    <2> QED BY <2>2, FS_Subset DEF Range
  <1>2. \A r, q \in R : r.payload = q.payload => r = q BY DEF Range
  <1> QED BY <1>1, <1>2, PayloadOrder

PayloadsOf(s) == [i \in DOMAIN s |-> s[i].payload]
InCreatedOrder(s) == \A i, j \in DOMAIN s : i < j => s[i].created_at <= s[j].created_at

\* ORDER BY created_at is a sort of the payloads by their created_at.
LEMMA CreatedOrder ==
    ASSUME NEW rows,
           \A k \in DOMAIN rows : k \in Ids /\ rows[k].payload.id = k
                                  /\ rows[k].payload.created_at = rows[k].created_at,
           NEW maps, maps = {r.payload : r \in Range(rows)}
    PROVE  \A s \in SetToSeqs(Range(rows)) :
             InCreatedOrder(s) => PayloadsOf(s) \in SetToSeqs(maps) /\ InCreatedOrder(PayloadsOf(s))
  <1> SUFFICES ASSUME NEW s \in SetToSeqs(Range(rows)), InCreatedOrder(s)
               PROVE  PayloadsOf(s) \in SetToSeqs(maps) /\ InCreatedOrder(PayloadsOf(s))
    OBVIOUS
  <1>1. PICK R : R = Range(rows) OBVIOUS
  <1>2. PICK t : t = [i \in DOMAIN s |-> s[i].payload] OBVIOUS
  <1>3. t \in SetToSeqs({r.payload : r \in R}) /\ \A i \in DOMAIN s : s[i] \in R
    BY <1>1, <1>2, KeyedOrder
  <1>4. \A r \in R : r.payload.created_at = r.created_at BY <1>1 DEF Range
  <1>5. InCreatedOrder(t) BY <1>2, <1>3, <1>4 DEF InCreatedOrder
  <1> QED BY <1>1, <1>2, <1>3, <1>5 DEF PayloadsOf

\* What TargetRows says, field by field.
LEMMA TargetRowFacts ==
    ASSUME NEW rows, TargetRows(rows)
    PROVE  \A k \in DOMAIN rows :
             /\ k \in Ids /\ rows[k].payload.id = k
             /\ rows[k].payload.created_at = rows[k].created_at
             /\ \A on : /\ [rows[k].payload EXCEPT !.enabled = on]
                           = [id |-> k, enabled |-> on, created_at |-> rows[k].payload.created_at]
                       /\ \A t : [rows[k] EXCEPT !.enabled = on, !.payload = t].payload = t
  BY DEF TargetRows, TargetPayload, target_row

\* Targets: create, update and delete write the payload and its columns together.
LEMMA TargetStep ==
    ASSUME StorageInv, TargetCalls
    PROVE  Memory!TargetCalls
  <1>1. "targets" \in WithPayload /\ DOMAIN duck = Tables
    BY DEF WithPayload, StorageInv, RowsAgree
  <1>2. /\ DOMAIN Maps.targets = DOMAIN duck.targets
        /\ \A k \in DOMAIN duck.targets : Maps.targets[k] = duck.targets[k].payload
        /\ Range(Maps.targets) = {r.payload : r \in Range(duck.targets)}
    BY <1>1, PayloadHeld
  <1>3. TargetRows(duck.targets) BY DEF StorageInv, RowsAgree
  <1>4. ASSUME list_targets PROVE Memory!list_targets
    <2>1. PICK rows, maps : rows = duck.targets /\ maps = Range(Maps.targets) OBVIOUS
    <2>2. PICK s \in SetToSeqs(Range(rows)) : Answer({Ok(PayloadsOf(s))}) /\ InCreatedOrder(s)
      BY <1>4, <2>1
      DEF list_targets, SELECT_ORDERED, Answer, Payloads, Ascending, created_at, PayloadsOf,
          InCreatedOrder
    <2>3. PICK t : t = PayloadsOf(s) OBVIOUS
    <2>4. t \in SetToSeqs(maps) /\ InCreatedOrder(t)
      <3>1. \A k \in DOMAIN rows : k \in Ids /\ rows[k].payload.id = k
                                    /\ rows[k].payload.created_at = rows[k].created_at
        BY <1>3, <2>1, TargetRowFacts
      <3>2. maps = {r.payload : r \in Range(rows)} BY <1>2, <2>1
      <3> QED BY <2>2, <2>3, <3>1, <3>2, CreatedOrder
    <2>5. Memory!Answer({Ok(t)}) BY <2>2, <2>3, AnswerHeld
    <2> QED
      BY <1>4, <2>1, <2>4, <2>5, SameLibrary, SameResults
      DEF list_targets, Memory!list_targets, Memory!Answer, Memory!Lists,
          Memory!Ascending, Memory!created_at, InCreatedOrder
  <1>5. ASSUME NEW i \in Ids, get_target(i) PROVE Memory!get_target(i)
    BY <1>2, <1>5, ReadHeld, SameResults
    DEF get_target, SELECT_PAYLOAD, Has, Memory!get_target, Memory!GetRow
  <1>6. ASSUME NEW i \in Ids, delete_target(i) PROVE Memory!delete_target(i)
    BY <1>1, <1>2, <1>6, ReadHeld, DropPayload, SameResults, SameLibrary
    DEF delete_target, DELETE_ONE, DELETE_KEY, Has, Memory!delete_target, Memory!RemoveRow
  <1>7. ASSUME NEW i \in Ids, NEW on \in BOOLEAN, create_target(i, on)
        PROVE  Memory!create_target(i, on)
    <2>1. PICK t : t = [id |-> i, enabled |-> on, created_at |-> clock] OBVIOUS
    <2>2. PICK row : row = target_row(t) OBVIOUS
    <2>3. t.id = i /\ row.payload = t BY <2>1, <2>2 DEF target_row
    <2>4. IF Has("targets", i) THEN Read(Conflict)
          ELSE Write("targets", With(duck.targets, i, row), Ok(t))
      BY <1>7, <2>1, <2>2 DEF create_target, INSERT
    <2>5. IF Has("targets", i) THEN Memory!Read(Conflict)
          ELSE Memory!Write("targets", With(Maps.targets, i, t), Ok(t))
      BY <1>1, <2>3, <2>4, ReadHeld, PutPayload
    <2> QED
      BY <1>2, <1>7, <2>1, <2>3, <2>5, SameResults
      DEF create_target, Has, Memory!create_target, Memory!InsertNew
  <1>8. ASSUME NEW i \in Ids, NEW on \in BOOLEAN, update_target(i, on)
        PROVE  Memory!update_target(i, on)
    <2>1. CASE ~Has("targets", i)
      BY <1>2, <1>8, <2>1, ReadHeld, SameResults
      DEF update_target, Has, Memory!update_target, Memory!Replace
    <2>2. CASE Has("targets", i)
      <3>1. PICK old : old = duck.targets[i] OBVIOUS
      <3>2. PICK t : t = [old.payload EXCEPT !.enabled = on] OBVIOUS
      <3>3. PICK row : row = [old EXCEPT !.enabled = on, !.payload = t] OBVIOUS
      <3>4. /\ t = [id |-> i, enabled |-> on, created_at |-> Maps.targets[i].created_at]
            /\ row.payload = t
        BY <1>2, <1>3, <2>2, <3>1, <3>2, <3>3, TargetRowFacts DEF Has
      <3>5. Write("targets", With(duck.targets, i, row), Ok(t))
        BY <1>8, <2>2, <3>1, <3>2, <3>3 DEF update_target, UPDATE
      <3>6. Memory!Write("targets", With(Maps.targets, i, t), Ok(t))
        BY <1>1, <3>4, <3>5, PutPayload
      <3> QED BY <1>2, <1>8, <2>2, <3>4, <3>6, SameResults
              DEF update_target, Has, Memory!update_target, Memory!Replace
    <2> QED BY <2>1, <2>2
  <1> QED BY <1>4, <1>5, <1>6, <1>7, <1>8 DEF TargetCalls, Memory!TargetCalls

\* What PageRows says, field by field.
LEMMA PageRowFacts ==
    ASSUME NEW rows, PageRows(rows)
    PROVE  \A k \in DOMAIN rows :
             /\ k \in Ids /\ rows[k].payload.id = k
             /\ rows[k].payload.created_at = rows[k].created_at
             /\ \A slug : /\ [rows[k].payload EXCEPT !.slug = slug]
                             = [id |-> k, slug |-> slug, created_at |-> rows[k].payload.created_at]
                         /\ \A p : [rows[k] EXCEPT !.slug = slug, !.payload = p].payload = p
  BY DEF PageRows, PagePayload, page_row

\* Status pages: only the UNIQUE slug tells the backends apart.
LEMMA PageStep ==
    ASSUME StorageInv, PageCalls
    PROVE  Memory!PageCalls \/ Differs
  <1>1. "pages" \in WithPayload /\ DOMAIN duck = Tables
    BY DEF WithPayload, StorageInv, RowsAgree
  <1>2. /\ DOMAIN Maps.pages = DOMAIN duck.pages
        /\ \A k \in DOMAIN duck.pages : Maps.pages[k] = duck.pages[k].payload
        /\ Range(Maps.pages) = {r.payload : r \in Range(duck.pages)}
    BY <1>1, PayloadHeld
  <1>3. PageRows(duck.pages) BY DEF StorageInv, RowsAgree
  <1>4. ASSUME list_status_pages PROVE Memory!list_status_pages
    <2>1. PICK rows, maps : rows = duck.pages /\ maps = Range(Maps.pages) OBVIOUS
    <2>2. PICK s \in SetToSeqs(Range(rows)) : Answer({Ok(PayloadsOf(s))}) /\ InCreatedOrder(s)
      BY <1>4, <2>1
      DEF list_status_pages, SELECT_ORDERED, Answer, Payloads, Ascending, created_at, PayloadsOf,
          InCreatedOrder
    <2>3. PICK t : t = PayloadsOf(s) OBVIOUS
    <2>4. t \in SetToSeqs(maps) /\ InCreatedOrder(t)
      <3>1. \A k \in DOMAIN rows : k \in Ids /\ rows[k].payload.id = k
                                    /\ rows[k].payload.created_at = rows[k].created_at
        BY <1>3, <2>1, PageRowFacts
      <3>2. maps = {r.payload : r \in Range(rows)} BY <1>2, <2>1
      <3> QED BY <2>2, <2>3, <3>1, <3>2, CreatedOrder
    <2>5. Memory!Answer({Ok(t)}) BY <2>2, <2>3, AnswerHeld
    <2> QED
      BY <1>4, <2>1, <2>4, <2>5, SameLibrary, SameResults
      DEF list_status_pages, Memory!list_status_pages, Memory!Answer, Memory!Lists,
          Memory!Ascending, Memory!created_at, InCreatedOrder
  <1>5. ASSUME NEW p \in Ids, get_status_page(p) PROVE Memory!get_status_page(p)
    BY <1>2, <1>5, ReadHeld, SameResults
    DEF get_status_page, SELECT_PAYLOAD, Has, Memory!get_status_page, Memory!GetRow
  <1>6. ASSUME NEW p \in Ids, delete_status_page(p) PROVE Memory!delete_status_page(p)
    BY <1>1, <1>2, <1>6, ReadHeld, DropPayload, SameResults, SameLibrary
    DEF delete_status_page, DELETE_ONE, DELETE_KEY, Has, Memory!delete_status_page,
        Memory!RemoveRow
  <1>7. ASSUME NEW p \in Ids, NEW slug \in Ids, create_status_page(p, slug)
        PROVE  Memory!create_status_page(p, slug) \/ Differs
    <2>1. CASE slug_taken(slug, p)
      <3>1. slug_taken(slug, None)
        <4>1. None \notin DOMAIN duck.pages BY <1>3, StorageAssumption DEF PageRows
        <4> QED BY <2>1, <4>1 DEF slug_taken
      <3>2. reply' = Conflict /\ UNCHANGED <<duck, clock>>
        BY <1>7, <3>1 DEF create_status_page, Read, Answer
      <3>3. call'[1] = "create_status_page" /\ call'[2] = p /\ call'[3] = slug
        BY <1>7 DEF create_status_page
      <3>4. UniqueColumn BY <2>1, <3>2, <3>3 DEF UniqueColumn
      <3> QED BY <3>2, <3>4 DEF Differs, ReadDiffers
    <2>2. CASE ~slug_taken(slug, p)
      <3>1. PICK new : new = [id |-> p, slug |-> slug, created_at |-> clock] OBVIOUS
      <3>2. PICK row : row = page_row(new) OBVIOUS
      <3>3. new.id = p /\ row.payload = new BY <3>1, <3>2 DEF page_row
      <3>4. IF Has("pages", p) THEN Read(Conflict)
            ELSE Write("pages", With(duck.pages, p, row), Ok(new))
        BY <1>7, <2>2, <3>1, <3>2 DEF create_status_page, INSERT, slug_taken, Has
      <3>5. IF Has("pages", p) THEN Memory!Read(Conflict)
            ELSE Memory!Write("pages", With(Maps.pages, p, new), Ok(new))
        BY <1>1, <3>3, <3>4, ReadHeld, PutPayload
      <3> QED
        BY <1>2, <1>7, <3>1, <3>3, <3>5, SameResults
        DEF create_status_page, Has, Memory!create_status_page, Memory!InsertNew
    <2> QED BY <2>1, <2>2
  <1>8. ASSUME NEW p \in Ids, NEW slug \in Ids, update_status_page(p, slug)
        PROVE  Memory!update_status_page(p, slug) \/ Differs
    <2>1. CASE ~Has("pages", p)
      BY <1>2, <1>8, <2>1, ReadHeld, SameResults
      DEF update_status_page, Has, Memory!update_status_page, Memory!Replace
    <2>2. CASE Has("pages", p) /\ slug_taken(slug, p)
      <3>1. reply' = Conflict /\ UNCHANGED <<duck, clock>>
        BY <1>8, <2>2 DEF update_status_page, Read, Answer
      <3>2. call'[1] = "update_status_page" /\ call'[2] = p /\ call'[3] = slug
        BY <1>8 DEF update_status_page
      <3>3. UniqueColumn BY <2>2, <3>1, <3>2 DEF UniqueColumn
      <3> QED BY <3>1, <3>3 DEF Differs, ReadDiffers
    <2>3. CASE Has("pages", p) /\ ~slug_taken(slug, p)
      <3>1. PICK new : new = [duck.pages[p].payload EXCEPT !.slug = slug] OBVIOUS
      <3>2. PICK row : row = [duck.pages[p] EXCEPT !.slug = slug, !.payload = new] OBVIOUS
      <3>3. /\ new = [id |-> p, slug |-> slug, created_at |-> Maps.pages[p].created_at]
            /\ row.payload = new
        BY <1>2, <1>3, <2>3, <3>1, <3>2, PageRowFacts DEF Has
      <3>4. Write("pages", With(duck.pages, p, row), Ok(new))
        BY <1>8, <2>3, <3>1, <3>2 DEF update_status_page, UPDATE
      <3>5. Memory!Write("pages", With(Maps.pages, p, new), Ok(new))
        BY <1>1, <3>3, <3>4, PutPayload
      <3> QED BY <1>2, <1>8, <2>3, <3>3, <3>5, SameResults
              DEF update_status_page, Has, Memory!update_status_page, Memory!Replace
    <2> QED BY <2>1, <2>2, <2>3
  <1> QED BY <1>4, <1>5, <1>6, <1>7, <1>8 DEF PageCalls, Memory!PageCalls

\* What IncidentRows says, field by field.
LEMMA IncidentRowFacts ==
    ASSUME NEW rows, IncidentRows(rows)
    PROVE  \A k \in DOMAIN rows :
             /\ k \in Ids /\ rows[k].payload.id = k
             /\ rows[k].payload.started_at = rows[k].started_at
             /\ rows[k].payload.ended_at = rows[k].ended_at
             /\ rows[k].payload.target = rows[k].target_id
             /\ rows[k].payload \in IncidentPayload(k)
  BY DEF IncidentRows, IncidentPayload, incident_row

\* Incidents newest first, as rows and as payloads.
LEMMA IncidentPayloads ==
    ASSUME NEW rows, IncidentRows(rows), NEW R \in SUBSET Range(rows), NEW s \in SetToSeqs(R),
           \A i, j \in DOMAIN s : i < j => -s[i].started_at <= -s[j].started_at,
           NEW t, t = [i \in DOMAIN s |-> s[i].payload]
    PROVE  /\ t \in SetToSeqs({r.payload : r \in R})
           /\ \A i, j \in DOMAIN t : i < j => -t[i].started_at <= -t[j].started_at
  <1>1. t \in SetToSeqs({r.payload : r \in R}) /\ \A i \in DOMAIN s : s[i] \in R
    BY IncidentRowFacts, KeyedOrder
  <1>2. \A r \in R : r.payload.started_at = r.started_at BY IncidentRowFacts DEF Range
  <1> QED BY <1>1, <1>2

\* Incidents: the metrics query fails in DuckDB alone, and an unknown transition.
LEMMA IncidentStep ==
    ASSUME StorageInv, IncidentCalls
    PROVE  Memory!IncidentCalls \/ Differs
  <1>1. "incidents" \in WithPayload /\ DOMAIN duck = Tables
    BY DEF WithPayload, StorageInv, RowsAgree
  <1>2. /\ DOMAIN Maps.incidents = DOMAIN duck.incidents
        /\ \A k \in DOMAIN duck.incidents : Maps.incidents[k] = duck.incidents[k].payload
        /\ Range(Maps.incidents) = {r.payload : r \in Range(duck.incidents)}
    BY <1>1, PayloadHeld
  <1>3. IncidentRows(duck.incidents) BY DEF StorageInv, RowsAgree
  <1>4. ASSUME list_incidents PROVE Memory!list_incidents
    <2>1. PICK R : R = Range(duck.incidents) OBVIOUS
    <2>2. PICK t \in {[i \in DOMAIN s |-> s[i].payload] :
                         s \in {q \in SetToSeqs(R) : \A i, j \in DOMAIN q :
                                  i < j => -q[i].started_at <= -q[j].started_at}} :
             reply' = Ok(FirstOf(t, 200))
      BY <1>4, <2>1
      DEF list_incidents, SELECT_ORDERED, Answer, Payloads, Descending, Ascending, started_at
    <2>3. PICK s \in SetToSeqs(R) :
             /\ t = [i \in DOMAIN s |-> s[i].payload]
             /\ \A i, j \in DOMAIN s : i < j => -s[i].started_at <= -s[j].started_at
      BY <2>2
    <2>4. /\ t \in SetToSeqs(Range(Maps.incidents))
          /\ \A i, j \in DOMAIN t : i < j => -t[i].started_at <= -t[j].started_at
      <3>1. PICK rows : rows = duck.incidents OBVIOUS
      <3>2. IncidentRows(rows) /\ R \in SUBSET Range(rows) BY <1>3, <2>1, <3>1
      <3>3. SetToSeqs({r.payload : r \in R}) = SetToSeqs(Range(Maps.incidents)) BY <1>2, <2>1
      <3> QED BY <2>3, <3>2, <3>3, IncidentPayloads
    <2>5. Memory!Answer({Ok(FirstOf(t, 200))})
      BY <1>4, <2>2, <2>3, AnswerHeld DEF list_incidents, SELECT_ORDERED, Answer, Memory!Answer
    <2> QED
      BY <1>4, <2>4, <2>5, SameLibrary, SameResults, SameRules
      DEF list_incidents, Memory!list_incidents, Memory!Answer, Memory!Descending,
          Memory!Ascending, Memory!started_at
  <1>5. ASSUME NEW i \in Ids, get_incident(i) PROVE Memory!get_incident(i)
    BY <1>2, <1>5, ReadHeld, SameResults
    DEF get_incident, SELECT_PAYLOAD, Has, Memory!get_incident, Memory!GetRow
  <1>6. ASSUME NEW t \in Ids, find_open_incident_for_target(t)
        PROVE  Memory!find_open_incident_for_target(t)
    <2>1. PICK R : R = {r \in Range(duck.incidents) : r.target_id = t /\ r.ended_at = None} OBVIOUS
    <2>2. PICK s \in SetToSeqs(R) :
             /\ \E p : /\ p = [i \in DOMAIN s |-> s[i].payload]
                       /\ reply' = Ok(IF p = <<>> THEN None ELSE p[1])
             /\ \A i, j \in DOMAIN s : i < j => -s[i].started_at <= -s[j].started_at
      <3>1. Where(duck.incidents, LAMBDA r : r.target_id = t /\ r.ended_at = None) = R
        BY <2>1, Zenon DEF Where
      <3>2. reply' \in {Ok(IF p = <<>> THEN None ELSE p[1]) : p \in Payloads(Descending(R, started_at))}
        BY <1>6, <3>1, Zenon DEF find_open_incident_for_target, Answer
      <3>3. PICK orders : orders = Descending(R, started_at) OBVIOUS
      <3>4. PICK s \in orders : \E p : /\ p = [i \in DOMAIN s |-> s[i].payload]
                                       /\ reply' = Ok(IF p = <<>> THEN None ELSE p[1])
        BY <3>2, <3>3 DEF Payloads
      <3> QED BY <3>3, <3>4 DEF Descending, Ascending, started_at
    <2>3. PICK p : p = [i \in DOMAIN s |-> s[i].payload] OBVIOUS
    <2>4. PICK Q : Q = {r \in Range(Maps.incidents) : r.target = t /\ r.ended_at = None} OBVIOUS
    <2>5. Q = {r.payload : r \in R}
      <3>1. \A r \in Range(duck.incidents) : /\ r.payload.target = r.target_id
                                            /\ r.payload.ended_at = r.ended_at
        BY <1>3, IncidentRowFacts DEF Range
      <3> QED BY <1>2, <2>1, <2>4, <3>1
    <2>6. /\ p \in SetToSeqs(Q)
          /\ \A i, j \in DOMAIN p : i < j => -p[i].started_at <= -p[j].started_at
      BY <1>3, <2>1, <2>2, <2>3, <2>5, IncidentPayloads
    <2>7. Memory!Answer({Ok(IF p = <<>> THEN None ELSE p[1])})
      BY <1>6, <2>2, <2>3, AnswerHeld DEF find_open_incident_for_target, Answer, Memory!Answer
    <2> QED
      BY <1>6, <2>4, <2>6, <2>7, SameLibrary, SameResults
      DEF find_open_incident_for_target, Memory!find_open_incident_for_target, Memory!Answer,
          Memory!Descending, Memory!Ascending, Memory!started_at, Memory!Where
  <1>7. ASSUME NEW w \in Ids, incident_metrics(w) PROVE Differs
    <2>1. /\ reply' = EngineError /\ UNCHANGED <<duck, clock>>
          /\ call'[1] = "incident_metrics"
      BY <1>7 DEF incident_metrics, Read, Answer
    <2> QED BY <2>1 DEF Differs, ReadDiffers, StatementFails
  <1>8. ASSUME NEW i \in Ids, NEW t \in Ids, create_incident(i, t) PROVE Memory!create_incident(i, t)
    <2>1. PICK new : new = [id |-> i, target |-> t, started_at |-> clock, ended_at |-> None,
                            severity |-> "minor", notes |-> 0] OBVIOUS
    <2>2. PICK row : row = incident_row(new) OBVIOUS
    <2>3. new.id = i /\ row.payload = new BY <2>1, <2>2 DEF incident_row
    <2>4. IF Has("incidents", i) THEN Read(Conflict)
          ELSE Write("incidents", With(duck.incidents, i, row), Ok(new))
      BY <1>8, <2>1, <2>2 DEF create_incident, INSERT
    <2>5. IF Has("incidents", i) THEN Memory!Read(Conflict)
          ELSE Memory!Write("incidents", With(Maps.incidents, i, new), Ok(new))
      BY <1>1, <2>3, <2>4, ReadHeld, PutPayload
    <2> QED
      BY <1>2, <1>8, <2>1, <2>3, <2>5, SameResults
      DEF create_incident, Has, Memory!create_incident, Memory!InsertNew
  <1>9. ASSUME NEW i \in Ids, NEW sev \in {"minor", "major"}, NEW e \in OptionalTimes,
               update_incident(i, sev, e)
        PROVE  Memory!update_incident(i, sev, e)
    <2>1. CASE ~Has("incidents", i)
      BY <1>2, <1>9, <2>1, ReadHeld, SameResults
      DEF update_incident, Has, Memory!update_incident, Memory!Replace, Memory!edited
    <2>2. CASE Has("incidents", i)
      <3>1. PICK new : new = [duck.incidents[i].payload EXCEPT !.severity = sev, !.ended_at = e] OBVIOUS
      <3>2. PICK row : row = incident_row(new) OBVIOUS
      <3>3. new.id = i /\ row.payload = new
        BY <1>3, <2>2, <3>1, <3>2, IncidentRowFacts DEF IncidentPayload, incident_row, Has
      <3>4. Write("incidents", With(duck.incidents, i, row), Ok(new))
        BY <1>9, <2>2, <3>1, <3>2 DEF update_incident, UPDATE
      <3>5. Memory!Write("incidents", With(Maps.incidents, i, new), Ok(new))
        BY <1>1, <3>3, <3>4, PutPayload
      <3>6. new = Memory!edited(Maps.incidents, i, sev, e)
        BY <1>2, <2>2, <3>1 DEF Memory!edited, Has
      <3> QED BY <1>2, <1>9, <2>2, <3>3, <3>5, <3>6, SameResults
              DEF update_incident, Has, Memory!update_incident, Memory!Replace
    <2> QED BY <2>1, <2>2
  <1>10. ASSUME NEW i \in Ids, NEW tr \in Transitions, NEW sev \in {None, "major"},
                NEW note \in BOOLEAN, apply_incident_ops(i, tr, sev, note)
         PROVE  Memory!apply_incident_ops(i, tr, sev, note) \/ Differs
    <2>1. CASE ~Has("incidents", i)
      BY <1>2, <1>10, <2>1, ReadHeld, SameResults
      DEF apply_incident_ops, Has, Memory!apply_incident_ops
    <2>2. CASE Has("incidents", i) /\ tr = "other"
      <3>1. reply' = InvalidInput /\ UNCHANGED <<duck, clock>>
        BY <1>10, <2>2 DEF apply_incident_ops, Read, Answer
      <3>2. call'[1] = "apply_incident_ops" /\ call'[3] = "other"
        BY <1>10, <2>2 DEF apply_incident_ops
      <3> QED BY <3>1, <3>2 DEF Differs, ReadDiffers, OtherError
    <2>3. CASE Has("incidents", i) /\ tr # "other"
      <3>1. PICK old : old = duck.incidents[i].payload OBVIOUS
      <3>2. PICK new : new = patched(old, tr, sev, note, clock) OBVIOUS
      <3>3. PICK row : row = incident_row(new) OBVIOUS
      <3>4. row.payload = new BY <3>3 DEF incident_row
      <3>5. IF tr # None /\ next_state(old.ended_at, tr) = None THEN Read(Conflict)
            ELSE Write("incidents", With(duck.incidents, i, row), Ok(new))
        BY <1>10, <2>3, <3>1, <3>2, <3>3 DEF apply_incident_ops, UPDATE
      <3>6. IF tr # None /\ next_state(old.ended_at, tr) = None THEN Memory!Read(Conflict)
            ELSE Memory!Write("incidents", With(Maps.incidents, i, new), Ok(new))
        BY <1>1, <3>4, <3>5, ReadHeld, PutPayload
      <3>7. Maps.incidents[i] = old /\ i \in DOMAIN Maps.incidents BY <1>2, <2>3, <3>1 DEF Has
      <3> QED
        BY <1>10, <2>3, <3>2, <3>6, <3>7, SameResults, SameRules
        DEF apply_incident_ops, Memory!apply_incident_ops, Memory!Upsert
    <2> QED BY <2>1, <2>2, <2>3
  <1> QED BY <1>4, <1>5, <1>6, <1>7, <1>8, <1>9, <1>10, SameSets
          DEF IncidentCalls, Memory!IncidentCalls

----------------------------------------------------------------------------
(* Methods of two calls.                                                   *)

\* The table each two-step method reads.
LEMMA TablesRead ==
    /\ TableRead("add_incident_update") = "incidents"
    /\ TableRead("update_user") = "users"
    /\ TableRead("get_on_call_schedule") = "schedules"
    /\ TableRead("update_notification_channel") = "channels"
    /\ TableRead("set_channel_verified") = "channels"
    /\ TableRead("set_channel_disabled_reason") = "channels"
  <1>1. "add_incident_update" \notin {"update_user", "get_on_call_schedule"} OBVIOUS
  <1>2. "update_user" \notin {"add_incident_update", "get_on_call_schedule"} OBVIOUS
  <1>3. "get_on_call_schedule" \notin {"add_incident_update", "update_user"} OBVIOUS
  <1>4. ASSUME NEW m \in {"update_notification_channel", "set_channel_verified",
                          "set_channel_disabled_reason"}
        PROVE  TableRead(m) = "channels"
    <2>1. m # "add_incident_update" /\ m # "update_user" /\ m # "get_on_call_schedule" OBVIOUS
    <2> QED BY <2>1, Zenon DEF TableRead
  <1> QED BY <1>1, <1>2, <1>3, <1>4, Zenon DEF TableRead

\* A second half whose row was overtaken is on the list of differences.
LEMMA StaleDiffers ==
    ASSUME StorageInv, NEW c \in Clients, inflight[c] # None,
           inflight' = [inflight EXCEPT ![c] = None], ~IsCurrent(c)
    PROVE  Differs
  <1>1. inflight'[c] = None BY DEF StorageInv
  <1> QED BY <1>1 DEF Differs, ActsOnStaleRow

\* Users: a patch of a row nobody touched in between writes what memory writes.
LEMMA UserStep ==
    ASSUME StorageInv, UserCalls
    PROVE  Memory!UserCalls \/ Differs \/ UNCHANGED refined
  <1> DOMAIN duck = Tables BY DEF StorageInv, RowsAgree
  <1>1. "users" \in Plain BY DEF Plain
  <1>2. Maps.users = duck.users BY <1>1, PlainHeld
  <1>3. ASSUME NEW i \in Ids, get_user(i)
        PROVE  Memory!get_user(i)
    BY <1>3, <1>1, <1>2, ReadHeld, SameResults
    DEF get_user, SELECT_ONE, Has, Memory!get_user, Memory!GetRow
  <1>4. ASSUME NEW i \in Ids, find_user_by_email(i)
        PROVE  Memory!find_user_by_email(i)
    BY <1>4, <1>1, <1>2, AnswerHeld, SameLibrary, SameResults
    DEF find_user_by_email, Where, Memory!find_user_by_email, Memory!Where
  <1>5. ASSUME NEW i \in Ids, touch_user(i)
        PROVE  Memory!touch_user(i)
    BY <1>5, <1>1, <1>2, ReadHeld, PlainWriteHeld, SameResults
    DEF touch_user, Has, UPDATE, Memory!touch_user, Memory!Upsert
  <1>6. ASSUME NEW i \in Ids, NEW email \in Ids, create_user(i, email)
        PROVE  Memory!create_user(i, email)
    BY <1>6, <1>1, <1>2, ReadHeld, PlainWriteHeld, SameLibrary, SameResults
    DEF create_user, Has, INSERT, Memory!create_user, Memory!Upsert
  <1>7. ASSUME count_users PROVE Memory!count_users
    BY <1>7, <1>1, <1>2, ReadHeld, SameLibrary, SameResults
    DEF count_users, Memory!count_users
  <1>8. ASSUME NEW c \in Clients, NEW i \in Ids, NEW p \in UserPatches,
               update_user_begin(c, i, p[1], p[2])
        PROVE  Memory!update_user(i, p[1], p[2]) \/ UNCHANGED refined
    <2>1. CASE Has("users", i)
      BY <1>8, <2>1 DEF update_user_begin, Begin, refined
    <2>2. CASE ~Has("users", i)
      BY <1>2, <1>8, <2>2, ReadHeld, SameResults
      DEF update_user_begin, Begin, Has, Memory!update_user
    <2> QED BY <2>1, <2>2
  <1>9. ASSUME NEW c \in Clients, update_user_finish(c)
        PROVE  Differs \/ \E i \in Ids, p \in UserPatches : Memory!update_user(i, p[1], p[2])
    <2>1. CASE ~IsCurrent(c)
      BY <1>9, <2>1, StaleDiffers DEF update_user_finish, Resumes, Finish
    <2>2. CASE IsCurrent(c)
      <3>1. inflight[c] # None /\ inflight[c].call[1] = "update_user"
        BY <1>9 DEF update_user_finish, Resumes
      <3>2. PICK i \in Ids, p \in UserPatches : inflight[c].call = <<"update_user", i, p[1], p[2]>>
        BY <3>1 DEF StorageInv, CallsAgree, Pending
      <3>3. PICK name, theme : name = p[1] /\ theme = p[2] OBVIOUS
      <3>4. PICK asked : asked = inflight[c].call OBVIOUS
      <3>5. asked[2] = i /\ asked[3] = name /\ asked[4] = theme /\ asked[1] = "update_user"
        BY <3>2, <3>3, <3>4
      <3>6. PICK old : old = inflight[c].row OBVIOUS
      <3>7. i \in DOMAIN duck.users /\ old = duck.users[i]
        BY <1>2, <2>2, <3>4, <3>5, <3>6, TablesRead DEF IsCurrent, Has
      <3>8. PICK new : new = [old EXCEPT !.name = IF name = None THEN @ ELSE name,
                                         !.theme = IF theme = None THEN @ ELSE theme] OBVIOUS
      <3>9. [old EXCEPT !.name = new.name, !.theme = new.theme] = new
        <4>1. PICK rows : rows = duck.users OBVIOUS
        <4>2. UserRows(rows) BY <4>1 DEF StorageInv, RowsAgree
        <4>3. old \in UserPayload(i)
          BY <3>7, <4>1, <4>2 DEF UserRows, UserPayload
        <4> QED BY <3>8, <4>3
      <3>10. Put("users", With(duck.users, i, new), Ok(new)) /\ call' = <<"update_user", i, name, theme>>
        BY <1>9, <3>2, <3>3, <3>4, <3>5, <3>6, <3>7, <3>8, <3>9 DEF update_user_finish, Finish, Has
      <3>11. Memory!Write("users", With(duck.users, i, new), Ok(new))
        BY <1>1, <3>10, PlainPutHeld
      <3>12. new = Memory!user_patch(Maps.users[i], name, theme)
        BY <1>2, <3>7, <3>8 DEF Memory!user_patch
      <3>13. Memory!update_user(i, name, theme)
        BY <1>2, <3>7, <3>10, <3>11, <3>12, SameResults DEF Memory!update_user, Memory!Upsert
      <3> QED BY <3>3, <3>13
    <2> QED BY <2>1, <2>2
  <1> QED BY <1>3, <1>4, <1>5, <1>6, <1>7, <1>8, <1>9, SameSets DEF UserCalls, Memory!UserCalls

\* On-call schedules: a schedule nobody touched is answered with its overrides.
LEMMA OnCallStep ==
    ASSUME StorageInv, OnCallCalls
    PROVE  Memory!OnCallCalls \/ Differs \/ UNCHANGED refined
  <1> DOMAIN duck = Tables BY DEF StorageInv, RowsAgree
  <1>1. "schedules" \in Plain /\ "overrides" \in Plain BY DEF Plain
  <1>2. Maps.schedules = duck.schedules /\ Maps.overrides = duck.overrides BY <1>1, PlainHeld
  <1>3. ASSUME list_on_call_schedules PROVE Memory!list_on_call_schedules
    BY <1>3, <1>1, <1>2, AnswerHeld, SameLibrary, SameResults
    DEF list_on_call_schedules, Ascending, SELECT_ORDERED, created_at,
        Memory!list_on_call_schedules, Memory!Ascending, Memory!Lists, Memory!created_at
  <1>4. ASSUME NEW i \in Ids, list_on_call_overrides(i)
        PROVE  Memory!list_on_call_overrides(i)
    BY <1>4, <1>1, <1>2, AnswerHeld, SameLibrary, SameResults
    DEF list_on_call_overrides, SELECT_ORDERED, list_on_call_overrides_inner, Descending, Where,
        starts_at, Ascending, Memory!list_on_call_overrides, Memory!Lists,
        Memory!overrides_for_schedule, Memory!Descending, Memory!Where, Memory!starts_at,
        Memory!Ascending
  <1>5. ASSUME NEW i \in Ids, delete_on_call_override(i)
        PROVE  Memory!delete_on_call_override(i)
    BY <1>5, <1>1, <1>2, ReadHeld, PlainWriteHeld, SameLibrary, SameResults
    DEF delete_on_call_override, DELETE_ONE, DELETE_KEY, Has, Memory!delete_on_call_override,
        Memory!RemoveRow
  <1>6. ASSUME NEW s \in Schedules, upsert_on_call_schedule(s)
        PROVE  Memory!upsert_on_call_schedule(s)
    BY <1>6, <1>1, <1>2, PlainWriteHeld, SameResults
    DEF upsert_on_call_schedule, REPLACE_INTO, Memory!upsert_on_call_schedule, Memory!Upsert
  <1>7. ASSUME NEW i \in Ids, NEW s \in Ids, NEW from \in Times,
        create_on_call_override(i, s, from)
        PROVE  Memory!create_on_call_override(i, s, from)
    BY <1>7, <1>1, <1>2, ReadHeld, PlainWriteHeld, SameResults
    DEF create_on_call_override, INSERT, Has, Memory!create_on_call_override, Memory!InsertNew
  <1>9. ASSUME NEW i \in Ids, delete_on_call_schedule(i) PROVE Memory!delete_on_call_schedule(i)
    <2>1. CASE ~Has("schedules", i)
      BY <1>2, <1>9, <2>1, ReadHeld, SameResults
      DEF delete_on_call_schedule, Has, Memory!delete_on_call_schedule
    <2>2. CASE Has("schedules", i)
      <3>1. PICK kept : kept = Restrict(duck.schedules, DOMAIN duck.schedules \ {i}) OBVIOUS
      <3>2. PICK left : left = Without(duck.overrides, LAMBDA o : o.schedule = i) OBVIOUS
      <3>3. duck' = [duck EXCEPT !.schedules = kept, !.overrides = left]
        BY <1>9, <2>2, <3>1, <3>2 DEF delete_on_call_schedule
      <3>4. Maps' = [Maps EXCEPT !.schedules = kept, !.overrides = left]
        <4>1. Maps' = [t \in Tables |-> AsMap(t, duck'[t])] BY DEF Maps
        <4>2. \A t \in Tables : AsMap(t, duck'[t]) =
                IF t = "overrides" THEN left ELSE IF t = "schedules" THEN kept
                ELSE AsMap(t, duck[t])
          BY <1>1, <3>3, PlainMap
        <4> QED BY <4>1, <4>2 DEF Maps
      <3> QED
        BY <1>2, <1>9, <2>2, <3>1, <3>2, <3>4, SameResults, SameLibrary
        DEF delete_on_call_schedule, Has, Memory!delete_on_call_schedule, Without, Memory!Without,
            RestrictValues, Memory!RestrictValues
    <2> QED BY <2>1, <2>2
  <1>10. ASSUME NEW c \in Clients, NEW i \in Ids, get_on_call_schedule_begin(c, i)
         PROVE  Memory!get_on_call_schedule(i) \/ UNCHANGED refined
    <2>1. CASE Has("schedules", i)
      BY <1>10, <2>1 DEF get_on_call_schedule_begin, Begin, refined
    <2>2. CASE ~Has("schedules", i)
      BY <1>2, <1>10, <2>2, ReadHeld, SameResults
      DEF get_on_call_schedule_begin, Begin, Has, Memory!get_on_call_schedule
    <2> QED BY <2>1, <2>2
  <1>11. ASSUME NEW c \in Clients, get_on_call_schedule_finish(c)
         PROVE  Differs \/ \E i \in Ids : Memory!get_on_call_schedule(i)
    <2>1. PICK s \in list_on_call_overrides_inner(inflight[c].call[2]) :
             Finish(c, "schedules", duck.schedules, Ok(<<inflight[c].row, s>>))
      BY <1>11 DEF get_on_call_schedule_finish
    <2>2. CASE ~IsCurrent(c)
      BY <1>11, <2>1, <2>2, StaleDiffers DEF get_on_call_schedule_finish, Resumes, Finish
    <2>3. CASE IsCurrent(c)
      <3>1. inflight[c] # None /\ inflight[c].call[1] = "get_on_call_schedule"
        BY <1>11 DEF get_on_call_schedule_finish, Resumes
      <3>2. PICK i \in Ids : inflight[c].call = <<"get_on_call_schedule", i>>
        BY <3>1 DEF StorageInv, CallsAgree, Pending
      <3>3. i \in DOMAIN duck.schedules /\ inflight[c].row = duck.schedules[i]
        BY <1>2, <2>3, <3>2, TablesRead DEF IsCurrent, Has
      <3>4. s \in list_on_call_overrides_inner(i) BY <2>1, <3>2
      <3>5. s \in Memory!overrides_for_schedule(i)
        BY <1>2, <3>4, SameLibrary
        DEF list_on_call_overrides_inner, Memory!overrides_for_schedule, Descending,
            Memory!Descending, Ascending, Memory!Ascending, Where, Memory!Where, starts_at,
            Memory!starts_at
      <3>6. /\ call' = <<"get_on_call_schedule", i>> /\ UNCHANGED clock
            /\ reply' = Ok(<<duck.schedules[i], s>>)
        BY <2>1, <3>2, <3>3 DEF Finish, Put
      <3>7. UNCHANGED Maps
        <4>1. duck' = [duck EXCEPT !.schedules = duck.schedules] BY <2>1 DEF Finish, Put
        <4>2. \A t \in Tables : duck'[t] = duck[t] BY <4>1
        <4> QED BY <4>2 DEF Maps
      <3> QED
        BY <1>2, <3>3, <3>5, <3>6, <3>7, SameResults DEF Memory!get_on_call_schedule, Memory!Answer
    <2> QED BY <2>2, <2>3
  <1> QED BY <1>3, <1>4, <1>5, <1>6, <1>7, <1>9, <1>10, <1>11, SameSets
          DEF OnCallCalls, Memory!OnCallCalls, Schedules, Memory!Schedules

\* Incident updates: a note on an incident nobody touched in between.
LEMMA NoteStep ==
    ASSUME StorageInv, NoteCalls
    PROVE  Memory!IncidentCalls \/ Differs \/ UNCHANGED refined
  <1> DOMAIN duck = Tables BY DEF StorageInv, RowsAgree
  <1>1. "incidents" \in WithPayload BY DEF WithPayload
  <1>2. /\ DOMAIN Maps.incidents = DOMAIN duck.incidents
        /\ \A k \in DOMAIN duck.incidents : Maps.incidents[k] = duck.incidents[k].payload
    BY <1>1, PayloadHeld
  <1>3. ASSUME NEW c \in Clients, NEW i \in Ids, add_incident_update_begin(c, i)
        PROVE  Memory!add_incident_update(i) \/ UNCHANGED refined
    <2>1. CASE Has("incidents", i)
      BY <1>3, <2>1 DEF add_incident_update_begin, Begin, refined
    <2>2. CASE ~Has("incidents", i)
      BY <1>2, <1>3, <2>2, ReadHeld, SameResults
      DEF add_incident_update_begin, Begin, Has, Memory!add_incident_update
    <2> QED BY <2>1, <2>2
  <1>4. ASSUME NEW c \in Clients, add_incident_update_finish(c)
        PROVE  Differs \/ \E i \in Ids : Memory!add_incident_update(i)
    <2>1. CASE ~IsCurrent(c)
      BY <1>4, <2>1, StaleDiffers DEF add_incident_update_finish, Resumes, Finish
    <2>2. CASE IsCurrent(c)
      <3>1. inflight[c] # None /\ inflight[c].call[1] = "add_incident_update"
        BY <1>4 DEF add_incident_update_finish, Resumes
      <3>2. PICK i \in Ids : /\ inflight[c].call = <<"add_incident_update", i>>
                             /\ inflight[c].row \in IncidentPayload(i)
        BY <3>1 DEF StorageInv, CallsAgree, Pending
      <3>3. PICK old : old = inflight[c].row OBVIOUS
      <3>4. i \in DOMAIN duck.incidents /\ old = Maps.incidents[i]
        BY <2>2, <3>2, <3>3, TablesRead DEF IsCurrent, Has
      <3>5. PICK new : new = [old EXCEPT !.notes = @ + 1] OBVIOUS
      <3>6. PICK row : row = incident_row(new) OBVIOUS
      <3>7. new.id = i /\ row.payload = new BY <3>2, <3>3, <3>5, <3>6 DEF IncidentPayload, incident_row
      <3>8. /\ Put("incidents", With(duck.incidents, i, row), Ok(new))
            /\ call' = <<"add_incident_update", i>>
        BY <1>4, <3>2, <3>3, <3>4, <3>5, <3>6, <3>7 DEF add_incident_update_finish, Finish, Has
      <3>9. Memory!Write("incidents", With(Maps.incidents, i, new), Ok(new))
        BY <1>1, <3>7, <3>8, SetPayload
      <3>10. Memory!add_incident_update(i)
        BY <1>2, <3>4, <3>5, <3>8, <3>9, SameResults DEF Memory!add_incident_update, Memory!Upsert
      <3> QED BY <3>10
    <2> QED BY <2>1, <2>2
  <1> QED BY <1>3, <1>4 DEF NoteCalls, Memory!IncidentCalls

----------------------------------------------------------------------------
(* Lists whose order the backends choose differently.                      *)

\* A list in SetToSeqs of a finite set has its rows and its length.
LEMMA OrderOfSet ==
    ASSUME NEW Q, IsFiniteSet(Q), NEW t \in SetToSeqs(Q)
    PROVE  Lists(Q, t)
  <1>1. PICK n : n = Cardinality(Q) OBVIOUS
  <1>2. n \in Nat BY <1>1, FS_CardinalityType
  <1>3. t \in [1..n -> Q] /\ \A i, j \in 1..n : i # j => t[i] # t[j] BY <1>1 DEF SetToSeqs
  <1>4. Len(t) = n BY <1>2, <1>3
  <1>5. ToSet(t) = Q
    <2>1. PICK P : P = {t[i] : i \in 1..n} OBVIOUS
    <2>2. P \subseteq Q BY <1>3, <2>1
    <2>3. t \in Bijection(1..n, P)
      BY <1>3, <2>1 DEF Bijection, Injection, Surjection, IsInjective
    <2>4. Cardinality(P) = n
      <3>1. IsFiniteSet(1..n) /\ Cardinality(1..n) = n BY <1>2, FS_Interval
      <3>2. ExistsBijection(1..n, P) BY <2>3 DEF ExistsBijection
      <3> QED BY <3>1, <3>2, FS_Bijection
    <2>5. P = Q BY <1>1, <2>2, <2>4, FS_Subset
    <2> QED BY <1>3, <2>1, <2>5 DEF ToSet
  <1> QED BY <1>1, <1>4, <1>5 DEF Lists

\* A window, or a silence, is under a filter when its row is.
LEMMA InWindowSame ==
    ASSUME NEW r, NEW q, r.starts_at = q.starts_at, r.ends_at = q.ends_at, NEW f, NEW now
    PROVE  InWindow(r, f, now) = InWindow(q, f, now)
  BY Zenon DEF InWindow, IsActive

Hits(set, f, now) == {r \in set : InWindow(r, f, now)}
InStartOrder(s) == \A i, j \in DOMAIN s : i < j => s[i].starts_at <= s[j].starts_at

\* The orders of the rows under a filter, filter by filter.
LEMMA FilterOrders ==
    ASSUME NEW rows, NEW f \in Filters, NEW t \in FilterOrder(rows, f)
    PROVE  \E s \in SetToSeqs(Hits(rows, f, clock)) :
             t = PayloadsOf(s) /\ (f \in {"active", "upcoming"} => InStartOrder(s))
  <1>1. PICK H : H = {r \in rows : InWindow(r, f, clock)} OBVIOUS
  <1>2. CASE f \in {"active", "upcoming"}
    <2>1. t \in Payloads(Ascending(H, starts_at))
      BY <1>1, <1>2, Zenon DEF FilterOrder, Payloads, Ascending, starts_at
    <2> QED BY <1>1, <2>1 DEF Payloads, Ascending, starts_at, Hits, PayloadsOf, InStartOrder
  <1>3. CASE f = "past"
    <2>1. "past" \notin {"active", "upcoming"} /\ "past" # "all" OBVIOUS
    <2>2. t \in Payloads(Descending(H, ends_at))
      BY <1>1, <1>3, <2>1, Zenon DEF FilterOrder, Payloads, Descending, Ascending, ends_at
    <2> QED BY <1>1, <1>3, <2>2 DEF Payloads, Descending, Ascending, ends_at, Hits, PayloadsOf
  <1>4. CASE f = "all"
    <2>1. "all" \notin {"active", "upcoming"} /\ "past" # "all" OBVIOUS
    <2>2. t \in Payloads(Descending(H, starts_at))
      BY <1>1, <1>4, <2>1, Zenon DEF FilterOrder, Payloads, Descending, Ascending, starts_at
    <2> QED BY <1>1, <1>4, <2>2 DEF Payloads, Descending, Ascending, starts_at, Hits, PayloadsOf
  <1> QED BY <1>2, <1>3, <1>4 DEF Filters

\* The rows a filter selects, and their payloads.
LEMMA FilteredPayloads ==
    ASSUME NEW rows,
           \A k \in DOMAIN rows : /\ k \in Ids /\ rows[k].payload.id = k
                                  /\ rows[k].payload.starts_at = rows[k].starts_at
                                  /\ rows[k].payload.ends_at = rows[k].ends_at,
           NEW maps, maps = {r.payload : r \in Range(rows)}
    PROVE  \A f, now : \A s \in SetToSeqs(Hits(Range(rows), f, now)) :
             /\ PayloadsOf(s) \in SetToSeqs(Hits(maps, f, now))
             /\ Lists(Hits(maps, f, now), PayloadsOf(s))
             /\ InStartOrder(s) => InStartOrder(PayloadsOf(s))
  <1> SUFFICES ASSUME NEW f, NEW now, NEW s \in SetToSeqs(Hits(Range(rows), f, now))
               PROVE  /\ PayloadsOf(s) \in SetToSeqs(Hits(maps, f, now))
                      /\ Lists(Hits(maps, f, now), PayloadsOf(s))
                      /\ InStartOrder(s) => InStartOrder(PayloadsOf(s))
    OBVIOUS
  <1>1. PICK R : R = Hits(Range(rows), f, now) OBVIOUS
  <1>2. PICK Q : Q = Hits(maps, f, now) OBVIOUS
  <1>3. \A r \in Range(rows) : /\ r.payload.starts_at = r.starts_at
                              /\ r.payload.ends_at = r.ends_at
    BY DEF Range
  <1>4. \A r \in Range(rows) : InWindow(r.payload, f, now) = InWindow(r, f, now)
    BY <1>3, InWindowSame
  <1>5. Q = {r.payload : r \in R} BY <1>1, <1>2, <1>4 DEF Hits
  <1>6. PICK t : t = PayloadsOf(s) OBVIOUS
  <1>7. /\ t \in SetToSeqs({r.payload : r \in R})
        /\ DOMAIN s = 1..Cardinality(R) /\ \A i \in DOMAIN s : s[i] \in R
    <2>1. R \in SUBSET Range(rows) BY <1>1 DEF Hits
    <2> QED BY <1>1, <1>6, <2>1, KeyedOrder DEF PayloadsOf
  <1>8. IsFiniteSet(Q)
    <2>1. PICK ids : ids = [p \in Q |-> p.id] OBVIOUS
    <2>2. Q \subseteq {rows[k].payload : k \in DOMAIN rows} BY <1>2 DEF Range, Hits
    <2>3. ids \in Injection(Q, Ids) BY <2>1, <2>2 DEF Injection, IsInjective
    <2> QED BY <2>3, StorageAssumption, FS_Injection
  <1>9. Lists(Q, t) BY <1>5, <1>7, <1>8, OrderOfSet
  <1>10. InStartOrder(s) => InStartOrder(t)
    BY <1>1, <1>3, <1>7, <1>6 DEF InStartOrder, PayloadsOf, Hits
  <1> QED BY <1>2, <1>5, <1>7, <1>6, <1>9, <1>10

\* What WindowRows says, field by field.
LEMMA WindowRowFacts ==
    ASSUME NEW rows, WindowRows(rows)
    PROVE  \A k \in DOMAIN rows :
             /\ k \in Ids /\ rows[k].payload.id = k
             /\ rows[k].payload.starts_at = rows[k].starts_at
             /\ rows[k].payload.ends_at = rows[k].ends_at
  BY DEF WindowRows, Windows, window_row

\* Maintenance windows: past and all come in another order.
LEMMA WindowStep ==
    ASSUME StorageInv, WindowCalls
    PROVE  Memory!WindowCalls \/ Differs
  <1> DOMAIN duck = Tables BY DEF StorageInv, RowsAgree
  <1>1. "windows" \in WithPayload BY DEF WithPayload
  <1>2. /\ DOMAIN Maps.windows = DOMAIN duck.windows
        /\ \A k \in DOMAIN duck.windows : Maps.windows[k] = duck.windows[k].payload
        /\ Range(Maps.windows) = {r.payload : r \in Range(duck.windows)}
    BY <1>1, PayloadHeld
  <1>3. WindowRows(duck.windows) BY DEF StorageInv, RowsAgree
  <1>4. ASSUME NEW f \in Filters, list_maintenance_windows(f)
        PROVE  Memory!list_maintenance_windows(f) \/ Differs
    <2>1. PICK rows, maps : rows = duck.windows /\ maps = Range(Maps.windows) OBVIOUS
    <2>2. PICK t \in FilterOrder(Range(rows), f) : reply' = Ok(t)
      BY <1>4, <2>1 DEF list_maintenance_windows, SELECT_ORDERED, Answer
    <2>3. PICK s \in SetToSeqs(Hits(Range(rows), f, clock)) :
             t = PayloadsOf(s) /\ (f \in {"active", "upcoming"} => InStartOrder(s))
      BY <2>2, FilterOrders
    <2>4. /\ t \in SetToSeqs(Hits(maps, f, clock)) /\ Lists(Hits(maps, f, clock), t)
          /\ f \in {"active", "upcoming"} => InStartOrder(t)
      <3>1. \A k \in DOMAIN rows : /\ k \in Ids /\ rows[k].payload.id = k
                                   /\ rows[k].payload.starts_at = rows[k].starts_at
                                   /\ rows[k].payload.ends_at = rows[k].ends_at
        BY <1>3, <2>1, WindowRowFacts
      <3>2. maps = {r.payload : r \in Range(rows)} BY <1>2, <2>1
      <3> QED BY <2>3, <3>1, <3>2, FilteredPayloads
    <2>5. Memory!Answer({Ok(t)}) /\ UNCHANGED <<duck, clock>>
      BY <1>4, <2>2, AnswerHeld
      DEF list_maintenance_windows, SELECT_ORDERED, Answer, Memory!Answer
    <2>6. CASE f \in {"active", "upcoming"}
      BY <1>4, <2>1, <2>4, <2>5, <2>6, SameLibrary, SameResults, SameRules
      DEF list_maintenance_windows, Memory!list_maintenance_windows, Memory!Answer, Memory!Lists,
          Memory!Ascending, Memory!Where, Memory!starts_at, Hits, InStartOrder
    <2>7. CASE f \in {"past", "all"}
      <3>1. call'[1] = "list_maintenance_windows" /\ call'[2] = f
        BY <1>4 DEF list_maintenance_windows
      <3>2. reply'[1] = "ok" /\ reply'[2] = t BY <2>2 DEF Ok
      <3> QED BY <2>1, <2>4, <2>5, <2>7, <3>1, <3>2 DEF Differs, ReadDiffers, OrderDiffers, Hits
    <2> QED BY <2>6, <2>7 DEF Filters
  <1>5. ASSUME NEW i \in Ids, get_maintenance_window(i) PROVE Memory!get_maintenance_window(i)
    BY <1>2, <1>5, ReadHeld, SameResults
    DEF get_maintenance_window, SELECT_PAYLOAD, Has, Memory!get_maintenance_window, Memory!GetRow
  <1>6. ASSUME NEW i \in Ids, delete_maintenance_window(i)
        PROVE  Memory!delete_maintenance_window(i)
    BY <1>1, <1>2, <1>6, ReadHeld, DropPayload, SameResults, SameLibrary
    DEF delete_maintenance_window, DELETE_ONE, DELETE_KEY, Has, Memory!delete_maintenance_window,
        Memory!RemoveRow
  <1>7. ASSUME NEW t \in Ids, is_target_in_active_maintenance(t)
        PROVE  Memory!is_target_in_active_maintenance(t)
    <2>1. PICK R : R = {r \in Range(duck.windows) : IsActive(r, clock) /\ t \in r.payload.components}
      OBVIOUS
    <2>2. R # {} <=> \E w \in Range(Maps.windows) : Memory!IsActive(w, clock) /\ t \in w.components
      <3>1. \A r \in Range(duck.windows) : /\ r.payload.starts_at = r.starts_at
                                          /\ r.payload.ends_at = r.ends_at
        <4>1. PICK rows : rows = duck.windows OBVIOUS
        <4> QED BY <1>3, <4>1, WindowRowFacts DEF Range
      <3> QED BY <1>2, <2>1, <3>1 DEF IsActive, Memory!IsActive
    <2>3. Memory!Read(Ok(R # {}))
      BY <1>7, <2>1, ReadHeld, Zenon DEF is_target_in_active_maintenance, Where
    <2>4. Ok(R # {})
            = Ok(\E w \in Range(Maps.windows) : Memory!IsActive(w, clock) /\ t \in w.components)
      BY <2>2, Zenon
    <2> QED
      BY <1>7, <2>3, <2>4, SameResults, SameLibrary, Zenon
      DEF is_target_in_active_maintenance, Memory!is_target_in_active_maintenance
  <1>8. ASSUME NEW w \in Windows, create_maintenance_window(w)
        PROVE  Memory!create_maintenance_window(w)
    <2>1. PICK row : row = window_row(w) OBVIOUS
    <2>2. row.payload = w BY <2>1 DEF window_row
    <2>3. IF Has("windows", w.id) THEN Read(Conflict)
          ELSE Write("windows", With(duck.windows, w.id, row), Ok(w))
      BY <1>8, <2>1 DEF create_maintenance_window, INSERT
    <2>4. IF Has("windows", w.id) THEN Memory!Read(Conflict)
          ELSE Memory!Write("windows", With(Maps.windows, w.id, w), Ok(w))
      BY <1>1, <2>2, <2>3, ReadHeld, PutPayload
    <2> QED
      BY <1>2, <1>8, <2>4, SameResults
      DEF create_maintenance_window, Has, Memory!create_maintenance_window, Memory!InsertNew
  <1>9. ASSUME NEW w \in Windows, update_maintenance_window(w)
        PROVE  Memory!update_maintenance_window(w)
    <2>1. PICK row : row = window_row(w) OBVIOUS
    <2>2. row.payload = w BY <2>1 DEF window_row
    <2>3. IF ~Has("windows", w.id) THEN Read(NotFound)
          ELSE Write("windows", With(duck.windows, w.id, row), Ok(w))
      BY <1>9, <2>1 DEF update_maintenance_window, UPDATE
    <2>4. IF ~Has("windows", w.id) THEN Memory!Read(NotFound)
          ELSE Memory!Write("windows", With(Maps.windows, w.id, w), Ok(w))
      BY <1>1, <2>2, <2>3, ReadHeld, PutPayload
    <2> QED
      BY <1>2, <1>9, <2>4, SameResults
      DEF update_maintenance_window, Has, Memory!update_maintenance_window, Memory!Replace
  <1> QED BY <1>4, <1>5, <1>6, <1>7, <1>8, <1>9, SameSets
          DEF WindowCalls, Memory!WindowCalls, Windows, Memory!Windows

\* What SilenceRows says, field by field.
LEMMA SilenceRowFacts ==
    ASSUME NEW rows, SilenceRows(rows)
    PROVE  \A k \in DOMAIN rows :
             /\ k \in Ids /\ rows[k].payload.id = k
             /\ rows[k].payload.starts_at = rows[k].starts_at
             /\ rows[k].payload.ends_at = rows[k].ends_at
             /\ rows[k].payload.target = rows[k].target_id
  BY DEF SilenceRows, SilencePayload, silence_row

\* The silences of a target that are active now, in both representations.
ActiveRows(set, t, now) == {r \in set : IsActive(r, now) /\ r.target_id \in {None, t}}
ActiveRules(set, t, now) == {p \in set : IsActive(p, now) /\ p.target \in {None, t}}

LEMMA ActiveSilences ==
    ASSUME NEW rows, SilenceRows(rows), NEW maps, maps = {r.payload : r \in Range(rows)}, NEW t,
           NEW now
    PROVE  \A s \in SetToSeqs(ActiveRows(Range(rows), t, now)) :
             /\ PayloadsOf(s) \in SetToSeqs(ActiveRules(maps, t, now))
             /\ InStartOrder(s) => InStartOrder(PayloadsOf(s))
  <1>1. PICK R : R = ActiveRows(Range(rows), t, now) OBVIOUS
  <1>2. PICK Q : Q = ActiveRules(maps, t, now) OBVIOUS
  <1>3. \A r \in Range(rows) : /\ r.payload.starts_at = r.starts_at
                              /\ r.payload.ends_at = r.ends_at
                              /\ r.payload.target = r.target_id
    BY SilenceRowFacts DEF Range
  <1>4. Q = {r.payload : r \in R} BY <1>1, <1>2, <1>3 DEF IsActive, ActiveRows, ActiveRules
  <1>5. R \in SUBSET Range(rows) BY <1>1 DEF ActiveRows
  <1>6. \A k \in DOMAIN rows : k \in Ids /\ rows[k].payload.id = k BY SilenceRowFacts
  <1>7. ASSUME NEW s \in SetToSeqs(R)
        PROVE  PayloadsOf(s) \in SetToSeqs(Q) /\ (InStartOrder(s) => InStartOrder(PayloadsOf(s)))
    <2>1. /\ PayloadsOf(s) \in SetToSeqs({r.payload : r \in R})
          /\ \A i \in DOMAIN s : s[i] \in R
      BY <1>5, <1>6, KeyedOrder DEF PayloadsOf
    <2> QED BY <1>3, <1>4, <1>5, <2>1 DEF InStartOrder, PayloadsOf
  <1> QED BY <1>1, <1>2, <1>7

\* Silence rules: two filters fail in DuckDB, and one comes in another order.
LEMMA SilenceStep ==
    ASSUME StorageInv, SilenceCalls
    PROVE  Memory!SilenceCalls \/ Differs
  <1> DOMAIN duck = Tables BY DEF StorageInv, RowsAgree
  <1>1. "silences" \in WithPayload BY DEF WithPayload
  <1>2. /\ DOMAIN Maps.silences = DOMAIN duck.silences
        /\ \A k \in DOMAIN duck.silences : Maps.silences[k] = duck.silences[k].payload
        /\ Range(Maps.silences) = {r.payload : r \in Range(duck.silences)}
    BY <1>1, PayloadHeld
  <1>3. SilenceRows(duck.silences) BY DEF StorageInv, RowsAgree
  <1>4. ASSUME NEW f \in Filters, list_silence_rules(f)
        PROVE  Memory!list_silence_rules(f) \/ Differs
    <2>1. CASE f \in {"upcoming", "past"}
      <3>1. /\ reply' = EngineError /\ UNCHANGED <<duck, clock>>
            /\ call' = <<"list_silence_rules", f>>
        BY <1>4, <2>1 DEF list_silence_rules, Read, Answer
      <3> QED BY <2>1, <3>1 DEF Differs, ReadDiffers, StatementFails
    <2>2. CASE f \in {"active", "all"}
      <3>1. PICK rows, maps : rows = duck.silences /\ maps = Range(Maps.silences) OBVIOUS
      <3>2. SELECT_ORDERED(FilterOrder(Range(rows), f)) /\ call' = <<"list_silence_rules", f>>
        BY <1>4, <2>2, <3>1 DEF list_silence_rules
      <3>3. PICK t \in FilterOrder(Range(rows), f) : reply' = Ok(t)
        BY <3>2 DEF SELECT_ORDERED, Answer
      <3>4. PICK s \in SetToSeqs(Hits(Range(rows), f, clock)) :
               t = PayloadsOf(s) /\ (f \in {"active", "upcoming"} => InStartOrder(s))
        BY <3>3, FilterOrders
      <3>5. /\ t \in SetToSeqs(Hits(maps, f, clock)) /\ Lists(Hits(maps, f, clock), t)
            /\ f = "active" => InStartOrder(t)
        <4>1. \A k \in DOMAIN rows : /\ k \in Ids /\ rows[k].payload.id = k
                                     /\ rows[k].payload.starts_at = rows[k].starts_at
                                     /\ rows[k].payload.ends_at = rows[k].ends_at
          BY <1>3, <3>1, SilenceRowFacts
        <4>2. maps = {r.payload : r \in Range(rows)} BY <1>2, <3>1
        <4> QED BY <3>4, <4>1, <4>2, FilteredPayloads
      <3>6. Memory!Answer({Ok(t)}) /\ UNCHANGED <<duck, clock>>
        BY <3>2, <3>3, AnswerHeld DEF SELECT_ORDERED, Answer, Memory!Answer
      <3>7. CASE f = "active"
        BY <3>1, <3>2, <3>5, <3>6, <3>7, SameLibrary, SameResults, SameRules
        DEF Memory!list_silence_rules, Memory!Answer, Memory!Lists,
            Memory!Ascending, Memory!Where, Memory!starts_at, Hits, InStartOrder
      <3>8. CASE f = "all"
        <4>1. \A r : InWindow(r, "all", clock)
          <5>1. "all" # "active" /\ "all" # "upcoming" /\ "all" # "past" OBVIOUS
          <5> QED BY <5>1, Zenon DEF InWindow
        <4>2. Hits(maps, f, clock) = maps BY <3>8, <4>1 DEF Hits
        <4>3. reply'[1] = "ok" /\ reply'[2] = t BY <3>3 DEF Ok
        <4>4. Lists(Range(Maps.silences), t) BY <3>1, <3>5, <4>2
        <4> QED BY <3>2, <3>6, <3>8, <4>3, <4>4 DEF Differs, ReadDiffers, OrderDiffers
      <3> QED BY <2>2, <3>7, <3>8
    <2> QED BY <2>1, <2>2 DEF Filters
  <1>5. ASSUME NEW i \in Ids, get_silence_rule(i) PROVE Memory!get_silence_rule(i)
    BY <1>2, <1>5, ReadHeld, SameResults
    DEF get_silence_rule, SELECT_PAYLOAD, Has, Memory!get_silence_rule, Memory!GetRow
  <1>6. ASSUME NEW i \in Ids, delete_silence_rule(i) PROVE Memory!delete_silence_rule(i)
    BY <1>1, <1>2, <1>6, ReadHeld, DropPayload, SameResults, SameLibrary
    DEF delete_silence_rule, DELETE_ONE, DELETE_KEY, Has, Memory!delete_silence_rule,
        Memory!RemoveRow
  <1>7. ASSUME NEW t \in Ids, list_active_silences_for_target(t)
        PROVE  Memory!list_active_silences_for_target(t)
    <2>1. PICK rows, maps : rows = duck.silences /\ maps = Range(Maps.silences) OBVIOUS
    <2>2. PICK R : R = ActiveRows(Range(rows), t, clock) OBVIOUS
    <2>3. PICK s \in SetToSeqs(R) : reply' = Ok(PayloadsOf(s)) /\ InStartOrder(s)
      BY <1>7, <2>1, <2>2
      DEF list_active_silences_for_target, SELECT_ORDERED, Answer, Payloads, Ascending, starts_at,
          Where, PayloadsOf, InStartOrder, ActiveRows
    <2>4. PICK l : l = PayloadsOf(s) OBVIOUS
    <2>5. /\ l \in SetToSeqs(ActiveRules(maps, t, clock))
          /\ InStartOrder(l)
      <3>1. SilenceRows(rows) /\ maps = {r.payload : r \in Range(rows)} BY <1>2, <1>3, <2>1
      <3>2. PICK now : now = clock OBVIOUS
      <3> QED BY <2>2, <2>3, <2>4, <3>1, <3>2, ActiveSilences
    <2>6. Memory!Answer({Ok(l)})
      BY <1>7, <2>3, <2>4, AnswerHeld
      DEF list_active_silences_for_target, SELECT_ORDERED, Answer, Memory!Answer
    <2> QED
      BY <1>7, <2>1, <2>5, <2>6, SameLibrary, SameResults
      DEF list_active_silences_for_target, Memory!list_active_silences_for_target, Memory!Answer,
          Memory!Lists, Memory!Ascending, Memory!Where, Memory!starts_at, IsActive,
          Memory!IsActive, InStartOrder, ActiveRules
  <1>8. ASSUME NEW i \in Ids, NEW t \in Ids \cup {None}, NEW from \in Times, NEW to \in Times,
               create_silence_rule(i, t, from, to)
        PROVE  Memory!create_silence_rule(i, t, from, to)
    <2>1. PICK new : new = [id |-> i, target |-> t, starts_at |-> from, ends_at |-> to] OBVIOUS
    <2>2. PICK row : row = silence_row(new) OBVIOUS
    <2>3. new.id = i /\ row.payload = new BY <2>1, <2>2 DEF silence_row
    <2>4. ~Has("silences", i) /\ Write("silences", With(duck.silences, i, row), Ok(new))
      BY <1>8, <2>1, <2>2 DEF create_silence_rule, INSERT
    <2>5. Memory!Write("silences", With(Maps.silences, i, new), Ok(new))
      BY <1>1, <2>3, <2>4, PutPayload
    <2> QED
      BY <1>2, <1>8, <2>1, <2>3, <2>4, <2>5, SameResults
      DEF create_silence_rule, Has, Memory!create_silence_rule, Memory!InsertNew
  <1>9. ASSUME NEW i \in Ids, NEW t \in Ids \cup {None}, NEW from \in OptionalTimes,
               NEW to \in OptionalTimes, update_silence_rule(i, t, from, to)
        PROVE  Memory!update_silence_rule(i, t, from, to)
    <2>1. CASE ~Has("silences", i)
      BY <1>2, <1>9, <2>1, ReadHeld, SameResults
      DEF update_silence_rule, Has, Memory!update_silence_rule
    <2>2. CASE Has("silences", i)
      <3>1. PICK old : old = duck.silences[i].payload OBVIOUS
      <3>2. PICK new : new = [old EXCEPT !.target = t,
                                         !.starts_at = IF from = None THEN @ ELSE from,
                                         !.ends_at = IF to = None THEN @ ELSE to] OBVIOUS
      <3>3. PICK row : row = silence_row(new) OBVIOUS
      <3>4. row.payload = new BY <3>3 DEF silence_row
      <3>5. IF new.starts_at >= new.ends_at THEN Read(InvalidInput)
            ELSE Write("silences", With(duck.silences, i, row), Ok(new))
        BY <1>9, <2>2, <3>1, <3>2, <3>3 DEF update_silence_rule, UPDATE
      <3>6. IF new.starts_at >= new.ends_at THEN Memory!Read(InvalidInput)
            ELSE Memory!Write("silences", With(Maps.silences, i, new), Ok(new))
        BY <1>1, <3>4, <3>5, ReadHeld, PutPayload
      <3>7. i \in DOMAIN Maps.silences /\ old = Maps.silences[i] BY <1>2, <2>2, <3>1 DEF Has
      <3> QED
        BY <1>9, <3>2, <3>6, <3>7, SameResults
        DEF update_silence_rule, Memory!update_silence_rule, Memory!Upsert
    <2> QED BY <2>1, <2>2
  <1> QED BY <1>4, <1>5, <1>6, <1>7, <1>8, <1>9, SameSets DEF SilenceCalls, Memory!SilenceCalls

----------------------------------------------------------------------------
(* Variables: the value column is NOT NULL.                                *)

unstored(v) == [v EXCEPT !.value = IF @ = Blank THEN None ELSE @]

\* The map of the variables has None where the column is blank.
LEMMA VariableMap ==
    \A rows : AsMap("variables", rows) = [k \in DOMAIN rows |-> unstored(rows[k])]
  <1>1. /\ "variables" \notin {"targets", "incidents", "pages", "windows", "silences", "channels"}
        /\ "variables" # "components"
    OBVIOUS
  <1> QED BY <1>1, Zenon DEF AsMap, unstored

LEMMA VariableHeld ==
    /\ DOMAIN Maps.variables = DOMAIN duck.variables
    /\ \A k \in DOMAIN duck.variables : Maps.variables[k] = unstored(duck.variables[k])
  <1>1. Maps.variables = AsMap("variables", duck.variables) BY DEF Maps, Tables
  <1> QED BY <1>1, VariableMap

\* Putting and deleting a variable, stored and as memory keeps it.
LEMMA PutVariable ==
    ASSUME NEW v \in Variables, NEW answer, DOMAIN duck = Tables,
           Write("variables", With(duck.variables, v.id, stored(v)), answer)
    PROVE  Memory!Write("variables", With(Maps.variables, v.id, v), answer)
  <1>1. "variables" \in Tables BY DEF Tables
  <1>2. PICK old, row, new : old = duck.variables /\ row = stored(v) /\ new = With(old, v.id, row)
    OBVIOUS
  <1>3. Memory!Write("variables", AsMap("variables", new), answer) BY <1>1, <1>2, PutHeld DEF Write
  <1>4. unstored(row) = v
    <2>1. None # 0 /\ v.value \in {None, 1} BY StorageAssumption DEF Variables
    <2>2. PICK kept : kept = IF v.value = None THEN 0 ELSE v.value OBVIOUS
    <2>3. row = [v EXCEPT !.value = kept] BY <1>2, <2>2 DEF stored, Blank
    <2>4. row.value = kept BY <2>3 DEF Variables
    <2>5. unstored(row) = [row EXCEPT !.value = v.value]
      BY <2>1, <2>2, <2>4 DEF unstored, Blank
    <2> QED BY <2>3, <2>5 DEF Variables
  <1>5. AsMap("variables", new) = With(AsMap("variables", old), v.id, v)
    <2>1. AsMap("variables", new) = [k \in DOMAIN new |-> unstored(new[k])] BY VariableMap
    <2>2. AsMap("variables", old) = [k \in DOMAIN old |-> unstored(old[k])] BY VariableMap
    <2> QED BY <1>2, <1>4, <2>1, <2>2 DEF With
  <1>6. AsMap("variables", old) = Maps.variables BY <1>1, <1>2 DEF Maps
  <1> QED BY <1>3, <1>5, <1>6

LEMMA DropVariable ==
    ASSUME NEW k, NEW answer, DOMAIN duck = Tables,
           Write("variables", Restrict(duck.variables, DOMAIN duck.variables \ {k}), answer)
    PROVE  Memory!Write("variables", Restrict(Maps.variables, DOMAIN Maps.variables \ {k}), answer)
  <1>1. "variables" \in Tables BY DEF Tables
  <1>2. PICK old, new : old = duck.variables /\ new = Restrict(old, DOMAIN old \ {k}) OBVIOUS
  <1>3. Memory!Write("variables", AsMap("variables", new), answer) BY <1>1, <1>2, PutHeld DEF Write
  <1>4. PICK map : map = Maps.variables OBVIOUS
  <1>5. map = [x \in DOMAIN old |-> unstored(old[x])] BY <1>1, <1>2, <1>4, VariableMap DEF Maps
  <1>6. AsMap("variables", new) = [x \in DOMAIN new |-> unstored(new[x])] BY VariableMap
  <1>7. AsMap("variables", new) = Restrict(map, DOMAIN map \ {k})
    BY <1>2, <1>5, <1>6 DEF Restrict
  <1> QED BY <1>3, <1>4, <1>7

\* Redacted, the stored variables and those in memory differ only where one is blank.
LEMMA RedactedRows ==
    ASSUME NEW rows, VariableRows(rows), NEW map, map = [k \in DOMAIN rows |-> unstored(rows[k])]
    PROVE  /\ \A k \in DOMAIN rows : map[k].key = rows[k].key
           /\ (\A k \in DOMAIN rows : rows[k].value # Blank \/ rows[k].secret)
              => {redacted(v) : v \in Range(rows)} = {Memory!redacted(v) : v \in Range(map)}
  <1>1. ASSUME NEW k \in DOMAIN rows
        PROVE  /\ map[k].key = rows[k].key
               /\ rows[k].value # Blank \/ rows[k].secret =>
                    redacted(rows[k]) = Memory!redacted(map[k])
    <2>1. PICK r : r = rows[k] OBVIOUS
    <2>2. r \in [id : {k}, key : Ids, secret : BOOLEAN, value : {Blank, 1}] BY <2>1 DEF VariableRows
    <2>3. PICK m : m = unstored(r) OBVIOUS
    <2>4. m = map[k] BY <2>1, <2>3
    <2>5. m.key = r.key /\ m.secret = r.secret BY <2>2, <2>3 DEF unstored
    <2>6. CASE r.secret
      BY <2>1, <2>2, <2>3, <2>4, <2>5, <2>6 DEF unstored, redacted, Memory!redacted
    <2>7. CASE ~r.secret
      <3>1. r.value # Blank => m = r BY <2>2, <2>3 DEF unstored
      <3> QED BY <2>1, <2>4, <2>5, <2>7, <3>1 DEF redacted, Memory!redacted
    <2> QED BY <2>1, <2>4, <2>5, <2>6, <2>7
  <1> QED BY <1>1 DEF Range

\* Variables: the UNIQUE key, and blank values, tell the backends apart.
LEMMA VariableStep ==
    ASSUME StorageInv, VariableCalls
    PROVE  Memory!VariableCalls \/ Differs
  <1> DOMAIN duck = Tables BY DEF StorageInv, RowsAgree
  <1>1. PICK rows, map : rows = duck.variables /\ map = Maps.variables OBVIOUS
  <1>2. map = [k \in DOMAIN rows |-> unstored(rows[k])] BY <1>1, VariableMap DEF Maps, Tables
  <1>3. VariableRows(rows) BY <1>1 DEF StorageInv, RowsAgree
  <1>4. ASSUME list_variables PROVE Memory!list_variables \/ Differs
    <2>1. CASE \A k \in DOMAIN rows : rows[k].value # Blank \/ rows[k].secret
      <3>1. {redacted(v) : v \in Range(rows)} = {Memory!redacted(v) : v \in Range(map)}
        BY <1>2, <1>3, <2>1, RedactedRows
      <3>2. PICK shown : shown = {redacted(v) : v \in Range(rows)} OBVIOUS
      <3>3. PICK s \in SetToSeqs(shown) :
               /\ Answer({Ok(s)})
               /\ \A i, j \in DOMAIN s : i < j => s[i].key <= s[j].key
        BY <1>1, <1>4, <3>2 DEF list_variables, SELECT_ORDERED, Ascending, Answer
      <3>4. Memory!Answer({Ok(s)}) BY <3>3, AnswerHeld
      <3>5. shown = {Memory!redacted(v) : v \in Range(Maps.variables)} BY <1>1, <3>1, <3>2
      <3>6. s \in Memory!Ascending(shown, LAMBDA v : v.key)
        BY <3>3, SameLibrary DEF Memory!Ascending
      <3> QED
        BY <1>4, <3>4, <3>5, <3>6, SameLibrary, SameResults
        DEF list_variables, Memory!list_variables, Memory!Lists, Memory!Answer
    <2>2. CASE \E k \in DOMAIN rows : rows[k].value = Blank /\ ~rows[k].secret
      <3>1. \E v \in Range(duck.variables) : v.value = Blank /\ ~v.secret
        BY <1>1, <2>2 DEF Range
      <3>2. UNCHANGED <<duck, clock>> /\ call'[1] = "list_variables"
        BY <1>4 DEF list_variables, SELECT_ORDERED, Answer
      <3> QED BY <3>1, <3>2 DEF Differs, ReadDiffers, ColumnNotPayload
    <2> QED BY <2>1, <2>2
  <1>5. ASSUME NEW i \in Ids, delete_variable(i) PROVE Memory!delete_variable(i)
    BY <1>1, <1>2, <1>5, ReadHeld, DropVariable, SameResults, SameLibrary
    DEF delete_variable, DELETE_ONE, DELETE_KEY, Has, Memory!delete_variable, Memory!RemoveRow
  <1>6. ASSUME NEW v \in Variables, create_variable(v) PROVE Memory!create_variable(v)
    <2>1. key_taken(v.key, None) <=> \E o \in Range(map) : o.key = v.key
      <3>1. None \notin DOMAIN rows BY <1>3, StorageAssumption DEF VariableRows
      <3>2. \A k \in DOMAIN rows : map[k].key = rows[k].key BY <1>2, <1>3, RedactedRows
      <3> QED BY <1>1, <1>2, <3>1, <3>2 DEF key_taken, Range
    <2>2. v.id \notin DOMAIN map BY <1>1, <1>2, <1>6 DEF create_variable, Has
    <2>3. PICK shown : shown = redacted(v) OBVIOUS
    <2>4. shown = Memory!redacted(v) BY <2>3 DEF redacted, Memory!redacted
    <2>5. IF key_taken(v.key, None) THEN Read(Conflict)
          ELSE Write("variables", With(duck.variables, v.id, stored(v)), Ok(shown))
      BY <1>6, <2>3 DEF create_variable, INSERT
    <2>6. IF key_taken(v.key, None) THEN Memory!Read(Conflict)
          ELSE Memory!Write("variables", With(map, v.id, v), Ok(shown))
      BY <1>1, <2>5, ReadHeld, PutVariable
    <2> QED
      BY <1>1, <1>6, <2>1, <2>2, <2>4, <2>6, SameResults, SameLibrary
      DEF create_variable, Memory!create_variable, Memory!Upsert
  <1>7. ASSUME NEW v \in Variables, update_variable(v) PROVE Memory!update_variable(v) \/ Differs
    <2>1. CASE ~Has("variables", v.id)
      BY <1>1, <1>2, <1>7, <2>1, ReadHeld, SameResults
      DEF update_variable, Has, Memory!update_variable
    <2>2. CASE Has("variables", v.id) /\ key_taken(v.key, v.id)
      <3>1. reply' = Conflict /\ UNCHANGED <<duck, clock>>
        BY <1>7, <2>2 DEF update_variable, Read, Answer
      <3>2. call'[1] = "update_variable" /\ call'[2] = v BY <1>7 DEF update_variable
      <3>3. UniqueColumn BY <2>2, <3>1, <3>2 DEF UniqueColumn
      <3> QED BY <3>1, <3>3 DEF Differs, ReadDiffers
    <2>3. CASE Has("variables", v.id) /\ ~key_taken(v.key, v.id)
      <3>1. PICK shown : shown = redacted(v) OBVIOUS
      <3>2. shown = Memory!redacted(v) BY <3>1 DEF redacted, Memory!redacted
      <3>3. Write("variables", With(duck.variables, v.id, stored(v)), Ok(shown))
        BY <1>7, <2>3, <3>1 DEF update_variable, UPDATE
      <3>4. Memory!Write("variables", With(map, v.id, v), Ok(shown)) BY <1>1, <3>3, PutVariable
      <3> QED
        BY <1>1, <1>2, <1>7, <2>3, <3>2, <3>4, SameResults
        DEF update_variable, Has, Memory!update_variable, Memory!Upsert
    <2> QED BY <2>1, <2>2, <2>3
  <1> QED BY <1>4, <1>5, <1>6, <1>7, SameSets
          DEF VariableCalls, Memory!VariableCalls, Variables, Memory!Variables

----------------------------------------------------------------------------
(* Notification channels and their bindings.                               *)

\* What ChannelRows says, field by field.
LEMMA ChannelRowFacts ==
    ASSUME NEW rows, ChannelRows(rows)
    PROVE  \A k \in DOMAIN rows :
             /\ k \in Ids /\ rows[k].payload.id = k
             /\ rows[k].payload.created_at = rows[k].created_at
             /\ rows[k].payload \in ChannelPayload(k)
  BY DEF ChannelRows, ChannelPayload

\* Creating a channel, and deleting it with its bindings in one transaction.
LEMMA CreateChannel ==
    ASSUME StorageInv, NEW i \in Ids, create_notification_channel(i)
    PROVE  Memory!create_notification_channel(i)
  <1>1. "channels" \in WithPayload /\ DOMAIN duck = Tables BY DEF WithPayload, StorageInv, RowsAgree
  <1>2. DOMAIN Maps.channels = DOMAIN duck.channels BY <1>1, PayloadHeld
  <1>3. PICK new : new = [id |-> i, config |-> 0, enabled |-> TRUE, disabled_reason |-> None,
                          verified_at |-> None, created_at |-> clock] OBVIOUS
  <1>4. PICK row : row = channel_row(new) OBVIOUS
  <1>5. new.id = i /\ row.payload = new BY <1>3, <1>4 DEF channel_row
  <1>6. /\ ~Has("channels", i) /\ Write("channels", With(duck.channels, i, row), Ok(new))
        /\ call' = <<"create_notification_channel", i>>
    BY <1>3, <1>4 DEF create_notification_channel, INSERT
  <1>7. Memory!Write("channels", With(Maps.channels, i, new), Ok(new))
    BY <1>1, <1>5, <1>6, PutPayload
  <1> QED
    BY <1>2, <1>3, <1>5, <1>6, <1>7, SameResults
    DEF Has, Memory!create_notification_channel, Memory!InsertNew

LEMMA DeleteChannel ==
    ASSUME StorageInv, NEW i \in Ids, delete_notification_channel(i)
    PROVE  Memory!delete_notification_channel(i)
  <1>1. /\ "channels" \in WithPayload /\ "channels" \in Tables /\ "bindings" \in Plain
        /\ DOMAIN duck = Tables
    BY DEF WithPayload, Plain, Tables, StorageInv, RowsAgree
  <1>2. DOMAIN Maps.channels = DOMAIN duck.channels /\ Maps.bindings = duck.bindings
    BY <1>1, PayloadHeld, PlainHeld
  <1>3. CASE ~Has("channels", i)
    BY <1>2, <1>3, ReadHeld, SameResults
    DEF delete_notification_channel, Has, Memory!delete_notification_channel
  <1>4. CASE Has("channels", i)
    <2>1. PICK S : S = DOMAIN duck.channels \ {i} OBVIOUS
    <2>2. PICK kept : kept = Restrict(duck.channels, S) OBVIOUS
    <2>3. PICK left : left = Restrict(duck.bindings, {k \in DOMAIN duck.bindings : k[2] # i}) OBVIOUS
    <2>4. /\ duck' = [duck EXCEPT !.channels = kept, !.bindings = left]
          /\ call' = <<"delete_notification_channel", i>> /\ reply' = Ok(None) /\ UNCHANGED clock
      BY <1>4, <2>1, <2>2, <2>3 DEF delete_notification_channel
    <2>5. PICK map : map = Restrict(Maps.channels, S) OBVIOUS
    <2>6. AsMap("channels", kept) = map
      <3>1. AsMap("channels", duck.channels) = Maps.channels BY <1>1 DEF Maps
      <3> QED BY <1>1, <2>1, <2>2, <2>5, <3>1, PayloadRestrict
    <2>7. Maps' = [Maps EXCEPT !.channels = map, !.bindings = left]
      <3>1. Maps' = [t \in Tables |-> AsMap(t, duck'[t])] BY DEF Maps
      <3>2. \A t \in Tables : AsMap(t, duck'[t]) =
              IF t = "bindings" THEN left ELSE IF t = "channels" THEN map
              ELSE AsMap(t, duck[t])
        BY <1>1, <2>4, <2>6, PlainMap
      <3> QED BY <3>1, <3>2 DEF Maps
    <2>8. i \in DOMAIN Maps.channels /\ S = DOMAIN Maps.channels \ {i} BY <1>2, <1>4, <2>1 DEF Has
    <2> QED
      BY <1>2, <2>3, <2>4, <2>5, <2>7, <2>8, SameResults, SameLibrary
      DEF Memory!delete_notification_channel
  <1> QED BY <1>3, <1>4

\* The row a channel method wrote back, when nothing overtook it.
LEMMA ChannelWritten ==
    ASSUME StorageInv, NEW c \in Clients, NEW i, NEW new, NEW row, row.payload = new, new.id = i,
           i \in DOMAIN duck.channels, NEW answer, NEW gone, WriteChannel(c, row, answer, gone)
    PROVE  /\ Memory!Write("channels", With(Maps.channels, i, new), answer)
           /\ call' = inflight[c].call
           /\ i \in DOMAIN Maps.channels
  <1>1. "channels" \in WithPayload /\ DOMAIN duck = Tables BY DEF WithPayload, StorageInv, RowsAgree
  <1>2. DOMAIN Maps.channels = DOMAIN duck.channels BY <1>1, PayloadHeld
  <1>3. Put("channels", With(duck.channels, i, row), answer) /\ call' = inflight[c].call
    BY DEF WriteChannel, Has, Finish
  <1> QED BY <1>1, <1>2, <1>3, SetPayload

\* A finishing method whose channel has not changed since it was read.
LEMMA ChannelCurrent ==
    ASSUME StorageInv, NEW c \in Clients, inflight[c] # None, IsCurrent(c),
           inflight[c].call[1] \in {"update_notification_channel", "set_channel_verified",
                                    "set_channel_disabled_reason"},
           NEW i, inflight[c].call[2] = i
    PROVE  /\ i \in DOMAIN duck.channels /\ inflight[c].row = Maps.channels[i]
           /\ inflight[c].row \in ChannelPayload(i)
  <1>1. "channels" \in WithPayload BY DEF WithPayload
  <1>2. i \in DOMAIN duck.channels /\ inflight[c].row = Maps.channels[i]
    BY TablesRead DEF IsCurrent, Has
  <1>3. PICK rows : rows = duck.channels OBVIOUS
  <1>4. ChannelRows(rows) BY <1>3 DEF StorageInv, RowsAgree
  <1>5. Maps.channels[i] = rows[i].payload BY <1>1, <1>2, <1>3, PayloadHeld
  <1> QED BY <1>2, <1>3, <1>4, <1>5, ChannelRowFacts

\* A first half changes nothing a caller sees, or answers NotFound as memory does.
LEMMA ChannelBegun ==
    ASSUME StorageInv, NEW c \in Clients, NEW asked, NEW i, ReadChannel(c, asked, i)
    PROVE  \/ UNCHANGED refined
           \/ i \notin DOMAIN Maps.channels /\ call' = asked /\ Memory!Read(NotFound)
  <1>1. "channels" \in WithPayload BY DEF WithPayload
  <1>2. DOMAIN Maps.channels = DOMAIN duck.channels BY <1>1, PayloadHeld
  <1>3. CASE Has("channels", i) BY <1>3 DEF ReadChannel, Begin, refined
  <1>4. CASE ~Has("channels", i) BY <1>2, <1>4, ReadHeld DEF ReadChannel, Begin, Has
  <1> QED BY <1>3, <1>4

\* Channels: the methods that read, and then write, a channel.
LEMMA ChannelStep ==
    ASSUME StorageInv, ChannelCalls
    PROVE  Memory!ChannelCalls \/ Differs \/ UNCHANGED refined
  <1>1. "channels" \in WithPayload /\ DOMAIN duck = Tables BY DEF WithPayload, StorageInv, RowsAgree
  <1>2. /\ DOMAIN Maps.channels = DOMAIN duck.channels
        /\ \A k \in DOMAIN duck.channels : Maps.channels[k] = duck.channels[k].payload
        /\ Range(Maps.channels) = {r.payload : r \in Range(duck.channels)}
    BY <1>1, PayloadHeld
  <1>3. ChannelRows(duck.channels) BY DEF StorageInv, RowsAgree
  <1>4. ASSUME list_notification_channels PROVE Memory!list_notification_channels
    <2>1. PICK rows, maps : rows = duck.channels /\ maps = Range(Maps.channels) OBVIOUS
    <2>2. PICK s \in SetToSeqs(Range(rows)) : Answer({Ok(PayloadsOf(s))}) /\ InCreatedOrder(s)
      BY <1>4, <2>1
      DEF list_notification_channels, SELECT_ORDERED, Answer, Payloads, Ascending, created_at, PayloadsOf,
          InCreatedOrder
    <2>3. PICK t : t = PayloadsOf(s) OBVIOUS
    <2>4. t \in SetToSeqs(maps) /\ InCreatedOrder(t)
      <3>1. \A k \in DOMAIN rows : k \in Ids /\ rows[k].payload.id = k
                                    /\ rows[k].payload.created_at = rows[k].created_at
        BY <1>3, <2>1, ChannelRowFacts
      <3>2. maps = {r.payload : r \in Range(rows)} BY <1>2, <2>1
      <3> QED BY <2>2, <2>3, <3>1, <3>2, CreatedOrder
    <2>5. Memory!Answer({Ok(t)}) BY <2>2, <2>3, AnswerHeld
    <2> QED
      BY <1>4, <2>1, <2>4, <2>5, SameLibrary, SameResults
      DEF list_notification_channels, Memory!list_notification_channels, Memory!Answer, Memory!Lists,
          Memory!Ascending, Memory!created_at, InCreatedOrder
  <1>5. ASSUME NEW i \in Ids, get_notification_channel(i) PROVE Memory!get_notification_channel(i)
    BY <1>2, <1>5, ReadHeld, SameResults
    DEF get_notification_channel, SELECT_PAYLOAD, Has, Memory!get_notification_channel,
        Memory!GetRow
  <1>6. ASSUME NEW c \in Clients, NEW i \in Ids, set_channel_verified_begin(c, i)
        PROVE  Memory!set_channel_verified(i) \/ UNCHANGED refined
    BY <1>6, ChannelBegun, SameResults
    DEF set_channel_verified_begin, Memory!set_channel_verified, Memory!ChangeChannel
  <1>7. ASSUME NEW c \in Clients, NEW i \in Ids, set_channel_disabled_reason_begin(c, i, 1)
        PROVE  Memory!set_channel_disabled_reason(i, 1) \/ UNCHANGED refined
    BY <1>7, ChannelBegun, SameResults
    DEF set_channel_disabled_reason_begin, Memory!set_channel_disabled_reason, Memory!ChangeChannel
  <1>8. ASSUME NEW c \in Clients, NEW i \in Ids, NEW p \in ChannelPatches,
               update_notification_channel_begin(c, i, p[1], p[2])
        PROVE  Memory!update_notification_channel(i, p[1], p[2]) \/ UNCHANGED refined
    BY <1>8, ChannelBegun, SameResults
    DEF update_notification_channel_begin, Memory!update_notification_channel,
        Memory!ChangeChannel
  <1>9. ASSUME NEW c \in Clients, set_channel_verified_finish(c)
        PROVE  Differs \/ \E i \in Ids : Memory!set_channel_verified(i)
    <2>1. CASE ~IsCurrent(c)
      BY <1>9, <2>1, StaleDiffers DEF set_channel_verified_finish, Resumes, WriteChannel, Finish
    <2>2. CASE IsCurrent(c)
      <3>1. inflight[c] # None /\ inflight[c].call[1] = "set_channel_verified"
        BY <1>9 DEF set_channel_verified_finish, Resumes
      <3>2. PICK i \in Ids : inflight[c].call = <<"set_channel_verified", i>>
        BY <3>1 DEF StorageInv, CallsAgree, Pending
      <3>3. PICK old : old = inflight[c].row OBVIOUS
      <3>4. i \in DOMAIN duck.channels /\ old = Maps.channels[i] /\ old \in ChannelPayload(i)
        BY <2>2, <3>1, <3>2, <3>3, ChannelCurrent
      <3>5. PICK new : new = [old EXCEPT !.verified_at = clock] OBVIOUS
      <3>6. PICK row : row = PlainPayload(new) OBVIOUS
      <3>7. new.id = i /\ row.payload = new BY <3>4, <3>5, <3>6 DEF ChannelPayload, PlainPayload
      <3>8. PICK answer : answer = Ok(None) OBVIOUS
      <3>9. WriteChannel(c, row, answer, answer)
        BY <1>9, <3>3, <3>5, <3>6, <3>8 DEF set_channel_verified_finish
      <3>10. /\ Memory!Write("channels", With(Maps.channels, i, new), answer)
             /\ call' = inflight[c].call /\ i \in DOMAIN Maps.channels
        BY <3>4, <3>7, <3>9, ChannelWritten
      <3>11. Memory!set_channel_verified(i)
        BY <3>2, <3>4, <3>5, <3>8, <3>10, SameResults
        DEF Memory!set_channel_verified, Memory!ChangeChannel, Memory!Upsert
      <3> QED BY <3>11
    <2> QED BY <2>1, <2>2
  <1>10. ASSUME NEW c \in Clients, set_channel_disabled_reason_finish(c)
         PROVE  Differs \/ \E i \in Ids : Memory!set_channel_disabled_reason(i, 1)
    <2>1. CASE ~IsCurrent(c)
      BY <1>10, <2>1, StaleDiffers
      DEF set_channel_disabled_reason_finish, Resumes, WriteChannel, Finish
    <2>2. CASE IsCurrent(c)
      <3>1. inflight[c] # None /\ inflight[c].call[1] = "set_channel_disabled_reason"
        BY <1>10 DEF set_channel_disabled_reason_finish, Resumes
      <3>2. PICK i \in Ids : inflight[c].call = <<"set_channel_disabled_reason", i, 1>>
        BY <3>1 DEF StorageInv, CallsAgree, Pending
      <3>3. PICK old : old = inflight[c].row OBVIOUS
      <3>4. i \in DOMAIN duck.channels /\ old = Maps.channels[i] /\ old \in ChannelPayload(i)
        BY <2>2, <3>1, <3>2, <3>3, ChannelCurrent
      <3>5. PICK new : new = [old EXCEPT !.disabled_reason = 1] OBVIOUS
      <3>6. PICK row : row = PlainPayload(new) OBVIOUS
      <3>7. new.id = i /\ row.payload = new BY <3>4, <3>5, <3>6 DEF ChannelPayload, PlainPayload
      <3>8. PICK answer : answer = Ok(None) OBVIOUS
      <3>9. WriteChannel(c, row, answer, answer)
        BY <1>10, <3>2, <3>3, <3>5, <3>6, <3>8 DEF set_channel_disabled_reason_finish
      <3>10. /\ Memory!Write("channels", With(Maps.channels, i, new), answer)
             /\ call' = inflight[c].call /\ i \in DOMAIN Maps.channels
        BY <3>4, <3>7, <3>9, ChannelWritten
      <3>11. Memory!set_channel_disabled_reason(i, 1)
        BY <3>2, <3>4, <3>5, <3>8, <3>10, SameResults
        DEF Memory!set_channel_disabled_reason, Memory!ChangeChannel, Memory!Upsert
      <3> QED BY <3>11
    <2> QED BY <2>1, <2>2
  <1>11. ASSUME NEW c \in Clients, update_notification_channel_finish(c)
         PROVE  Differs \/ \E i \in Ids, p \in ChannelPatches :
                              Memory!update_notification_channel(i, p[1], p[2])
    <2>1. CASE ~IsCurrent(c)
      BY <1>11, <2>1, StaleDiffers
      DEF update_notification_channel_finish, Resumes, WriteChannel, Finish
    <2>2. CASE IsCurrent(c)
      <3>1. inflight[c] # None /\ inflight[c].call[1] = "update_notification_channel"
        BY <1>11 DEF update_notification_channel_finish, Resumes
      <3>2. PICK i \in Ids, p \in ChannelPatches :
               inflight[c].call = <<"update_notification_channel", i, p[1], p[2]>>
        BY <3>1 DEF StorageInv, CallsAgree, Pending
      <3>3. PICK config, enabled : config = p[1] /\ enabled = p[2] OBVIOUS
      <3>4. PICK asked : asked = inflight[c].call OBVIOUS
      <3>5. asked[2] = i /\ asked[3] = config /\ asked[4] = enabled /\ asked[1] = "update_notification_channel"
        BY <3>2, <3>3, <3>4
      <3>6. PICK old : old = inflight[c].row OBVIOUS
      <3>7. i \in DOMAIN duck.channels /\ old = Maps.channels[i] /\ old \in ChannelPayload(i)
        BY <2>2, <3>1, <3>4, <3>5, <3>6, ChannelCurrent
      <3>8. PICK new : new = Memory!channel_patch(old, config, enabled) OBVIOUS
      <3>9. new = [old EXCEPT !.config = IF config = None THEN @ ELSE config,
                              !.enabled = IF enabled = None THEN @ ELSE enabled,
                              !.disabled_reason = IF enabled = TRUE THEN None ELSE @]
        BY <3>8, Zenon DEF Memory!channel_patch
      <3>10. PICK row : row = channel_row(new) OBVIOUS
      <3>11. new.id = i /\ row.payload = new BY <3>7, <3>9, <3>10 DEF ChannelPayload, channel_row
      <3>12. WriteChannel(c, row, Ok(new), NotFound)
        BY <1>11, <3>4, <3>5, <3>6, <3>9, <3>10, Zenon DEF update_notification_channel_finish
      <3>13. /\ Memory!Write("channels", With(Maps.channels, i, new), Ok(new))
             /\ call' = asked /\ i \in DOMAIN Maps.channels
        BY <3>4, <3>7, <3>11, <3>12, ChannelWritten
      <3>14. Memory!update_notification_channel(i, config, enabled)
        BY <3>2, <3>3, <3>4, <3>7, <3>8, <3>13, SameResults
        DEF Memory!update_notification_channel, Memory!ChangeChannel, Memory!Upsert
      <3> QED BY <3>3, <3>14
    <2> QED BY <2>1, <2>2
  <1> QED
    BY <1>4, <1>5, <1>6, <1>7, <1>8, <1>9, <1>10, <1>11, CreateChannel, DeleteChannel, SameSets
    DEF ChannelCalls, Memory!ChannelCalls

\* Bindings of channels to targets.
LEMMA BindingStep ==
    ASSUME StorageInv, BindingCalls
    PROVE  Memory!BindingCalls
  <1> DOMAIN duck = Tables BY DEF StorageInv, RowsAgree
  <1>1. "bindings" \in Plain BY DEF Plain
  <1>2. Maps.bindings = duck.bindings BY <1>1, PlainHeld
  <1>3. ASSUME NEW i \in Ids, list_target_channels(i)
        PROVE  Memory!list_target_channels(i)
    BY <1>3, <1>1, <1>2, AnswerHeld, SameLibrary, SameResults
    DEF list_target_channels, Ascending, SELECT_ORDERED, created_at,
        Memory!list_target_channels, Memory!Ascending, Memory!Lists, Memory!created_at
  <1>4. ASSUME NEW i \in Ids, unbind_channel_everywhere(i)
        PROVE  Memory!unbind_channel_everywhere(i)
    BY <1>4, <1>1, <1>2, PlainWriteHeld, SameLibrary, SameResults
    DEF unbind_channel_everywhere, Memory!unbind_channel_everywhere
  <1>5. ASSUME NEW t \in Ids, NEW c \in Ids, bind_target_channel(t, c)
        PROVE  Memory!bind_target_channel(t, c)
    BY <1>5, <1>1, <1>2, ReadHeld, PlainWriteHeld, SameResults
    DEF bind_target_channel, Has, REPLACE_INTO, Memory!bind_target_channel, Memory!Upsert
  <1>6. ASSUME NEW t \in Ids, NEW c \in Ids, unbind_target_channel(t, c)
        PROVE  Memory!unbind_target_channel(t, c)
    BY <1>6, <1>1, <1>2, PlainWriteHeld, SameLibrary, SameResults
    DEF unbind_target_channel, DELETE_KEY, Memory!unbind_target_channel, Memory!RemoveIfThere
  <1> QED
    BY <1>3, <1>4, <1>5, <1>6, CreateChannel, DeleteChannel DEF BindingCalls, Memory!BindingCalls

----------------------------------------------------------------------------
(* Components of a page: a reorder writes the sort_order column alone.     *)

bound(r) == [r.payload EXCEPT !.sort_order = r.sort_order]
OfPage(rows, p) == {rows[k] : k \in {x \in DOMAIN rows : x[1] = p}}
InSortOrder(s) == \A i, j \in DOMAIN s : i < j => s[i].sort_order <= s[j].sort_order

\* A component carries the sort_order of its column.
LEMMA ComponentMap ==
    \A rows : AsMap("components", rows) = [k \in DOMAIN rows |-> bound(rows[k])]
  <1>1. "components" \notin {"targets", "incidents", "pages", "windows", "silences", "channels"}
    OBVIOUS
  <1> QED BY <1>1, Zenon DEF AsMap, bound

\* Putting and deleting a component.
LEMMA PutComponent ==
    ASSUME NEW k, NEW row, NEW answer, DOMAIN duck = Tables,
           Write("components", With(duck.components, k, row), answer)
    PROVE  Memory!Write("components", With(Maps.components, k, bound(row)), answer)
  <1>1. "components" \in Tables BY DEF Tables
  <1>2. PICK old, new : old = duck.components /\ new = With(old, k, row) OBVIOUS
  <1>3. Memory!Write("components", AsMap("components", new), answer)
    BY <1>1, <1>2, PutHeld DEF Write
  <1>4. PICK map : map = Maps.components OBVIOUS
  <1>5. map = [x \in DOMAIN old |-> bound(old[x])] BY <1>1, <1>2, <1>4, ComponentMap DEF Maps
  <1>6. AsMap("components", new) = [x \in DOMAIN new |-> bound(new[x])] BY ComponentMap
  <1>7. AsMap("components", new) = With(map, k, bound(row)) BY <1>2, <1>5, <1>6 DEF With
  <1> QED BY <1>3, <1>4, <1>7

LEMMA DropComponent ==
    ASSUME NEW k, NEW answer, DOMAIN duck = Tables,
           Write("components", Restrict(duck.components, DOMAIN duck.components \ {k}), answer)
    PROVE  Memory!Write("components", Restrict(Maps.components, DOMAIN Maps.components \ {k}), answer)
  <1>1. "components" \in Tables BY DEF Tables
  <1>2. PICK old, new : old = duck.components /\ new = Restrict(old, DOMAIN old \ {k}) OBVIOUS
  <1>3. Memory!Write("components", AsMap("components", new), answer)
    BY <1>1, <1>2, PutHeld DEF Write
  <1>4. PICK map : map = Maps.components OBVIOUS
  <1>5. map = [x \in DOMAIN old |-> bound(old[x])] BY <1>1, <1>2, <1>4, ComponentMap DEF Maps
  <1>6. AsMap("components", new) = [x \in DOMAIN new |-> bound(new[x])] BY ComponentMap
  <1>7. AsMap("components", new) = Restrict(map, DOMAIN map \ {k}) BY <1>2, <1>5, <1>6 DEF Restrict
  <1> QED BY <1>3, <1>4, <1>7

\* A component and its column, before and after a reorder.
LEMMA ComponentRowFacts ==
    ASSUME NEW rows, ComponentRows(rows)
    PROVE  \A k \in DOMAIN rows :
             /\ k \in Ids \X Ids /\ rows[k].payload.target = k[2]
             /\ bound(rows[k]).sort_order = rows[k].sort_order
             /\ rows[k].sort_order = rows[k].payload.sort_order => bound(rows[k]) = rows[k].payload
             /\ \A n : bound([rows[k] EXCEPT !.sort_order = n]) = [bound(rows[k]) EXCEPT !.sort_order = n]
  <1> SUFFICES ASSUME NEW k \in DOMAIN rows, NEW n
               PROVE  /\ k \in Ids \X Ids /\ rows[k].payload.target = k[2]
                      /\ bound(rows[k]).sort_order = rows[k].sort_order
                      /\ rows[k].sort_order = rows[k].payload.sort_order
                           => bound(rows[k]) = rows[k].payload
                      /\ bound([rows[k] EXCEPT !.sort_order = n])
                           = [bound(rows[k]) EXCEPT !.sort_order = n]
    OBVIOUS
  <1>1. k \in Ids \X Ids BY DEF ComponentRows, ComponentRow
  <1>2. PICK sent, order : rows[k] = [payload |-> [target |-> k[2], sort_order |-> sent],
                                      sort_order |-> order]
    BY DEF ComponentRows, ComponentRow
  <1>3. PICK r, p : p = [target |-> k[2], sort_order |-> sent]
                    /\ r = [payload |-> p, sort_order |-> order]
    OBVIOUS
  <1>4. rows[k] = r BY <1>2, <1>3
  <1>5. PICK b : b = bound(r) OBVIOUS
  <1>6. b = [target |-> k[2], sort_order |-> order] BY <1>3, <1>5 DEF bound
  <1>7. r.payload = p /\ p.target = k[2] /\ r.sort_order = order /\ p.sort_order = sent BY <1>3
  <1>8. PICK q : q = [r EXCEPT !.sort_order = n] OBVIOUS
  <1>9. q = [payload |-> p, sort_order |-> n] BY <1>3, <1>8
  <1>10. bound(q) = [target |-> k[2], sort_order |-> n] BY <1>3, <1>9 DEF bound
  <1>11. [b EXCEPT !.sort_order = n] = [target |-> k[2], sort_order |-> n] BY <1>6
  <1>12. order = sent => b = p BY <1>3, <1>6
  <1>13. b.sort_order = order BY <1>6
  <1>14. bound([r EXCEPT !.sort_order = n]) = [bound(r) EXCEPT !.sort_order = n]
    BY <1>5, <1>8, <1>10, <1>11
  <1> QED BY <1>1, <1>4, <1>7, <1>5, <1>12, <1>13, <1>14

\* ORDER BY the column is a sort of the components.
LEMMA ComponentOrder ==
    ASSUME NEW rows, ComponentRows(rows), NEW map, map = [k \in DOMAIN rows |-> bound(rows[k])],
           \A k \in DOMAIN rows : rows[k].sort_order = rows[k].payload.sort_order, NEW p
    PROVE  \A s \in SetToSeqs(OfPage(rows, p)) :
             InSortOrder(s) => /\ PayloadsOf(s) \in SetToSeqs(OfPage(map, p))
                               /\ InSortOrder(PayloadsOf(s))
  <1> SUFFICES ASSUME NEW s \in SetToSeqs(OfPage(rows, p)), InSortOrder(s)
               PROVE  /\ PayloadsOf(s) \in SetToSeqs(OfPage(map, p))
                      /\ InSortOrder(PayloadsOf(s))
    OBVIOUS
  <1>1. PICK R, K : R = OfPage(rows, p) /\ K = {x \in DOMAIN rows : x[1] = p} OBVIOUS
  <1>2. R = {rows[k] : k \in K} BY <1>1 DEF OfPage
  <1>3. \A k \in K : k \in Ids \X Ids /\ k[1] = p /\ rows[k].payload.target = k[2]
    BY <1>1, ComponentRowFacts
  <1>4. IsFiniteSet(R)
    <2>1. IsFiniteSet(Ids \X Ids) BY StorageAssumption, FS_Product
    <2>2. K \in SUBSET (Ids \X Ids) BY <1>3
    <2>3. IsFiniteSet(K) BY <2>1, <2>2, FS_Subset
    <2>4. PICK f : f = [k \in K |-> rows[k]] OBVIOUS
    <2>5. f \in Surjection(K, R) BY <1>2, <2>4 DEF Surjection
    <2> QED BY <2>3, <2>5, FS_Surjection
  <1>5. \A r, q \in R : r.payload = q.payload => r = q
    <2> SUFFICES ASSUME NEW k \in K, NEW m \in K, rows[k].payload = rows[m].payload
                 PROVE  rows[k] = rows[m]
      BY <1>2
    <2>1. k[1] = m[1] /\ k[2] = m[2] BY <1>3
    <2>2. k = m BY <1>3, <2>1
    <2> QED BY <2>2
  <1>6. PICK t : t = PayloadsOf(s) OBVIOUS
  <1>7. t \in SetToSeqs({r.payload : r \in R}) /\ \A i \in DOMAIN s : s[i] \in R
    BY <1>1, <1>4, <1>5, <1>6, PayloadOrder DEF PayloadsOf
  <1>8. {r.payload : r \in R} = OfPage(map, p)
    <2>1. \A k \in K : map[k] = rows[k].payload BY <1>1, ComponentRowFacts
    <2> QED BY <1>1, <1>2, <2>1 DEF OfPage
  <1>9. InSortOrder(t)
    <2>1. \A r \in R : r.payload.sort_order = r.sort_order BY <1>1, <1>2
    <2> QED BY <1>6, <1>7, <2>1 DEF InSortOrder, PayloadsOf
  <1> QED BY <1>6, <1>7, <1>8, <1>9

\* Page components: a reorder changes the column, and the list differs from then on.
LEMMA ComponentStep ==
    ASSUME StorageInv, ComponentCalls
    PROVE  Memory!ComponentCalls \/ Differs
  <1> DOMAIN duck = Tables BY DEF StorageInv, RowsAgree
  <1>1. PICK rows, map : rows = duck.components /\ map = Maps.components OBVIOUS
  <1>2. map = [k \in DOMAIN rows |-> bound(rows[k])] BY <1>1, ComponentMap DEF Maps, Tables
  <1>3. ComponentRows(rows) BY <1>1 DEF StorageInv, RowsAgree
  <1>4. ASSUME NEW p \in Ids, list_status_page_components(p)
        PROVE  Memory!list_status_page_components(p) \/ Differs
    <2>1. CASE \A k \in DOMAIN rows : rows[k].sort_order = rows[k].payload.sort_order
      <3>1. PICK R : R = OfPage(rows, p) OBVIOUS
      <3>2. SELECT_ORDERED(Payloads(Ascending(R, LAMBDA r : r.sort_order)))
        BY <1>1, <1>4, <3>1 DEF list_status_page_components, OfPage
      <3>3. PICK s \in SetToSeqs(R) : Answer({Ok(PayloadsOf(s))}) /\ InSortOrder(s)
        BY <3>2 DEF SELECT_ORDERED, Answer, Payloads, Ascending, PayloadsOf, InSortOrder
      <3>4. s \in SetToSeqs(OfPage(rows, p)) /\ Answer({Ok(PayloadsOf(s))}) /\ InSortOrder(s)
        BY <3>1, <3>3
      <3>5. PICK t : t = PayloadsOf(s) OBVIOUS
      <3>6. t \in SetToSeqs(OfPage(map, p)) /\ InSortOrder(t)
        BY <1>2, <1>3, <2>1, <3>4, <3>5, ComponentOrder
      <3>7. Memory!Answer({Ok(t)}) BY <3>4, <3>5, AnswerHeld
      <3> QED
        BY <1>1, <1>4, <3>6, <3>7, SameLibrary, SameResults
        DEF list_status_page_components, Memory!list_status_page_components, Memory!Answer,
            Memory!Lists, Memory!Ascending, InSortOrder, OfPage
    <2>2. CASE \E k \in DOMAIN rows : rows[k].sort_order # rows[k].payload.sort_order
      <3>1. \E r \in Range(duck.components) : r.sort_order # r.payload.sort_order
        BY <1>1, <2>2 DEF Range
      <3>2. UNCHANGED <<duck, clock>> /\ call'[1] = "list_status_page_components"
        BY <1>4 DEF list_status_page_components, SELECT_ORDERED, Answer
      <3> QED BY <3>1, <3>2 DEF Differs, ReadDiffers, ColumnNotPayload
    <2> QED BY <2>1, <2>2
  <1>5. ASSUME NEW p \in Ids, NEW t \in Ids, delete_status_page_component(p, t)
        PROVE  Memory!delete_status_page_component(p, t)
    <2>1. PICK k : k = <<p, t>> OBVIOUS
    <2>2. Write("components", Restrict(duck.components, DOMAIN duck.components \ {k}), Ok(None))
      BY <1>5, <2>1 DEF delete_status_page_component, DELETE_KEY
    <2>3. Memory!Write("components", Restrict(Maps.components, DOMAIN Maps.components \ {k}), Ok(None))
      BY <2>2, DropComponent
    <2> QED
      BY <1>5, <2>1, <2>3, SameResults, SameLibrary
      DEF delete_status_page_component, Memory!delete_status_page_component, Memory!RemoveIfThere
  <1>6. ASSUME NEW p \in Ids, NEW t \in Ids, NEW order \in {0, 1},
               set_status_page_component(p, t, order)
        PROVE  Memory!set_status_page_component(p, t, order)
    <2>1. PICK k : k = <<p, t>> OBVIOUS
    <2>2. PICK new : new = [target |-> t, sort_order |-> order] OBVIOUS
    <2>3. PICK row : row = [payload |-> new, sort_order |-> order] OBVIOUS
    <2>4. bound(row) = new BY <2>2, <2>3 DEF bound
    <2>5. Write("components", With(duck.components, k, row), Ok(None))
      BY <1>6, <2>1, <2>2, <2>3 DEF set_status_page_component, REPLACE_INTO
    <2>6. Memory!Write("components", With(Maps.components, k, new), Ok(None))
      BY <2>4, <2>5, PutComponent
    <2> QED
      BY <1>6, <2>1, <2>2, <2>6, SameResults
      DEF set_status_page_component, Memory!set_status_page_component, Memory!Upsert
  <1>7. ASSUME NEW p \in Ids, NEW list \in SetToSeqs(Ids), reorder_status_page_components(p, list)
        PROVE  Memory!reorder_status_page_components(p, list)
    <2>1. PICK at : at = [t \in ToSet(list) |-> Max({i \in DOMAIN list : list[i] = t}) - 1] OBVIOUS
    <2>2. PICK new : new = [k \in DOMAIN rows |->
                              IF k[1] = p /\ k[2] \in ToSet(list)
                              THEN [rows[k] EXCEPT !.sort_order = at[k[2]]] ELSE rows[k]] OBVIOUS
    <2>3. Write("components", new, Ok(None))
      <3>1. new = [k \in DOMAIN duck.components |->
                     IF k[1] = p /\ k[2] \in ToSet(list)
                     THEN [duck.components[k] EXCEPT
                             !.sort_order = Max({i \in DOMAIN list : list[i] = k[2]}) - 1]
                     ELSE duck.components[k]]
        BY <1>1, <2>1, <2>2
      <3> QED BY <1>7, <3>1 DEF reorder_status_page_components
    <2>4. Memory!Write("components", AsMap("components", new), Ok(None))
      <3>1. "components" \in Tables BY DEF Tables
      <3> QED BY <2>3, <3>1, PutHeld DEF Write
    <2>5. AsMap("components", new) =
            [k \in DOMAIN map |-> IF k[1] = p /\ k[2] \in ToSet(list)
                                  THEN [map[k] EXCEPT !.sort_order = at[k[2]]] ELSE map[k]]
      <3>1. AsMap("components", new) = [k \in DOMAIN new |-> bound(new[k])] BY ComponentMap
      <3>2. \A k \in DOMAIN rows : \A n :
               bound([rows[k] EXCEPT !.sort_order = n]) = [bound(rows[k]) EXCEPT !.sort_order = n]
        BY <1>3, ComponentRowFacts
      <3>3. DOMAIN new = DOMAIN rows BY <2>2
      <3>4. ASSUME NEW k \in DOMAIN rows
            PROVE  bound(new[k]) = IF k[1] = p /\ k[2] \in ToSet(list)
                                   THEN [map[k] EXCEPT !.sort_order = at[k[2]]] ELSE map[k]
        <4>1. map[k] = bound(rows[k]) BY <1>2
        <4>2. CASE k[1] = p /\ k[2] \in ToSet(list) BY <2>2, <3>2, <4>1, <4>2
        <4>3. CASE ~(k[1] = p /\ k[2] \in ToSet(list)) BY <2>2, <4>1, <4>3
        <4> QED BY <4>2, <4>3
      <3> QED BY <1>2, <3>1, <3>3, <3>4
    <2>6. \A t \in ToSet(list) : at[t] = Memory!Position(list, t)
      BY <2>1, SameLibrary DEF Memory!Position
    <2>7. AsMap("components", new) =
            [k \in DOMAIN Maps.components |->
               IF k[1] = p /\ k[2] \in Memory!ToSet(list)
               THEN [Maps.components[k] EXCEPT !.sort_order = Memory!Position(list, k[2])]
               ELSE Maps.components[k]]
      BY <1>1, <2>5, <2>6, SameLibrary
    <2> QED
      BY <1>7, <2>4, <2>7, SameResults
      DEF reorder_status_page_components, Memory!reorder_status_page_components
  <1> QED BY <1>4, <1>5, <1>6, <1>7, SameLibrary DEF ComponentCalls, Memory!ComponentCalls

----------------------------------------------------------------------------
(* Check results.                                                          *)

\* The results of a target are finite and have different times.
LEMMA ResultRowFacts ==
    ASSUME NEW rows, ResultRows(rows), NEW t,
           NEW R \in SUBSET {r \in Range(rows) : r.target = t}
    PROVE  /\ IsFiniteSet(R)
           /\ \A r \in R : r.ts \in Nat /\ r.status \in Statuses
           /\ \A r, q \in R : r.ts = q.ts => r = q
  <1>1. \A k \in DOMAIN rows : /\ k \in Ids \X Times /\ rows[k].target = k[1] /\ rows[k].ts = k[2]
                               /\ rows[k].status \in Statuses
    BY DEF ResultRows
  <1>2. Times \in SUBSET Nat /\ IsFiniteSet(Times)
    <2>1. MaxClock \in Nat BY StorageAssumption
    <2>2. 0 \in Int /\ MaxClock \in Int BY <2>1
    <2> QED BY <2>1, <2>2, FS_Interval DEF Times
  <1>3. \A r \in R : \E k \in DOMAIN rows : r = rows[k] /\ r.target = t BY DEF Range
  <1>4. \A r, q \in R : r.ts = q.ts => r = q
    <2> SUFFICES ASSUME NEW r \in R, NEW q \in R, r.ts = q.ts PROVE r = q OBVIOUS
    <2>1. PICK k \in DOMAIN rows : r = rows[k] /\ r.target = t BY <1>3
    <2>2. PICK m \in DOMAIN rows : q = rows[m] /\ q.target = t BY <1>3
    <2>3. k[1] = m[1] /\ k[2] = m[2] /\ k \in Ids \X Times /\ m \in Ids \X Times BY <1>1, <2>1, <2>2
    <2>4. k = m BY <2>3
    <2> QED BY <2>1, <2>2, <2>4
  <1>5. \A r \in R : r.ts \in Times BY <1>1, <1>3
  <1>6. IsFiniteSet(R)
    <2>1. PICK f : f = [r \in R |-> r.ts] OBVIOUS
    <2>2. f \in Injection(R, Times) BY <1>4, <1>5, <2>1 DEF Injection, IsInjective
    <2> QED BY <1>2, <2>2, FS_Injection
  <1> QED BY <1>1, <1>2, <1>3, <1>4, <1>5, <1>6

\* A set of results with different times can be listed newest first: each at
\* the place that counts the newer ones.
Newer(R, r) == {o \in R : o.ts > r.ts}
NewestFirst(s) == \A i, j \in DOMAIN s : i < j => s[j].ts <= s[i].ts

LEMMA NewestFirstExists ==
    ASSUME NEW R, IsFiniteSet(R), \A r \in R : r.ts \in Nat,
           \A r, q \in R : r.ts = q.ts => r = q
    PROVE  \E s \in SetToSeqs(R) : NewestFirst(s)
  <1>1. PICK n : n = Cardinality(R) OBVIOUS
  <1>2. n \in Nat BY <1>1, FS_CardinalityType
  <1>3. PICK rank : rank = [r \in R |-> Cardinality(Newer(R, r)) + 1] OBVIOUS
  <1>4. ASSUME NEW r \in R
        PROVE  /\ IsFiniteSet(Newer(R, r)) /\ Cardinality(Newer(R, r)) \in Nat
               /\ rank[r] \in 1..n
    <2>1. PICK N : N = Newer(R, r) OBVIOUS
    <2>2. N \in SUBSET (R \ {r}) BY <2>1 DEF Newer
    <2>3. IsFiniteSet(R \ {r}) /\ Cardinality(R \ {r}) = n - 1 BY <1>1, FS_RemoveElement
    <2>4. IsFiniteSet(N) /\ Cardinality(N) <= n - 1 BY <2>2, <2>3, FS_Subset
    <2>5. Cardinality(N) \in Nat BY <2>4, FS_CardinalityType
    <2> QED BY <1>2, <1>3, <2>1, <2>4, <2>5
  <1>5. ASSUME NEW r \in R, NEW q \in R, r.ts > q.ts
        PROVE  rank[r] < rank[q]
    <2>1. PICK M, N : M = Newer(R, r) /\ N = Newer(R, q) OBVIOUS
    <2>2. M \in SUBSET N /\ r \in N /\ r \notin M BY <1>5, <2>1 DEF Newer
    <2>3. IsFiniteSet(N) /\ Cardinality(N) \in Nat /\ Cardinality(M) \in Nat BY <1>4, <2>1
    <2>4. Cardinality(M) <= Cardinality(N) /\ Cardinality(M) # Cardinality(N)
      BY <2>2, <2>3, FS_Subset
    <2> QED BY <1>3, <2>1, <2>3, <2>4
  <1>6. \A r, q \in R : rank[r] = rank[q] => r = q
    <2> SUFFICES ASSUME NEW r \in R, NEW q \in R, rank[r] = rank[q] PROVE r.ts = q.ts OBVIOUS
    <2>1. rank[r] \in Int /\ ~(rank[r] < rank[q]) /\ ~(rank[q] < rank[r]) BY <1>4
    <2>2. ~(r.ts > q.ts) /\ ~(q.ts > r.ts) BY <1>5, <2>1
    <2> QED BY <2>2
  <1>7. rank \in Surjection(R, 1..n)
    <2>1. rank \in Injection(R, 1..n) BY <1>3, <1>4, <1>6 DEF Injection, IsInjective
    <2>2. IsFiniteSet(1..n) /\ Cardinality(1..n) = n BY <1>2, FS_Interval
    <2> QED BY <1>1, <2>1, <2>2, FS_Injection
  <1>8. PICK s : s = [i \in 1..n |-> CHOOSE r \in R : rank[r] = i] OBVIOUS
  <1>9. \A i \in 1..n : s[i] \in R /\ rank[s[i]] = i
    <2>1. \A i \in 1..n : \E r \in R : rank[r] = i BY <1>7 DEF Surjection
    <2> QED BY <1>8, <2>1
  <1>10. s \in SetToSeqs(R)
    <2>1. s \in [1..n -> R] BY <1>8, <1>9
    <2>2. \A i, j \in 1..n : i # j => s[i] # s[j] BY <1>9
    <2> QED BY <1>1, <2>1, <2>2 DEF SetToSeqs
  <1>11. NewestFirst(s)
    <2>1. \A i, j \in 1..n : i < j => s[j].ts <= s[i].ts
      <3> SUFFICES ASSUME NEW i \in 1..n, NEW j \in 1..n, i < j PROVE s[j].ts <= s[i].ts OBVIOUS
      <3>1. PICK r \in R, q \in R : r = s[i] /\ q = s[j] BY <1>9
      <3>2. rank[r] = i /\ rank[q] = j BY <1>9, <3>1
      <3>3. ~(q.ts > r.ts) BY <1>5, <3>2
      <3> QED BY <3>1, <3>3
    <2> QED BY <1>8, <2>1 DEF NewestFirst
  <1> QED BY <1>10, <1>11

\* The bound of a LIMIT, and the largest of a set, from their definitions.
LEMMA SmallerOf ==
    ASSUME NEW a \in Nat, NEW b \in Nat
    PROVE  Min({a, b}) = IF a < b THEN a ELSE b
  <1>1. PICK m : m = IF a < b THEN a ELSE b OBVIOUS
  <1>2. m \in {a, b} /\ \A y \in {a, b} : m <= y BY <1>1
  <1>3. \A x \in {a, b} : (\A y \in {a, b} : x <= y) => x = m BY <1>1
  <1> QED BY <1>1, <1>2, <1>3 DEF Min

\* The first `limit' of the rows newest first, in any order, are as many of
\* the newest rows as the limit allows.
LEMMA RankedAreNewest ==
    ASSUME NEW R, IsFiniteSet(R), NEW s \in SetToSeqs(R), NewestFirst(s), NEW limit \in Nat
    PROVE  \A list \in SetToSeqs(ToSet(FirstOf(s, limit))) : ListsNewest(R, limit, list)
  <1> SUFFICES ASSUME NEW list \in SetToSeqs(ToSet(FirstOf(s, limit)))
               PROVE  ListsNewest(R, limit, list)
    OBVIOUS
  <1>1. PICK n : n = Cardinality(R) OBVIOUS
  <1>2. n \in Nat BY <1>1, FS_CardinalityType
  <1>3. s \in [1..n -> R] /\ \A i, j \in 1..n : i # j => s[i] # s[j] BY <1>1 DEF SetToSeqs
  <1>4. Len(s) = n BY <1>2, <1>3
  <1>5. PICK m : m = IF limit < n THEN limit ELSE n OBVIOUS
  <1>6. m \in Nat /\ m <= n /\ \A i \in 1..m : i \in 1..n BY <1>2, <1>5
  <1>7. PICK first : first = FirstOf(s, limit) OBVIOUS
  <1>8. first = [i \in 1..m |-> s[i]]
    <2>1. first = SubSeq(s, 1, m) BY <1>4, <1>5, <1>7 DEF FirstOf
    <2>2. s \in Seq(R) BY <1>2, <1>3
    <2> QED BY <1>2, <1>3, <1>4, <1>6, <2>1, <2>2
  <1>9. PICK Q : Q = {s[i] : i \in 1..m} OBVIOUS
  <1>10. ToSet(first) = Q BY <1>8, <1>9 DEF ToSet
  <1>11. IsFiniteSet(Q) /\ Cardinality(Q) = m
    <2>1. first \in Bijection(1..m, Q)
      BY <1>3, <1>6, <1>8, <1>9 DEF Bijection, Injection, Surjection, IsInjective
    <2>2. IsFiniteSet(1..m) /\ Cardinality(1..m) = m BY <1>6, FS_Interval
    <2>3. ExistsBijection(1..m, Q) BY <2>1 DEF ExistsBijection
    <2> QED BY <2>2, <2>3, FS_Bijection
  <1>12. Len(list) = m /\ ToSet(list) = Q
    <2>1. list \in SetToSeqs(Q) BY <1>7, <1>10
    <2>2. Lists(Q, list) BY <1>11, <2>1, OrderOfSet
    <2> QED BY <1>11, <2>2 DEF Lists
  <1>13. Q \subseteq R BY <1>3, <1>6, <1>9
  <1>14. \A kept \in Q, left \in R \ Q : left.ts <= kept.ts
    <2> SUFFICES ASSUME NEW i \in 1..m, NEW left \in R \ Q PROVE left.ts <= s[i].ts BY <1>9
    <2>1. PICK j \in 1..n : left = s[j]
      <3>1. Lists(R, s) BY OrderOfSet
      <3>2. ToSet(s) = R BY <3>1 DEF Lists
      <3> QED BY <1>3, <3>2 DEF ToSet
    <2>2. j \notin 1..m BY <1>9, <2>1
    <2>3. i < j /\ i \in 1..n BY <1>2, <1>6, <2>2
    <2> QED BY <1>3, <2>1, <2>3 DEF NewestFirst
  <1>15. Min({limit, n}) = m BY <1>2, <1>5, SmallerOf
  <1> QED BY <1>1, <1>11, <1>12, <1>13, <1>14, <1>15 DEF ListsNewest

LEMMA LargestOf ==
    ASSUME NEW S \in SUBSET Int, NEW m \in S, \A y \in S : y <= m
    PROVE  Max(S) = m
  <1>1. \A x \in S : (\A y \in S : x >= y) => x = m OBVIOUS
  <1> QED BY <1>1 DEF Max

\* The rows that are not up are those left when the up rows are taken away.
LEMMA UptimeSame ==
    ASSUME NEW rows, IsFiniteSet(rows)
    PROVE  uptime_row(rows) = Memory!UptimeOf(rows)
  <1>1. PICK Up, Rest : Up = {r \in rows : r.status = "up"} /\ Rest = {r \in rows : r.status # "up"}
    OBVIOUS
  <1>2. Rest = rows \ Up /\ rows \cap Up = Up BY <1>1
  <1>3. Cardinality(rows \ Up) = Cardinality(rows) - Cardinality(rows \cap Up) BY FS_Difference
  <1>4. Cardinality(Rest) = Cardinality(rows) - Cardinality(Up) BY <1>2, <1>3
  <1> QED BY <1>1, <1>4, SameLibrary DEF uptime_row, up_count, Memory!UptimeOf, Memory!Failures

\* The worst check of a day, by rank in SQL and by comparing states in memory.
Rank(status) == CASE status \in {"down", "error"} -> 4
                  [] status = "degraded" -> 3
                  [] status = "up" -> 1
WorstState(states) ==
    IF states = {} THEN "no_data"
    ELSE CHOOSE s \in states : \A o \in states : Memory!day_state_rank(o) <= Memory!day_state_rank(s)

\* Which rank, and which state, the rows of a day lead to.
LEMMA RankCases ==
    /\ Rank("up") = 1 /\ Rank("degraded") = 3 /\ Rank("down") = 4 /\ Rank("error") = 4
    /\ rank_to_day_state(0) = "no_data" /\ rank_to_day_state(1) = "operational"
    /\ rank_to_day_state(3) = "degraded" /\ rank_to_day_state(4) = "major_outage"
  <1>1. /\ "up" \notin {"down", "error"} /\ "up" # "degraded" /\ "degraded" \notin {"down", "error"}
        /\ "degraded" # "up" /\ "down" # "degraded" /\ "down" # "up" /\ "error" # "degraded"
        /\ "error" # "up"
    OBVIOUS
  <1>2. /\ 0 # 4 /\ 0 # 3 /\ 0 # 1 /\ 1 # 4 /\ 1 # 3 /\ 3 # 4 /\ 3 # 1 /\ 4 # 3 /\ 4 # 1 OBVIOUS
  <1>3. Rank("up") = 1 BY <1>1, Zenon DEF Rank
  <1>4. Rank("degraded") = 3 BY <1>1, Zenon DEF Rank
  <1>5. Rank("down") = 4 BY <1>1, Zenon DEF Rank
  <1>6. Rank("error") = 4 BY <1>1, Zenon DEF Rank
  <1>7. rank_to_day_state(0) = "no_data" BY <1>2, Zenon DEF rank_to_day_state
  <1>8. rank_to_day_state(1) = "operational" BY <1>2, Zenon DEF rank_to_day_state
  <1>9. rank_to_day_state(3) = "degraded" BY <1>2, Zenon DEF rank_to_day_state
  <1>10. rank_to_day_state(4) = "major_outage" BY <1>2, Zenon DEF rank_to_day_state
  <1> QED BY <1>3, <1>4, <1>5, <1>6, <1>7, <1>8, <1>9, <1>10

LEMMA StateCases ==
    /\ Memory!check_status_to_day_state("up") = "operational"
    /\ Memory!check_status_to_day_state("degraded") = "degraded"
    /\ Memory!check_status_to_day_state("down") = "major_outage"
    /\ Memory!check_status_to_day_state("error") = "major_outage"
    /\ Memory!day_state_rank("operational") = 0 /\ Memory!day_state_rank("degraded") = 2
    /\ Memory!day_state_rank("major_outage") = 4
  <1>1. /\ "up" # "degraded" /\ "up" \notin {"down", "error"} /\ "degraded" # "up"
        /\ "degraded" \notin {"down", "error"} /\ "down" # "up" /\ "down" # "degraded"
        /\ "error" # "up" /\ "error" # "degraded"
        /\ "operational" # "degraded" /\ "operational" # "major_outage"
        /\ "degraded" # "operational" /\ "degraded" # "major_outage"
        /\ "major_outage" # "operational" /\ "major_outage" # "degraded"
    OBVIOUS
  <1>2. Memory!check_status_to_day_state("up") = "operational"
    BY <1>1, Zenon DEF Memory!check_status_to_day_state
  <1>3. Memory!check_status_to_day_state("degraded") = "degraded"
    BY <1>1, Zenon DEF Memory!check_status_to_day_state
  <1>4. Memory!check_status_to_day_state("down") = "major_outage"
    BY <1>1, Zenon DEF Memory!check_status_to_day_state
  <1>5. Memory!check_status_to_day_state("error") = "major_outage"
    BY <1>1, Zenon DEF Memory!check_status_to_day_state
  <1>6. Memory!day_state_rank("operational") = 0 BY <1>1, Zenon DEF Memory!day_state_rank
  <1>7. Memory!day_state_rank("degraded") = 2 BY <1>1, Zenon DEF Memory!day_state_rank
  <1>8. Memory!day_state_rank("major_outage") = 4 BY <1>1, Zenon DEF Memory!day_state_rank
  <1> QED BY <1>2, <1>3, <1>4, <1>5, <1>6, <1>7, <1>8

LEMMA WorstSame ==
    ASSUME NEW D, \A r \in D : r.status \in Statuses
    PROVE  rank_to_day_state(worst_rank(D))
             = WorstState({Memory!check_status_to_day_state(r.status) : r \in D})
  <1>1. PICK ranks : ranks = {0} \cup {Rank(r.status) : r \in D} OBVIOUS
  <1>2. PICK states : states = {Memory!check_status_to_day_state(r.status) : r \in D} OBVIOUS
  <1>3. worst_rank(D) = Max(ranks) BY <1>1, Zenon DEF worst_rank, Rank
  <1>4. \A r \in D : Rank(r.status) \in {1, 3, 4} BY RankCases DEF Statuses
  <1>5. ranks \in SUBSET Int /\ \A y \in ranks : y <= 4 BY <1>1, <1>4
  <1>6. \A s \in states : s \in {"operational", "degraded", "major_outage"}
    BY <1>2, StateCases DEF Statuses
  <1>7. ASSUME NEW s \in states, \A o \in states : o # s => Memory!day_state_rank(o) < Memory!day_state_rank(s)
        PROVE  WorstState(states) = s
    <2>1. \A o \in states : Memory!day_state_rank(o) \in Int BY <1>6, StateCases
    <2>2. \A o \in states : Memory!day_state_rank(o) <= Memory!day_state_rank(s) BY <1>7, <2>1
    <2>3. \A q \in states : (\A o \in states : Memory!day_state_rank(o) <= Memory!day_state_rank(q)) => q = s
      BY <1>7, <2>1
    <2> QED BY <2>2, <2>3 DEF WorstState
  <1>8. CASE D = {}
    <2>1. ranks = {0} /\ states = {} BY <1>1, <1>2, <1>8
    <2>2. Max(ranks) = 0 BY <2>1, LargestOf
    <2> QED BY <1>2, <1>3, <2>1, <2>2, RankCases DEF WorstState
  <1>9. CASE \E r \in D : r.status \in {"down", "error"}
    <2>1. 4 \in ranks BY <1>1, <1>9, RankCases
    <2>2. Max(ranks) = 4 BY <1>5, <2>1, LargestOf
    <2>3. "major_outage" \in states BY <1>2, <1>9, StateCases
    <2>4. \A o \in states : o # "major_outage"
             => Memory!day_state_rank(o) < Memory!day_state_rank("major_outage")
      BY <1>6, StateCases
    <2>5. WorstState(states) = "major_outage" BY <1>7, <2>3, <2>4
    <2> QED BY <1>2, <1>3, <2>2, <2>5, RankCases
  <1>10. CASE /\ \A r \in D : r.status \notin {"down", "error"}
              /\ \E r \in D : r.status = "degraded"
    <2>1. 3 \in ranks /\ \A y \in ranks : y <= 3 BY <1>1, <1>10, RankCases DEF Statuses
    <2>2. Max(ranks) = 3 BY <1>5, <2>1, LargestOf
    <2>3. "degraded" \in states BY <1>2, <1>10, StateCases
    <2>4. \A s \in states : s \in {"operational", "degraded"}
      BY <1>2, <1>10, StateCases DEF Statuses
    <2>5. \A o \in states : o # "degraded"
             => Memory!day_state_rank(o) < Memory!day_state_rank("degraded")
      BY <2>4, StateCases
    <2>6. WorstState(states) = "degraded" BY <1>7, <2>3, <2>5
    <2> QED BY <1>2, <1>3, <2>2, <2>6, RankCases
  <1>11. CASE D # {} /\ \A r \in D : r.status = "up"
    <2>1. 1 \in ranks /\ \A y \in ranks : y <= 1 BY <1>1, <1>11, RankCases
    <2>2. Max(ranks) = 1 BY <1>5, <2>1, LargestOf
    <2>3. states = {"operational"} BY <1>2, <1>11, StateCases
    <2>4. WorstState(states) = "operational"
      <3>1. \A o \in states : o # "operational"
             => Memory!day_state_rank(o) < Memory!day_state_rank("operational") BY <2>3
      <3> QED BY <1>7, <2>3, <3>1
    <2> QED BY <1>2, <1>3, <2>2, <2>4, RankCases
  <1> QED BY <1>8, <1>9, <1>10, <1>11 DEF Statuses

\* The day strip is the same on both sides.
LEMMA DaysSame ==
    ASSUME NEW rows, \A r \in rows : r.status \in Statuses, NEW from, NEW to
    PROVE  by_day(rows, from, to) = Memory!day_strip(rows, from, to)
  <1>1. ASSUME NEW d
        PROVE  rank_to_day_state(worst_rank({r \in rows : r.ts \div DayTicks = d}))
                 = WorstState({Memory!check_status_to_day_state(r.status) :
                                 r \in {x \in rows : x.ts \div DayTicks = d}})
    <2>1. PICK D : D = {r \in rows : r.ts \div DayTicks = d} OBVIOUS
    <2>2. \A r \in D : r.status \in Statuses BY <2>1
    <2>3. rank_to_day_state(worst_rank(D))
            = WorstState({Memory!check_status_to_day_state(r.status) : r \in D})
      BY <2>2, WorstSame
    <2> QED BY <2>1, <2>3
  <1> QED BY <1>1 DEF by_day, Memory!day_strip, WorstState

----------------------------------------------------------------------------
(* Latency buckets.                                                        *)

Bucket(r, from, n, total) == ((r.ts - from) * n) \div total
BucketIndex(k, n, total) ==
    LET start == (k * total) \div n
        i == (2 * start * n + total) \div (2 * total)
    IN  IF i < n THEN i ELSE n - 1
Buckets(rows, from, n, total) == {Bucket(r, from, n, total) : r \in rows}
KeptBucket(buckets, i, n, total) == Max({-1} \cup {k \in buckets : BucketIndex(k, n, total) = i})

\* Where an integer quotient lies.
LEMMA Quotient ==
    ASSUME NEW a \in Nat, NEW l \in Nat \ {0}, NEW q \in {0, 1}, q * l <= a, a < (q + 1) * l
    PROVE  a \div l = q
  <1>1. PICK d \in Int, m \in Int : d = a \div l /\ m = a % l OBVIOUS
  <1>2. a = d * l + m /\ 0 <= m /\ m < l BY <1>1
  <1>3. CASE q = 0
    <2>1. a < l BY <1>3
    <2>2. ~(d >= 1) BY <1>2, <2>1
    <2>3. ~(d <= -1) BY <1>2
    <2> QED BY <1>1, <1>3, <2>2, <2>3
  <1>4. CASE q = 1
    <2>1. l <= a /\ a < 2 * l BY <1>4
    <2>2. ~(d >= 2) BY <1>2, <2>1
    <2>3. ~(d <= 0) BY <1>2, <2>1
    <2> QED BY <1>1, <1>4, <2>2, <2>3
  <1> QED BY <1>3, <1>4

\* Within the range a check falls into one of the n buckets, and rounding the
\* bucket's start back to an index changes nothing.
LEMMA BucketInRange ==
    ASSUME NEW n \in {1, 2}, NEW total \in Nat \ {0}, NEW d \in Nat, d < total
    PROVE  /\ (d * n) \div total \in 0..(n - 1)
           /\ BucketIndex((d * n) \div total, n, total) = (d * n) \div total
  <1>1. BucketIndex(0, n, total) = 0
    <2>1. (0 * total) \div n = 0 BY Quotient
    <2>2. (2 * 0 * n + total) \div (2 * total) = 0
      <3>1. PICK l : l = 2 * total OBVIOUS
      <3>2. l \in Nat \ {0} /\ 0 * l <= total /\ total < (0 + 1) * l BY <3>1
      <3>3. total \div l = 0 BY <3>2, Quotient
      <3>4. 2 * 0 * n + total = total OBVIOUS
      <3> QED BY <3>1, <3>3, <3>4
    <2> QED BY <2>1, <2>2 DEF BucketIndex
  <1>2. CASE n = 1
    <2>1. d \div total = 0 BY Quotient
    <2>2. d * n = d BY <1>2
    <2> QED BY <1>1, <1>2, <2>1, <2>2
  <1>3. CASE n = 2 /\ 2 * d < total
    <2>1. PICK a \in Nat : a = d * n BY <1>3
    <2>2. 0 * total <= a /\ a < (0 + 1) * total BY <1>3, <2>1
    <2>3. a \div total = 0 BY <2>2, Quotient
    <2> QED BY <1>1, <1>3, <2>1, <2>3
  <1>4. CASE n = 2 /\ 2 * d >= total
    <2>1. PICK a \in Nat : a = d * n BY <1>4
    <2>2. 1 * total <= a /\ a < (1 + 1) * total BY <1>4, <2>1
    <2>3. a \div total = 1 BY <2>2, Quotient
    <2>4. total >= 2 BY <1>4
    <2>5. PICK h \in Int : h = (1 * total) \div n BY <1>4
    <2>6. 2 * h <= total /\ total <= 2 * h + 1
      <3>1. h = total \div 2 BY <1>4, <2>5
      <3> QED BY <3>1
    <2>7. PICK b : b = 2 * h * n + total OBVIOUS
    <2>8. b = 4 * h + total BY <1>4, <2>7
    <2>9. PICK l : l = 2 * total OBVIOUS
    <2>10. b \in Nat /\ l \in Nat \ {0} /\ 1 * l <= b /\ b < (1 + 1) * l
      BY <2>4, <2>6, <2>8, <2>9
    <2>11. b \div l = 1 BY <2>10, Quotient
    <2>12. BucketIndex(1, n, total) = 1 BY <1>4, <2>5, <2>7, <2>9, <2>11 DEF BucketIndex
    <2> QED BY <1>4, <2>1, <2>3, <2>12
  <1> QED BY <1>2, <1>3, <1>4

\* Every bucket is kept, under the index it is counted at in memory.
LEMMA KeptSame ==
    ASSUME NEW n \in {1, 2}, NEW total, NEW buckets \in SUBSET (0..(n - 1)),
           \A k \in buckets : BucketIndex(k, n, total) = k, NEW i \in 0..(n - 1)
    PROVE  \A k \in buckets : k = KeptBucket(buckets, i, n, total) <=> k = i
  <1>1. PICK S : S = {-1} \cup {k \in buckets : BucketIndex(k, n, total) = i} OBVIOUS
  <1>2. S \in SUBSET Int
    <2>1. \A k \in buckets : k \in Int OBVIOUS
    <2>2. -1 \in Int OBVIOUS
    <2>3. \A k \in S : k \in Int BY <1>1, <2>1, <2>2
    <2> QED BY <2>3
  <1>3. KeptBucket(buckets, i, n, total) = Max(S) BY <1>1 DEF KeptBucket
  <1>4. CASE i \in buckets
    <2>1. i \in S /\ \A y \in S : y <= i BY <1>1, <1>4
    <2>2. Max(S) = i BY <1>2, <2>1, LargestOf
    <2> QED BY <1>3, <2>2
  <1>5. CASE i \notin buckets
    <2>1. S = {-1} BY <1>1, <1>5
    <2>2. Max(S) = -1 BY <2>1, LargestOf
    <2> QED BY <1>3, <1>5, <2>2
  <1> QED BY <1>4, <1>5

\* How many checks a bucket counts, in SQL and in memory.
SqlCounts(rows, from, n, total) ==
    [i \in 0..(n - 1) |->
       Cardinality({r \in rows : Bucket(r, from, n, total)
                                   = KeptBucket(Buckets(rows, from, n, total), i, n, total)})]
MemoryCounts(rows, from, n, total) ==
    [i \in 0..(n - 1) |->
       Cardinality({r \in rows : (IF Bucket(r, from, n, total) < n
                                  THEN Bucket(r, from, n, total) ELSE n - 1) = i})]

LEMMA BucketsSame ==
    ASSUME NEW n \in {1, 2}, NEW from \in Nat, NEW to \in Nat, NEW rows,
           \A r \in rows : r.ts \in Nat /\ from <= r.ts /\ r.ts < to,
           NEW total, total = IF to - from > 1 THEN to - from ELSE 1
    PROVE  SqlCounts(rows, from, n, total) = MemoryCounts(rows, from, n, total)
  <1>1. total \in Nat \ {0} OBVIOUS
  <1>2. ASSUME NEW r \in rows
        PROVE  /\ Bucket(r, from, n, total) \in 0..(n - 1)
               /\ BucketIndex(Bucket(r, from, n, total), n, total) = Bucket(r, from, n, total)
    <2>1. PICK d : d = r.ts - from OBVIOUS
    <2>2. d \in Nat /\ d < total BY <2>1
    <2>3. PICK b : b = (d * n) \div total OBVIOUS
    <2>4. b \in 0..(n - 1) /\ BucketIndex(b, n, total) = b BY <1>1, <2>2, <2>3, BucketInRange
    <2>5. Bucket(r, from, n, total) = b BY <2>1, <2>3 DEF Bucket
    <2> QED BY <2>4, <2>5
  <1>3. PICK buckets : buckets = Buckets(rows, from, n, total) OBVIOUS
  <1>4. buckets \in SUBSET (0..(n - 1)) /\ \A k \in buckets : BucketIndex(k, n, total) = k
    BY <1>2, <1>3 DEF Buckets
  <1>5. \A r \in rows : Bucket(r, from, n, total) \in buckets BY <1>3 DEF Buckets
  <1>6. ASSUME NEW i \in 0..(n - 1)
        PROVE  {r \in rows : Bucket(r, from, n, total) = KeptBucket(buckets, i, n, total)}
                 = {r \in rows : (IF Bucket(r, from, n, total) < n
                                  THEN Bucket(r, from, n, total) ELSE n - 1) = i}
    <2>1. \A k \in buckets : k = KeptBucket(buckets, i, n, total) <=> k = i BY <1>4, KeptSame
    <2>2. \A r \in rows : Bucket(r, from, n, total) < n
      <3>1. \A k \in 0..(n - 1) : k < n OBVIOUS
      <3> QED BY <1>2, <3>1
    <2> QED BY <1>5, <2>1, <2>2
  <1> QED BY <1>3, <1>6, Zenon DEF SqlCounts, MemoryCounts

\* The results of a target, a range and the newest are the same on both sides.
LEMMA ResultsHeld ==
    /\ Maps.results = duck.results
    /\ \A t : Memory!ResultsOf(t) = ResultsOf(t)
    /\ \A t, from, to : Memory!Between(t, from, to) = Between(t, from, to)
    /\ \A t : Memory!LatestOf(t) = latest_map(t)
    /\ Memory!StripStart = ninety_days_ago
  <1>1. Maps.results = duck.results
    <2>1. "results" \in Plain BY DEF Plain
    <2> QED BY <2>1, PlainHeld
  <1>2. \A t : Memory!ResultsOf(t) = ResultsOf(t)
    BY <1>1, SameLibrary DEF ResultsOf, Memory!ResultsOf, Where, Memory!Where
  <1>3. \A t, from, to : Memory!Between(t, from, to) = Between(t, from, to)
    BY <1>2 DEF Between, Memory!Between
  <1>4. \A t : Memory!LatestOf(t) = latest_map(t)
    <2> SUFFICES ASSUME NEW t PROVE Memory!LatestOf(t) = latest_map(t) OBVIOUS
    <2>1. PICK R : R = ResultsOf(t) OBVIOUS
    <2>2. latest_map(t) = IF R = {} THEN None ELSE CHOOSE r \in R : \A o \in R : o.ts <= r.ts
      BY <2>1 DEF latest_map
    <2>3. Memory!ResultsOf(t) = R BY <1>2, <2>1
    <2> QED BY <2>2, <2>3 DEF Memory!LatestOf
  <1>5. Memory!StripStart = ninety_days_ago BY DEF Memory!StripStart, ninety_days_ago
  <1> QED BY <1>1, <1>2, <1>3, <1>4, <1>5

\* What the invariant says of the results of a target.
LEMMA ResultsOfTarget ==
    ASSUME StorageInv, NEW t, NEW R \in SUBSET ResultsOf(t)
    PROVE  /\ IsFiniteSet(R)
           /\ \A r \in R : r.ts \in Nat /\ r.status \in Statuses /\ r.ts <= clock
           /\ \A r, q \in R : r.ts = q.ts => r = q
  <1>1. PICK rows : rows = duck.results OBVIOUS
  <1>2. ResultRows(rows) /\ ResultsPast(rows, clock) BY <1>1 DEF StorageInv, RowsAgree
  <1>3. R \in SUBSET {r \in Range(rows) : r.target = t} BY <1>1 DEF ResultsOf, Where
  <1>4. \A r \in Range(rows) : r.ts <= clock
    <2>1. \A k \in DOMAIN rows : rows[k].ts = k[2] BY <1>2 DEF ResultRows
    <2> QED BY <1>2, <2>1 DEF ResultsPast, Range
  <1> QED BY <1>2, <1>3, <1>4, ResultRowFacts

\* The engine may return the newest results in any order; they are the newest.
LEMMA RecentResultsDiffer ==
    ASSUME StorageInv, NEW ts, NEW n \in {1, 2}, recent_results_for_targets(ts, n)
    PROVE  Differs
  <1>1. PICK g : /\ reply' = Ok(g) /\ \A t \in ts : g[t] \in SetToSeqs(Ranked(t, n))
                 /\ UNCHANGED <<duck, clock>>
    BY DEF recent_results_for_targets, Answer
  <1>2. ASSUME NEW t \in ts PROVE ListsNewest(ResultsOf(t), n, g[t])
    <2>1. PICK R : R = ResultsOf(t) OBVIOUS
    <2>2. /\ IsFiniteSet(R) /\ \A r \in R : r.ts \in Nat
          /\ \A r, q \in R : r.ts = q.ts => r = q
      BY <2>1, ResultsOfTarget
    <2>3. PICK orders : orders = Ascending(R, timestamp_desc) OBVIOUS
    <2>4. \A s : s \in orders <=> s \in SetToSeqs(R) /\ NewestFirst(s)
      <3>1. ASSUME NEW s \in SetToSeqs(R)
            PROVE  (\A i, j \in DOMAIN s : i < j => -s[i].ts <= -s[j].ts) <=> NewestFirst(s)
        <4>1. \A i \in DOMAIN s : s[i].ts \in Int BY <2>2 DEF SetToSeqs
        <4> QED BY <4>1 DEF NewestFirst
      <3> QED BY <2>3, <3>1 DEF Ascending, timestamp_desc
    <2>5. \E s : s \in orders BY <2>2, <2>4, NewestFirstExists
    <2>6. PICK s : s = CHOOSE x \in orders : TRUE OBVIOUS
    <2>7. s \in SetToSeqs(R) /\ NewestFirst(s) BY <2>4, <2>5, <2>6
    <2>8. g[t] \in SetToSeqs(ToSet(FirstOf(s, n)))
      BY <1>1, <2>1, <2>3, <2>6, Zenon DEF Ranked
    <2>9. n \in Nat OBVIOUS
    <2> QED BY <2>1, <2>2, <2>7, <2>8, <2>9, RankedAreNewest
  <1>3. /\ call'[1] = "recent_results_for_targets" /\ call'[2] = ts /\ call'[3] = n
    BY DEF recent_results_for_targets
  <1>4. reply'[1] = "ok" /\ reply'[2] = g BY <1>1 DEF Ok
  <1> QED BY <1>1, <1>2, <1>3, <1>4 DEF Differs, ReadDiffers, OrderDiffers

\* The queries over check results, one by one.
LEMMA UptimeStep ==
    ASSUME StorageInv, NEW t, NEW from, NEW to, uptime(t, from, to)
    PROVE  Memory!uptime(t, from, to)
  <1>1. PICK rows : rows = Between(t, from, to) OBVIOUS
  <1>2. rows \in SUBSET ResultsOf(t) BY <1>1 DEF Between
  <1>3. uptime_row(rows) = Memory!UptimeOf(rows) BY <1>2, ResultsOfTarget, UptimeSame
  <1>4. Memory!Read(Ok(uptime_row(rows))) BY <1>1, ReadHeld DEF uptime
  <1> QED BY <1>1, <1>3, <1>4, ResultsHeld, SameResults, Zenon DEF uptime, Memory!uptime

LEMMA DayHistoryStep ==
    ASSUME StorageInv, NEW t, NEW from, NEW to, component_day_history(t, from, to)
    PROVE  Memory!component_day_history(t, from, to)
  <1>1. PICK rows : rows = Between(t, from, to) OBVIOUS
  <1>2. rows \in SUBSET ResultsOf(t) BY <1>1 DEF Between
  <1>3. by_day(rows, from, to) = Memory!day_strip(rows, from, to)
    BY <1>2, ResultsOfTarget, DaysSame
  <1>4. Memory!Read(Ok(by_day(rows, from, to))) BY <1>1, ReadHeld DEF component_day_history
  <1> QED
    BY <1>1, <1>3, <1>4, ResultsHeld, SameResults, Zenon
    DEF component_day_history, Memory!component_day_history

LEMMA LatencyStep ==
    ASSUME StorageInv, NEW t, NEW from \in Nat, NEW to \in Nat, NEW n \in {1, 2},
           latency_buckets(t, from, to, n)
    PROVE  Memory!latency_buckets(t, from, to, n) \/ Differs
  <1>1. CASE \E r \in ResultsOf(t) : r.ts = to
    <2>1. call'[1] = "latency_buckets" /\ call'[2] = t /\ call'[4] = to /\ UNCHANGED <<duck, clock>>
      BY DEF latency_buckets, Read, Answer
    <2> QED BY <1>1, <2>1 DEF Differs, ReadDiffers, LastBucket
  <1>2. CASE \A r \in ResultsOf(t) : r.ts # to
    <2>1. PICK rows : rows = Between(t, from, to) OBVIOUS
    <2>2. rows \in SUBSET ResultsOf(t) BY <2>1 DEF Between
    <2>3. \A r \in rows : r.ts \in Nat BY <2>2, ResultsOfTarget
    <2>4. \A r \in rows : r.ts \in Nat /\ from <= r.ts /\ r.ts < to
      BY <1>2, <2>1, <2>2, <2>3 DEF Between
    <2>5. PICK total : total = IF to - from > 1 THEN to - from ELSE 1 OBVIOUS
    <2>6. PICK counts : counts = SqlCounts(rows, from, n, total) OBVIOUS
    <2>7. counts = MemoryCounts(rows, from, n, total) BY <2>4, <2>5, <2>6, BucketsSame
    <2>8. Read(Ok(counts))
      <3>1. Read(Ok(SqlCounts(Between(t, from, to), from, n, IF to - from > 1 THEN to - from ELSE 1)))
        BY Zenon DEF latency_buckets, SqlCounts, KeptBucket, Buckets, BucketIndex, Bucket
      <3> QED BY <2>1, <2>5, <2>6, <3>1
    <2>9. Memory!Read(Ok(counts)) BY <2>8, ReadHeld
    <2>10. call' = <<"latency_buckets", t, from, to, n>> BY DEF latency_buckets
    <2> QED
      BY <2>1, <2>5, <2>7, <2>9, <2>10, ResultsHeld, SameResults, SameLibrary, Zenon
      DEF Memory!latency_buckets, MemoryCounts, Bucket
  <1> QED BY <1>1, <1>2

LEMMA RollupStep ==
    ASSUME StorageInv, dashboard_rollup
    PROVE  Memory!dashboard_rollup
  <1>1. "targets" \in WithPayload BY DEF WithPayload
  <1>2. /\ DOMAIN Maps.targets = DOMAIN duck.targets
        /\ \A k \in DOMAIN duck.targets : Maps.targets[k] = duck.targets[k].payload
    BY <1>1, PayloadHeld
  <1>3. ASSUME NEW t
        PROVE  /\ uptime_row({r \in ResultsOf(t) : r.ts >= clock - DayTicks})
                    = Memory!UptimeOf({r \in ResultsOf(t) : r.ts >= clock - DayTicks})
               /\ by_day(Between(t, ninety_days_ago, clock), ninety_days_ago, clock)
                    = Memory!day_strip({r \in ResultsOf(t) : r.ts >= ninety_days_ago},
                                       ninety_days_ago, clock)
    <2>1. PICK D : D = {r \in ResultsOf(t) : r.ts >= clock - DayTicks} OBVIOUS
    <2>2. D \in SUBSET ResultsOf(t) BY <2>1
    <2>3. uptime_row(D) = Memory!UptimeOf(D) BY <2>2, ResultsOfTarget, UptimeSame
    <2>4. PICK from : from = ninety_days_ago OBVIOUS
    <2>5. PICK B : B = Between(t, from, clock) OBVIOUS
    <2>6. B \in SUBSET ResultsOf(t) BY <2>5 DEF Between
    <2>7. \A r \in ResultsOf(t) : r.ts \in Nat /\ r.ts <= clock BY ResultsOfTarget
    <2>8. B = {r \in ResultsOf(t) : r.ts >= from}
      <3>1. from \in Int
        <4>1. clock \in Nat /\ StripDays \in Nat /\ DayTicks \in Nat /\ MaxClock \in Nat
          BY StorageAssumption DEF StorageInv, Times
        <4>2. PICK strip \in Nat : strip = StripDays * DayTicks BY <4>1
        <4> QED BY <2>4, <4>1, <4>2 DEF ninety_days_ago
      <3> QED BY <2>5, <2>7, <3>1 DEF Between
    <2>9. PICK now : now = clock OBVIOUS
    <2>10. by_day(B, from, now) = Memory!day_strip(B, from, now)
      BY <2>6, ResultsOfTarget, DaysSame
    <2> QED BY <2>1, <2>3, <2>4, <2>5, <2>8, <2>9, <2>10
  <1>4. PICK rows : rows = [t \in DOMAIN duck.targets |->
          [enabled |-> duck.targets[t].payload.enabled,
           latest  |-> latest_map(t),
           day     |-> uptime_row({r \in ResultsOf(t) : r.ts >= clock - DayTicks}),
           history |-> by_day(Between(t, ninety_days_ago, clock), ninety_days_ago, clock)]]
    OBVIOUS
  <1>5. rows = [t \in DOMAIN Maps.targets |->
          [enabled |-> Maps.targets[t].enabled,
           latest  |-> Memory!LatestOf(t),
           day     |-> Memory!UptimeOf({r \in Memory!ResultsOf(t) : r.ts >= clock - DayTicks}),
           history |-> Memory!day_strip({r \in Memory!ResultsOf(t) : r.ts >= Memory!StripStart},
                                        Memory!StripStart, clock)]]
    BY <1>2, <1>3, <1>4, ResultsHeld
  <1>6. Memory!Read(Ok(rows)) BY <1>4, ReadHeld DEF dashboard_rollup
  <1> QED BY <1>5, <1>6, SameResults DEF dashboard_rollup, Memory!dashboard_rollup

LEMMA SummaryStep ==
    ASSUME StorageInv, NEW c \in Clients, dashboard_summary_finish(c)
    PROVE  Memory!dashboard_summary \/ Differs
  <1>1. CASE ~IsCurrent(c)
    BY <1>1, StaleDiffers DEF dashboard_summary_finish, Resumes, Finish
  <1>2. CASE IsCurrent(c)
    <2>1. inflight[c] # None /\ inflight[c].call[1] = "dashboard_summary"
      BY DEF dashboard_summary_finish, Resumes
    <2>2. inflight[c].call = <<"dashboard_summary">>
      BY <2>1 DEF StorageInv, CallsAgree, Pending
    <2>3. PICK targets : targets = inflight[c].row OBVIOUS
    <2>4. targets = Maps.targets BY <1>2, <2>2, <2>3 DEF IsCurrent
    <2>5. PICK answer :
            answer = [counts   |-> [s \in Statuses |->
                                      Cardinality({t \in DOMAIN targets : /\ targets[t].enabled
                                                                         /\ latest_map(t) # None
                                                                         /\ latest_map(t).status = s})],
                      disabled |-> Cardinality({t \in DOMAIN targets : ~targets[t].enabled}),
                      total    |-> Cardinality(DOMAIN targets)]
      OBVIOUS
    <2>6. Finish(c, "targets", duck.targets, Ok(answer))
      BY <2>3, <2>5 DEF dashboard_summary_finish
    <2>7. answer = Memory!Tally(targets,
                     LAMBDA t : IF Memory!LatestOf(t) = None THEN None ELSE Memory!LatestOf(t).status)
      <3>1. ASSUME NEW s \in Statuses
            PROVE  {t \in DOMAIN targets : /\ targets[t].enabled
                                           /\ latest_map(t) # None /\ latest_map(t).status = s}
                     = {t \in DOMAIN targets :
                          /\ targets[t].enabled
                          /\ (IF Memory!LatestOf(t) = None THEN None ELSE Memory!LatestOf(t).status) = s}
        <4>1. s # None BY StorageAssumption DEF Statuses
        <4> QED BY <4>1, ResultsHeld
      <3> QED BY <2>5, <3>1, SameLibrary, SameSets DEF Memory!Tally
    <2>8. /\ call' = <<"dashboard_summary">> /\ reply' = Ok(answer) /\ UNCHANGED clock
          /\ duck' = [duck EXCEPT !.targets = duck.targets]
      BY <2>2, <2>6 DEF Finish, Put
    <2>9. UNCHANGED Maps
      <3>1. \A t \in Tables : duck'[t] = duck[t] BY <2>8 DEF StorageInv, RowsAgree
      <3> QED BY <3>1 DEF Maps
    <2>10. Memory!Read(Ok(answer)) BY <2>8, <2>9 DEF Memory!Read, Memory!Answer
    <2> QED BY <2>4, <2>7, <2>8, <2>10, SameResults, Zenon DEF Memory!dashboard_summary
  <1> QED BY <1>1, <1>2

\* Check results: all the calls over them.
LEMMA ResultStep ==
    ASSUME StorageInv, ResultCalls
    PROVE  Memory!ResultCalls \/ Memory!TargetCalls \/ Differs \/ UNCHANGED refined
  <1> DOMAIN duck = Tables BY DEF StorageInv, RowsAgree
  <1>1. "results" \in Plain BY DEF Plain
  <1>2. Maps.results = duck.results BY <1>1, PlainHeld
  <1>3. clock \in Nat /\ Times \in SUBSET Nat /\ 0..clock \in SUBSET Times
    BY StorageAssumption DEF StorageInv, Times
  <1>4. ASSUME NEW t \in Ids, NEW ts \in Times, NEW s \in Statuses, record_result(t, ts, s)
        PROVE  Memory!record_result(t, ts, s)
    BY <1>4, <1>1, <1>2, PlainWriteHeld, SameResults
    DEF record_result, REPLACE_INTO, Memory!record_result, Memory!Upsert
  <1>5. ASSUME NEW n \in {1, 2}, list_recent_results(n)
        PROVE  Memory!list_recent_results(n)
    BY <1>5, <1>1, <1>2, AnswerHeld, SameLibrary, SameResults, SameRules
    DEF list_recent_results, Ascending, SELECT_ORDERED, timestamp_desc,
        Memory!list_recent_results, Memory!Ascending, Memory!newest_first
  <1>6. ASSUME NEW t \in Ids, NEW n \in {1, 2}, list_results(t, n)
        PROVE  Memory!list_results(t, n)
    BY <1>6, <1>1, <1>2, AnswerHeld, SameLibrary, SameResults, SameRules
    DEF list_results, Ascending, ResultsOf, SELECT_ORDERED, timestamp_desc, Where,
        Memory!list_results, Memory!Ascending, Memory!ResultsOf, Memory!newest_first,
        Memory!Where
  <1>7. ASSUME NEW before \in Times, delete_old_check_results(before)
        PROVE  Memory!delete_old_check_results(before)
    BY <1>7, <1>1, <1>2, PlainWriteHeld, SameLibrary, SameResults
    DEF delete_old_check_results, DELETE_COUNT, Where, Without, RestrictValues,
        Memory!delete_old_check_results, Memory!Purge, Memory!Where, Memory!Without,
        Memory!RestrictValues
  <1>8. ASSUME NEW t \in Ids, NEW on \in BOOLEAN, update_target(t, on) PROVE Memory!TargetCalls
    <2>1. TargetCalls BY <1>8 DEF TargetCalls
    <2> QED BY <2>1, TargetStep
  <1>9. ASSUME NEW ts \in SUBSET Ids, NEW n \in {1, 2}, recent_results_for_targets(ts, n)
        PROVE  Differs
    BY <1>9, RecentResultsDiffer
  <1>10. ASSUME NEW t \in Ids, NEW to \in Times, NEW from \in 0..to, uptime(t, from, to)
         PROVE  Memory!uptime(t, from, to)
    BY <1>10, UptimeStep
  <1>11. ASSUME NEW t \in Ids, NEW to \in Times, NEW from \in 0..to,
                component_day_history(t, from, to)
         PROVE  Memory!component_day_history(t, from, to)
    BY <1>11, DayHistoryStep
  <1>12. ASSUME NEW t \in Ids, NEW to \in Times, NEW from \in 0..to, NEW n \in {1, 2},
                latency_buckets(t, from, to, n)
         PROVE  Memory!latency_buckets(t, from, to, n) \/ Differs
    <2>1. from \in Nat /\ to \in Nat BY <1>3
    <2> QED BY <1>12, <2>1, LatencyStep
  <1>13. ASSUME NEW c \in Clients, dashboard_summary_begin(c)
         PROVE  UNCHANGED refined
    BY <1>13 DEF dashboard_summary_begin, Begin, refined
  <1>14. CASE \E t \in Ids, ts \in 0..clock, s \in Statuses :
                /\ Cardinality(DOMAIN duck.results \cup {<<t, ts>>}) <= MaxResults
                /\ record_result(t, ts, s)
    <2>1. PICK t \in Ids, ts \in 0..clock, s \in Statuses : record_result(t, ts, s) BY <1>14
    <2>2. ts \in Times BY <1>3
    <2>3. Memory!record_result(t, ts, s) BY <1>4, <2>1, <2>2
    <2> QED BY <2>2, <2>3, SameSets DEF Memory!ResultCalls
  <1>15. CASE \/ \E n \in {1, 2} : list_recent_results(n) \/ \E t \in Ids : list_results(t, n)
              \/ \E before \in Times : delete_old_check_results(before)
    BY <1>5, <1>6, <1>7, <1>15, SameSets DEF Memory!ResultCalls
  <1>16. CASE \E t \in Ids, to \in Times : \E from \in 0..to :
                \/ uptime(t, from, to) \/ component_day_history(t, from, to)
                \/ \E n \in {1, 2} : latency_buckets(t, from, to, n)
    BY <1>10, <1>11, <1>12, <1>16, SameSets DEF Memory!ResultCalls
  <1>17. CASE dashboard_rollup \/ \E c \in Clients : dashboard_summary_begin(c)
                                                      \/ dashboard_summary_finish(c)
    BY <1>13, <1>17, RollupStep, SummaryStep DEF Memory!ResultCalls
  <1> QED BY <1>8, <1>9, <1>14, <1>15, <1>16, <1>17 DEF ResultCalls

----------------------------------------------------------------------------
(* The refinement.                                                         *)

\* The clock moves for both.
LEMMA TimeStep ==
    ASSUME TimePasses
    PROVE  Memory!TimePasses
  <1>1. UNCHANGED Maps BY DEF TimePasses, Maps
  <1> QED BY <1>1 DEF TimePasses, Memory!TimePasses

\* Every step is a call of the in-memory backend, a listed difference, or the
\* first half of a call.
LEMMA StepMirrored ==
    ASSUME StorageInv, DuckNext
    PROVE  Memory!MemNext \/ Differs \/ UNCHANGED refined
  <1>1. DOMAIN duck = Tables BY DEF StorageInv, RowsAgree
  <1>2. CASE TargetCalls BY <1>2, TargetStep DEF Memory!MemNext
  <1>3. CASE BeatCalls BY <1>1, <1>3, BeatStep DEF Memory!MemNext
  <1>4. CASE ResultCalls BY <1>4, ResultStep DEF Memory!MemNext
  <1>5. CASE IncidentCalls BY <1>5, IncidentStep DEF Memory!MemNext
  <1>6. CASE NoteCalls BY <1>6, NoteStep DEF Memory!MemNext
  <1>7. CASE PageCalls BY <1>7, PageStep DEF Memory!MemNext
  <1>8. CASE ComponentCalls BY <1>8, ComponentStep DEF Memory!MemNext
  <1>9. CASE AssetCalls BY <1>1, <1>9, AssetStep DEF Memory!MemNext
  <1>10. CASE WindowCalls BY <1>10, WindowStep DEF Memory!MemNext
  <1>11. CASE SilenceCalls BY <1>11, SilenceStep DEF Memory!MemNext
  <1>12. CASE SubscriberCalls BY <1>1, <1>12, SubscriberStep DEF Memory!MemNext
  <1>13. CASE DeliveryCalls BY <1>1, <1>13, DeliveryStep DEF Memory!MemNext
  <1>14. CASE VariableCalls BY <1>14, VariableStep DEF Memory!MemNext
  <1>15. CASE ChannelCalls BY <1>15, ChannelStep DEF Memory!MemNext
  <1>16. CASE BindingCalls BY <1>16, BindingStep DEF Memory!MemNext
  <1>17. CASE TokenCalls BY <1>1, <1>17, TokenStep DEF Memory!MemNext
  <1>18. CASE UserCalls BY <1>18, UserStep DEF Memory!MemNext
  <1>19. CASE SessionCalls BY <1>1, <1>19, SessionStep DEF Memory!MemNext
  <1>20. CASE ApiTokenCalls BY <1>1, <1>20, ApiTokenStep DEF Memory!MemNext
  <1>21. CASE LinkCalls BY <1>1, <1>21, LinkStep DEF Memory!MemNext
  <1>22. CASE EscalationCalls BY <1>1, <1>22, EscalationStep DEF Memory!MemNext
  <1>23. CASE OnCallCalls BY <1>23, OnCallStep DEF Memory!MemNext
  <1>24. CASE PostmortemCalls BY <1>24, PostmortemStep DEF Memory!MemNext
  <1>25. CASE ShareCalls BY <1>1, <1>25, ShareStep DEF Memory!MemNext
  <1>26. CASE TimePasses BY <1>26, TimeStep DEF Memory!MemNext
  <1> QED
    BY <1>2, <1>3, <1>4, <1>5, <1>6, <1>7, <1>8, <1>9, <1>10, <1>11, <1>12, <1>13, <1>14, <1>15,
       <1>16, <1>17, <1>18, <1>19, <1>20, <1>21, <1>22, <1>23, <1>24, <1>25, <1>26
    DEF DuckNext

----------------------------------------------------------------------------
(* Every step keeps the rows in shape.                                     *)

\* What the rows of one table look like; the tables not named hold anything.
Fits(table, rows) ==
    /\ table = "targets" => TargetRows(rows)
    /\ table = "incidents" => IncidentRows(rows)
    /\ table = "pages" => PageRows(rows)
    /\ table = "components" => ComponentRows(rows)
    /\ table = "windows" => WindowRows(rows)
    /\ table = "silences" => SilenceRows(rows)
    /\ table = "channels" => ChannelRows(rows)
    /\ table = "variables" => VariableRows(rows)
    /\ table = "postmortems" => PostmortemRows(rows)
    /\ table = "users" => UserRows(rows)
    /\ table = "results" => ResultRows(rows) /\ ResultsPast(rows, clock)
Single(k, row) == [x \in {k} |-> row]
Loose == {"assets", "pings", "expiry", "subscribers", "deliveries", "tokens", "bindings",
          "sessions", "api_tokens", "links", "policies", "schedules", "overrides", "states", "shares"}

\* The invariant, table by table.
LEMMA InvIsFit ==
    StorageInv <=> /\ DOMAIN duck = Tables
                   /\ \A table \in Tables : Fits(table, duck[table])
                   /\ CallsAgree /\ clock \in Times /\ DOMAIN inflight = Clients
  <1>1. ASSUME StorageInv, NEW table \in Tables PROVE Fits(table, duck[table])
    BY <1>1 DEF StorageInv, RowsAgree, Fits
  <1>2. ASSUME \A table \in Tables : Fits(table, duck[table]), DOMAIN duck = Tables
        PROVE  RowsAgree(duck) /\ ResultsPast(duck.results, clock)
    <2>1. {"targets", "incidents", "pages", "components", "windows", "silences", "channels",
           "variables", "postmortems", "users", "results"} \in SUBSET Tables
      BY DEF Tables
    <2> QED BY <1>2, <2>1 DEF RowsAgree, Fits
  <1> QED BY <1>1, <1>2 DEF StorageInv, RowsAgree

LEMMA LooseFits == \A table \in Loose : \A rows : Fits(table, rows)
  BY DEF Loose, Fits

\* Rows taken away, or one put, leave a table in shape.
LEMMA RestrictFits ==
    ASSUME NEW table, NEW rows, NEW S \in SUBSET DOMAIN rows, Fits(table, rows)
    PROVE  Fits(table, Restrict(rows, S))
  <1>1. PICK new : new = Restrict(rows, S) OBVIOUS
  <1>2. DOMAIN new = S /\ \A k \in S : k \in DOMAIN rows /\ new[k] = rows[k] BY <1>1 DEF Restrict
  <1>3. CASE table = "targets" BY <1>1, <1>2, <1>3 DEF Fits, TargetRows
  <1>4. CASE table = "incidents" BY <1>1, <1>2, <1>4 DEF Fits, IncidentRows
  <1>5. CASE table = "pages" BY <1>1, <1>2, <1>5 DEF Fits, PageRows
  <1>6. CASE table = "components" BY <1>1, <1>2, <1>6 DEF Fits, ComponentRows
  <1>7. CASE table = "windows" BY <1>1, <1>2, <1>7 DEF Fits, WindowRows
  <1>8. CASE table = "silences" BY <1>1, <1>2, <1>8 DEF Fits, SilenceRows
  <1>9. CASE table = "channels" BY <1>1, <1>2, <1>9 DEF Fits, ChannelRows
  <1>10. CASE table = "variables" BY <1>1, <1>2, <1>10 DEF Fits, VariableRows
  <1>11. CASE table = "postmortems" BY <1>1, <1>2, <1>11 DEF Fits, PostmortemRows
  <1>12. CASE table = "users" BY <1>1, <1>2, <1>12 DEF Fits, UserRows
  <1>13. CASE table = "results" BY <1>1, <1>2, <1>13 DEF Fits, ResultRows, ResultsPast
  <1> QED
    BY <1>1, <1>3, <1>4, <1>5, <1>6, <1>7, <1>8, <1>9, <1>10, <1>11, <1>12, <1>13 DEF Fits

LEMMA WithFits ==
    ASSUME NEW table, NEW rows, NEW k, NEW row, Fits(table, rows), Fits(table, Single(k, row))
    PROVE  Fits(table, With(rows, k, row))
  <1>1. PICK new : new = With(rows, k, row) OBVIOUS
  <1>2. PICK one : one = Single(k, row) OBVIOUS
  <1>3. /\ DOMAIN new = DOMAIN rows \cup {k} /\ DOMAIN one = {k} /\ one[k] = row
        /\ \A x \in DOMAIN new : new[x] = IF x = k THEN row ELSE rows[x]
    BY <1>1, <1>2 DEF With, Single
  <1>4. CASE table = "targets" BY <1>1, <1>2, <1>3, <1>4 DEF Fits, TargetRows
  <1>5. CASE table = "incidents" BY <1>1, <1>2, <1>3, <1>5 DEF Fits, IncidentRows
  <1>6. CASE table = "pages" BY <1>1, <1>2, <1>3, <1>6 DEF Fits, PageRows
  <1>7. CASE table = "components"
    <2>1. ComponentRows(rows) /\ ComponentRows(one) BY <1>2, <1>7 DEF Fits
    <2>2. ComponentRows(new) BY <1>3, <2>1 DEF ComponentRows
    <2> QED BY <1>1, <1>7, <2>2 DEF Fits
  <1>8. CASE table = "windows" BY <1>1, <1>2, <1>3, <1>8 DEF Fits, WindowRows
  <1>9. CASE table = "silences" BY <1>1, <1>2, <1>3, <1>9 DEF Fits, SilenceRows
  <1>10. CASE table = "channels" BY <1>1, <1>2, <1>3, <1>10 DEF Fits, ChannelRows
  <1>11. CASE table = "variables" BY <1>1, <1>2, <1>3, <1>11 DEF Fits, VariableRows
  <1>12. CASE table = "postmortems" BY <1>1, <1>2, <1>3, <1>12 DEF Fits, PostmortemRows
  <1>13. CASE table = "users" BY <1>1, <1>2, <1>3, <1>13 DEF Fits, UserRows
  <1>14. CASE table = "results" BY <1>1, <1>2, <1>3, <1>14 DEF Fits, ResultRows, ResultsPast
  <1> QED
    BY <1>1, <1>4, <1>5, <1>6, <1>7, <1>8, <1>9, <1>10, <1>11, <1>12, <1>13, <1>14 DEF Fits

\* The invariant is about the tables, the clock and the calls in flight alone.
LEMMA StillKeeps ==
    ASSUME StorageInv, UNCHANGED <<duck, clock, inflight>>
    PROVE  StorageInv'
  BY Zenon DEF StorageInv, CallsAgree

\* A statement that writes one table with rows in shape.
LEMMA PutKeeps ==
    ASSUME StorageInv, NEW table \in Tables, NEW rows, NEW answer, Fits(table, rows),
           Put(table, rows, answer), DOMAIN inflight' = Clients, CallsAgree'
    PROVE  StorageInv'
  <1>1. /\ DOMAIN duck = Tables /\ clock \in Times
        /\ \A t \in Tables : Fits(t, duck[t])
    BY InvIsFit
  <1>2. clock' = clock /\ duck' = [duck EXCEPT ![table] = rows] BY DEF Put
  <1>3. DOMAIN duck' = Tables /\ \A t \in Tables : duck'[t] = IF t = table THEN rows ELSE duck[t]
    BY <1>1, <1>2
  <1>4. PICK new : new = duck' OBVIOUS
  <1>5. \A t \in Tables : Fits(t, new[t]) BY <1>1, <1>3, <1>4
  <1>6. RowsAgree(new) /\ ResultsPast(new.results, clock)
    <2>1. {"targets", "incidents", "pages", "components", "windows", "silences", "channels",
           "variables", "postmortems", "users", "results"} \in SUBSET Tables
      BY DEF Tables
    <2>2. DOMAIN new = Tables BY <1>3, <1>4
    <2> QED BY <1>5, <2>1, <2>2 DEF RowsAgree, Fits
  <1> QED BY <1>1, <1>2, <1>4, <1>6 DEF StorageInv

LEMMA WriteKeeps ==
    ASSUME StorageInv, NEW table \in Tables, NEW rows, NEW answer, Fits(table, rows),
           Write(table, rows, answer)
    PROVE  StorageInv'
  <1>1. UNCHANGED inflight BY DEF Write
  <1>2. CallsAgree' /\ DOMAIN inflight' = Clients BY <1>1 DEF StorageInv, CallsAgree
  <1> QED BY <1>2, PutKeeps DEF Write

\* A statement that puts a row in shape, or takes rows away.
LEMMA SetKeeps ==
    ASSUME StorageInv, NEW table \in Tables, NEW k, NEW row, NEW answer, Fits(table, Single(k, row)),
           Write(table, With(duck[table], k, row), answer)
    PROVE  StorageInv'
  <1>1. PICK rows : rows = With(duck[table], k, row) OBVIOUS
  <1>2. Fits(table, duck[table]) BY InvIsFit
  <1>3. Fits(table, rows) BY <1>1, <1>2, WithFits
  <1> QED BY <1>1, <1>3, WriteKeeps

LEMMA DropKeeps ==
    ASSUME StorageInv, NEW table \in Tables, NEW S \in SUBSET DOMAIN duck[table], NEW answer,
           Write(table, Restrict(duck[table], S), answer)
    PROVE  StorageInv'
  <1>1. PICK rows : rows = Restrict(duck[table], S) OBVIOUS
  <1>2. Fits(table, duck[table]) BY InvIsFit
  <1>3. Fits(table, rows) BY <1>1, <1>2, RestrictFits
  <1> QED BY <1>1, <1>3, WriteKeeps

LEMMA DeleteKeeps ==
    ASSUME StorageInv, NEW table \in Tables, NEW k, DELETE_KEY(table, k) \/ DELETE_ONE(table, k)
    PROVE  StorageInv'
  <1>1. CASE DELETE_KEY(table, k)
    <2>1. PICK S : S = DOMAIN duck[table] \ {k} OBVIOUS
    <2>2. S \in SUBSET DOMAIN duck[table] BY <2>1
    <2>3. Write(table, Restrict(duck[table], S), Ok(None)) BY <1>1, <2>1 DEF DELETE_KEY
    <2> QED BY <2>2, <2>3, DropKeeps
  <1>2. CASE DELETE_ONE(table, k) BY <1>1, <1>2, StillKeeps DEF DELETE_ONE, Read, Answer
  <1> QED BY <1>1, <1>2

LEMMA PutRowKeeps ==
    ASSUME StorageInv, NEW table \in Tables, NEW k, NEW row, NEW answer, Fits(table, Single(k, row)),
           \/ INSERT(table, k, row, answer) \/ UPDATE(table, k, row, answer)
           \/ REPLACE_INTO(table, k, row, answer)
    PROVE  StorageInv'
  <1>1. CASE Write(table, With(duck[table], k, row), answer) BY <1>1, SetKeeps
  <1>2. CASE Read(Conflict) \/ Read(NotFound) BY <1>2, StillKeeps DEF Read, Answer
  <1> QED BY <1>1, <1>2 DEF INSERT, UPDATE, REPLACE_INTO

\* The statements: those that answer, and those that write a table of any shape.
LEMMA ReadsKeep ==
    ASSUME StorageInv
    PROVE  /\ \A answers : Answer(answers) => StorageInv'
           /\ \A answer : Read(answer) => StorageInv'
           /\ \A orders : SELECT_ORDERED(orders) => StorageInv'
           /\ \A table, k : (\/ SELECT_OPTION(table, k) \/ SELECT_ONE(table, k)
                             \/ SELECT_PAYLOAD(table, k)) => StorageInv'
  <1>1. \A answers : Answer(answers) => StorageInv' BY StillKeeps DEF Answer
  <1>2. \A answer : Read(answer) => StorageInv' BY <1>1 DEF Read
  <1>3. \A orders : SELECT_ORDERED(orders) => StorageInv' BY <1>1, Zenon DEF SELECT_ORDERED
  <1>4. \A table, k : (\/ SELECT_OPTION(table, k) \/ SELECT_ONE(table, k)
                       \/ SELECT_PAYLOAD(table, k)) => StorageInv'
    BY <1>2, Zenon DEF SELECT_OPTION, SELECT_ONE, SELECT_PAYLOAD
  <1> QED BY <1>1, <1>2, <1>3, <1>4

LEMMA LooseKeep ==
    ASSUME StorageInv, NEW table \in Loose
    PROVE  /\ \A rows, answer : Write(table, rows, answer) => StorageInv'
           /\ \A k, row, answer : (\/ INSERT(table, k, row, answer) \/ UPDATE(table, k, row, answer)
                                   \/ REPLACE_INTO(table, k, row, answer)) => StorageInv'
           /\ \A k : DELETE_KEY(table, k) \/ DELETE_ONE(table, k) => StorageInv'
  <1>1. table \in Tables BY DEF Loose, Tables
  <1>2. ASSUME NEW rows, NEW answer, Write(table, rows, answer) PROVE StorageInv'
    BY <1>1, <1>2, LooseFits, WriteKeeps
  <1>3. ASSUME NEW k, NEW row, NEW answer,
               \/ INSERT(table, k, row, answer) \/ UPDATE(table, k, row, answer)
               \/ REPLACE_INTO(table, k, row, answer)
        PROVE  StorageInv'
    BY <1>1, <1>3, LooseFits, PutRowKeeps
  <1>4. ASSUME NEW k, DELETE_KEY(table, k) \/ DELETE_ONE(table, k) PROVE StorageInv'
    BY <1>1, <1>4, DeleteKeeps
  <1> QED BY <1>2, <1>3, <1>4

\* The tables that hold anything: every call over them, group by group.
LEMMA BeatKeeps ==
    ASSUME StorageInv, BeatCalls
    PROVE  StorageInv'
  <1>1. "pings" \in Loose /\ "expiry" \in Loose BY DEF Loose
  <1>2. ASSUME NEW t \in Ids, record_heartbeat_ping(t) PROVE StorageInv'
    BY <1>1, <1>2, LooseKeep DEF record_heartbeat_ping
  <1>3. ASSUME NEW t \in Ids, get_last_heartbeat_ping(t) PROVE StorageInv'
    BY <1>3, ReadsKeep DEF get_last_heartbeat_ping
  <1>4. ASSUME NEW t \in Ids, get_domain_expiry_state(t) PROVE StorageInv'
    BY <1>4, ReadsKeep DEF get_domain_expiry_state
  <1>5. ASSUME NEW t \in Ids, NEW at \in Times, set_domain_expiry_state(t, at) PROVE StorageInv'
    BY <1>1, <1>5, LooseKeep DEF set_domain_expiry_state
  <1> QED BY <1>2, <1>3, <1>4, <1>5 DEF BeatCalls

LEMMA SubscriberKeeps ==
    ASSUME StorageInv, SubscriberCalls
    PROVE  StorageInv'
  <1>1. "subscribers" \in Loose BY DEF Loose
  <1>2. ASSUME NEW i \in Ids, list_subscribers(i) PROVE StorageInv'
    BY <1>2, ReadsKeep DEF list_subscribers
  <1>3. ASSUME NEW i \in Ids, verify_subscriber(i) PROVE StorageInv'
    BY <1>1, <1>3, ReadsKeep, LooseKeep DEF verify_subscriber
  <1>4. ASSUME NEW i \in Ids, delete_subscriber(i) PROVE StorageInv'
    BY <1>1, <1>4, LooseKeep DEF delete_subscriber
  <1>5. ASSUME NEW i \in Ids, NEW p \in Ids, create_subscriber(i, p) PROVE StorageInv'
    BY <1>1, <1>5, LooseKeep DEF create_subscriber
  <1>6. ASSUME NEW before \in Times, delete_unverified_subscribers(before) PROVE StorageInv'
    BY <1>1, <1>6, LooseKeep DEF delete_unverified_subscribers, DELETE_COUNT
  <1> QED BY <1>2, <1>3, <1>4, <1>5, <1>6 DEF SubscriberCalls

LEMMA TokenKeeps ==
    ASSUME StorageInv, TokenCalls
    PROVE  StorageInv'
  <1>1. "tokens" \in Loose BY DEF Loose
  <1>2. ASSUME NEW h \in Ids, consume_channel_verification_token(h) PROVE StorageInv'
    BY <1>1, <1>2, ReadsKeep, LooseKeep DEF consume_channel_verification_token
  <1>3. ASSUME NEW h \in Ids, NEW c \in Ids, NEW e \in Times,
        create_channel_verification_token(h, c, e)
        PROVE  StorageInv'
    BY <1>1, <1>3, LooseKeep DEF create_channel_verification_token
  <1> QED BY <1>2, <1>3 DEF TokenCalls

LEMMA SessionKeeps ==
    ASSUME StorageInv, SessionCalls
    PROVE  StorageInv'
  <1>1. "sessions" \in Loose BY DEF Loose
  <1>2. ASSUME NEW i \in Ids, lookup_session(i) PROVE StorageInv'
    BY <1>2, ReadsKeep DEF lookup_session
  <1>3. ASSUME NEW i \in Ids, touch_session(i) PROVE StorageInv'
    BY <1>1, <1>3, ReadsKeep, LooseKeep DEF touch_session
  <1>4. ASSUME NEW i \in Ids, delete_session(i) PROVE StorageInv'
    BY <1>1, <1>4, LooseKeep DEF delete_session
  <1>5. ASSUME NEW i \in Ids, list_sessions(i) PROVE StorageInv'
    BY <1>5, ReadsKeep DEF list_sessions
  <1>6. ASSUME NEW u \in Ids, NEW h \in Ids, delete_other_sessions(u, h) PROVE StorageInv'
    BY <1>1, <1>6, LooseKeep DEF delete_other_sessions, DELETE_COUNT
  <1>7. ASSUME NEW h \in Ids, NEW u \in Ids, NEW e \in Times, create_session(h, u, e)
        PROVE  StorageInv'
    BY <1>1, <1>7, LooseKeep DEF create_session
  <1>8. ASSUME NEW now \in Times, delete_expired_sessions(now) PROVE StorageInv'
    BY <1>1, <1>8, LooseKeep DEF delete_expired_sessions, DELETE_COUNT
  <1> QED BY <1>2, <1>3, <1>4, <1>5, <1>6, <1>7, <1>8 DEF SessionCalls

LEMMA ApiTokenKeeps ==
    ASSUME StorageInv, ApiTokenCalls
    PROVE  StorageInv'
  <1>1. "api_tokens" \in Loose BY DEF Loose
  <1>2. ASSUME NEW i \in Ids, find_api_tokens_by_prefix(i) PROVE StorageInv'
    BY <1>2, ReadsKeep DEF find_api_tokens_by_prefix
  <1>3. ASSUME NEW i \in Ids, list_api_tokens(i) PROVE StorageInv'
    BY <1>3, ReadsKeep DEF list_api_tokens
  <1>4. ASSUME NEW i \in Ids, NEW name \in {1}, update_api_token(i, name) PROVE StorageInv'
    BY <1>1, <1>4, ReadsKeep, LooseKeep DEF update_api_token
  <1>5. ASSUME NEW i \in Ids, touch_api_token(i) PROVE StorageInv'
    BY <1>1, <1>5, ReadsKeep, LooseKeep DEF touch_api_token
  <1>6. ASSUME NEW i \in Ids, delete_api_token(i) PROVE StorageInv'
    BY <1>1, <1>6, LooseKeep DEF delete_api_token
  <1>7. ASSUME NEW i \in Ids, delete_api_tokens_for_user(i) PROVE StorageInv'
    BY <1>1, <1>7, LooseKeep DEF delete_api_tokens_for_user, DELETE_COUNT
  <1>8. ASSUME NEW i \in Ids, NEW u \in Ids, NEW prefix \in {1}, NEW e \in {None, 1},
        create_api_token(i, u, prefix, e)
        PROVE  StorageInv'
    BY <1>1, <1>8, LooseKeep DEF create_api_token
  <1>9. ASSUME NEW cutoff \in Times, delete_expired_api_tokens(cutoff) PROVE StorageInv'
    BY <1>1, <1>9, LooseKeep DEF delete_expired_api_tokens, DELETE_COUNT
  <1> QED BY <1>2, <1>3, <1>4, <1>5, <1>6, <1>7, <1>8, <1>9 DEF ApiTokenCalls

LEMMA LinkKeeps ==
    ASSUME StorageInv, LinkCalls
    PROVE  StorageInv'
  <1>1. "links" \in Loose BY DEF Loose
  <1>2. ASSUME NEW i \in Ids, find_magic_links_by_prefix(i) PROVE StorageInv'
    BY <1>2, ReadsKeep DEF find_magic_links_by_prefix
  <1>3. ASSUME NEW i \in Ids, consume_magic_link(i) PROVE StorageInv'
    BY <1>1, <1>3, ReadsKeep, LooseKeep DEF consume_magic_link
  <1>4. ASSUME NEW i \in Ids, NEW prefix \in Ids, NEW e \in Times,
        create_magic_link(i, prefix, e)
        PROVE  StorageInv'
    BY <1>1, <1>4, LooseKeep DEF create_magic_link
  <1>5. ASSUME NEW now \in Times, delete_expired_magic_links(now) PROVE StorageInv'
    BY <1>1, <1>5, LooseKeep DEF delete_expired_magic_links, DELETE_COUNT
  <1> QED BY <1>2, <1>3, <1>4, <1>5 DEF LinkCalls

LEMMA EscalationKeeps ==
    ASSUME StorageInv, EscalationCalls
    PROVE  StorageInv'
  <1>1. "policies" \in Loose /\ "states" \in Loose BY DEF Loose
  <1>2. ASSUME list_escalation_policies PROVE StorageInv'
    BY <1>2, ReadsKeep DEF list_escalation_policies
  <1>3. ASSUME NEW i \in Ids, get_escalation_policy(i) PROVE StorageInv'
    BY <1>3, ReadsKeep DEF get_escalation_policy
  <1>4. ASSUME NEW i \in Ids, delete_escalation_policy(i) PROVE StorageInv'
    BY <1>1, <1>4, LooseKeep DEF delete_escalation_policy
  <1>5. ASSUME NEW i \in Ids, get_escalation_state(i) PROVE StorageInv'
    BY <1>5, ReadsKeep DEF get_escalation_state
  <1>6. ASSUME NEW i \in Ids, ack_escalation_state(i) PROVE StorageInv'
    BY <1>1, <1>6, ReadsKeep, LooseKeep DEF ack_escalation_state
  <1>7. ASSUME NEW i \in Ids, delete_escalation_state(i) PROVE StorageInv'
    BY <1>1, <1>7, LooseKeep DEF delete_escalation_state
  <1>8. ASSUME NEW p \in Policies, upsert_escalation_policy(p) PROVE StorageInv'
    BY <1>1, <1>8, LooseKeep DEF upsert_escalation_policy
  <1>9. ASSUME NEW s \in States, upsert_escalation_state(s) PROVE StorageInv'
    BY <1>1, <1>9, LooseKeep DEF upsert_escalation_state
  <1>10. ASSUME NEW now \in Times, list_due_escalation_states(now) PROVE StorageInv'
    BY <1>10, ReadsKeep DEF list_due_escalation_states
  <1> QED BY <1>2, <1>3, <1>4, <1>5, <1>6, <1>7, <1>8, <1>9, <1>10 DEF EscalationCalls

LEMMA ShareKeeps ==
    ASSUME StorageInv, ShareCalls
    PROVE  StorageInv'
  <1>1. "shares" \in Loose BY DEF Loose
  <1>2. ASSUME ping PROVE StorageInv'
    BY <1>2, ReadsKeep DEF ping
  <1>3. ASSUME NEW i \in Ids, list_monitor_shares(i) PROVE StorageInv'
    BY <1>3, ReadsKeep DEF list_monitor_shares
  <1>4. ASSUME NEW i \in Ids, delete_monitor_share(i) PROVE StorageInv'
    BY <1>1, <1>4, LooseKeep DEF delete_monitor_share
  <1>5. ASSUME NEW i \in Ids, resolve_monitor_share(i) PROVE StorageInv'
    BY <1>1, <1>5, ReadsKeep, LooseKeep DEF resolve_monitor_share
  <1>6. ASSUME NEW i \in Ids, NEW t \in Ids, NEW e \in {None, 1}, create_monitor_share(i, t, e)
        PROVE  StorageInv'
    BY <1>1, <1>6, LooseKeep DEF create_monitor_share
  <1> QED BY <1>2, <1>3, <1>4, <1>5, <1>6 DEF ShareCalls

LEMMA AssetKeeps ==
    ASSUME StorageInv, AssetCalls
    PROVE  StorageInv'
  <1>1. "assets" \in Loose BY DEF Loose
  <1>2. ASSUME NEW p \in Ids, list_page_assets(p) PROVE StorageInv'
    BY <1>2, ReadsKeep DEF list_page_assets
  <1>3. ASSUME NEW p \in Ids, NEW slot \in {"logo"}, get_page_asset(p, slot) PROVE StorageInv'
    BY <1>3, ReadsKeep DEF get_page_asset
  <1>4. ASSUME NEW p \in Ids, NEW slot \in {"logo"}, delete_page_asset(p, slot)
        PROVE  StorageInv'
    BY <1>1, <1>4, LooseKeep DEF delete_page_asset
  <1>5. ASSUME NEW p \in Ids, NEW slot \in {"logo"}, NEW content \in {1, 2},
        upload_page_asset(p, slot, content)
        PROVE  StorageInv'
    BY <1>1, <1>5, LooseKeep DEF upload_page_asset
  <1> QED BY <1>2, <1>3, <1>4, <1>5 DEF AssetCalls

LEMMA DeliveryKeeps ==
    ASSUME StorageInv, DeliveryCalls
    PROVE  StorageInv'
  <1>1. "deliveries" \in Loose BY DEF Loose
  <1>2. ASSUME NEW i \in Ids, enqueue_delivery(i) PROVE StorageInv'
    BY <1>1, <1>2, LooseKeep DEF enqueue_delivery
  <1>3. ASSUME NEW i \in Ids, claim_delivery(i) PROVE StorageInv'
    BY <1>1, <1>3, ReadsKeep, LooseKeep DEF claim_delivery
  <1>4. ASSUME NEW n \in {1, 2}, list_pending_deliveries(n) PROVE StorageInv'
    BY <1>4, ReadsKeep DEF list_pending_deliveries
  <1>5. ASSUME NEW before \in Times, delete_old_deliveries(before) PROVE StorageInv'
    BY <1>1, <1>5, LooseKeep DEF delete_old_deliveries, DELETE_COUNT
  <1>6. ASSUME NEW i \in Ids, NEW s \in {"sent", "failed", "dead_letter"}, mark_delivery(i, s)
        PROVE  StorageInv'
    BY <1>1, <1>6, ReadsKeep, LooseKeep DEF mark_delivery
  <1> QED BY <1>2, <1>3, <1>4, <1>5, <1>6 DEF DeliveryCalls

\* One row of each shape.
LEMMA SingleFits ==
    /\ \A k \in Ids : \A p \in TargetPayload(k) : Fits("targets", Single(k, target_row(p)))
    /\ \A k \in Ids : \A p \in IncidentPayload(k) : Fits("incidents", Single(k, incident_row(p)))
    /\ \A k \in Ids : \A p \in PagePayload(k) : Fits("pages", Single(k, page_row(p)))
    /\ \A k, row : ComponentRow(k, row) => Fits("components", Single(k, row))
    /\ \A w \in Windows : Fits("windows", Single(w.id, window_row(w)))
    /\ \A k \in Ids : \A p \in SilencePayload(k) : Fits("silences", Single(k, silence_row(p)))
    /\ \A k \in Ids : \A p \in ChannelPayload(k), sealed, enabled \in BOOLEAN :
          Fits("channels", Single(k, [payload |-> p, sealed |-> sealed, enabled |-> enabled,
                                      created_at |-> p.created_at]))
    /\ \A v \in Variables : Fits("variables", Single(v.id, stored(v)))
    /\ \A k : \A p \in PostmortemPayload(k) : Fits("postmortems", Single(k, p))
    /\ \A k : \A u \in UserPayload(k) : Fits("users", Single(k, u))
    /\ \A k \in Ids \X Times : \A r \in [target : {k[1]}, ts : {k[2]}, status : Statuses] :
          k[2] <= clock => Fits("results", Single(k, r))
  <1>1. \A k, row : DOMAIN Single(k, row) = {k} /\ Single(k, row)[k] = row BY DEF Single
  <1>2. ASSUME NEW k \in Ids, NEW p \in TargetPayload(k)
        PROVE  Fits("targets", Single(k, target_row(p)))
    <2>1. PICK row : row = target_row(p) OBVIOUS
    <2>2. PICK one : one = Single(k, row) OBVIOUS
    <2>3. DOMAIN one = {k} /\ one[k] = row BY <1>1, <2>2
    <2> QED BY <2>1, <2>2, <2>3 DEF Fits, TargetRows
  <1>3. ASSUME NEW k \in Ids, NEW p \in IncidentPayload(k)
        PROVE  Fits("incidents", Single(k, incident_row(p)))
    <2>1. PICK row : row = incident_row(p) OBVIOUS
    <2>2. PICK one : one = Single(k, row) OBVIOUS
    <2>3. DOMAIN one = {k} /\ one[k] = row BY <1>1, <2>2
    <2> QED BY <2>1, <2>2, <2>3 DEF Fits, IncidentRows
  <1>4. ASSUME NEW k \in Ids, NEW p \in PagePayload(k)
        PROVE  Fits("pages", Single(k, page_row(p)))
    <2>1. PICK row : row = page_row(p) OBVIOUS
    <2>2. PICK one : one = Single(k, row) OBVIOUS
    <2>3. DOMAIN one = {k} /\ one[k] = row BY <1>1, <2>2
    <2> QED BY <2>1, <2>2, <2>3 DEF Fits, PageRows
  <1>5. ASSUME NEW k, NEW row, ComponentRow(k, row)
        PROVE  Fits("components", Single(k, row))
    <2>1. PICK one : one = Single(k, row) OBVIOUS
    <2>2. DOMAIN one = {k} /\ one[k] = row BY <1>1, <2>1
    <2> QED BY <1>5, <2>1, <2>2 DEF Fits, ComponentRows
  <1>6. ASSUME NEW w \in Windows
        PROVE  Fits("windows", Single(w.id, window_row(w)))
    <2>1. w.id \in Ids BY DEF Windows
    <2>2. PICK row : row = window_row(w) OBVIOUS
    <2>3. PICK one : one = Single(w.id, row) OBVIOUS
    <2>4. DOMAIN one = {w.id} /\ one[w.id] = row BY <1>1, <2>3
    <2> QED BY <2>1, <2>2, <2>3, <2>4 DEF Fits, WindowRows
  <1>7. ASSUME NEW k \in Ids, NEW p \in SilencePayload(k)
        PROVE  Fits("silences", Single(k, silence_row(p)))
    <2>1. PICK row : row = silence_row(p) OBVIOUS
    <2>2. PICK one : one = Single(k, row) OBVIOUS
    <2>3. DOMAIN one = {k} /\ one[k] = row BY <1>1, <2>2
    <2> QED BY <2>1, <2>2, <2>3 DEF Fits, SilenceRows
  <1>8. ASSUME NEW k \in Ids, NEW p \in ChannelPayload(k),
               NEW sealed \in BOOLEAN, NEW enabled \in BOOLEAN
        PROVE  Fits("channels", Single(k, [payload |-> p, sealed |-> sealed, enabled |-> enabled,
                                           created_at |-> p.created_at]))
    <2>1. PICK row : row = [payload |-> p, sealed |-> sealed, enabled |-> enabled,
                            created_at |-> p.created_at] OBVIOUS
    <2>2. PICK one : one = Single(k, row) OBVIOUS
    <2>3. DOMAIN one = {k} /\ one[k] = row BY <1>1, <2>2
    <2> QED BY <2>1, <2>2, <2>3 DEF Fits, ChannelRows
  <1>9. ASSUME NEW v \in Variables PROVE Fits("variables", Single(v.id, stored(v)))
    <2>1. PICK kept : kept = IF v.value = None THEN Blank ELSE v.value OBVIOUS
    <2>2. v \in [id : Ids, key : Ids, secret : BOOLEAN, value : {None, 1}] BY DEF Variables
    <2>3. kept \in {Blank, 1} BY <2>1, <2>2
    <2>4. PICK row : row = [v EXCEPT !.value = kept] OBVIOUS
    <2>5. row = stored(v) BY <2>1, <2>4 DEF stored
    <2>6. row \in [id : {v.id}, key : Ids, secret : BOOLEAN, value : {Blank, 1}]
      BY <2>2, <2>3, <2>4
    <2>7. PICK one : one = Single(v.id, row) OBVIOUS
    <2>8. DOMAIN one = {v.id} /\ one[v.id] = row BY <1>1, <2>7
    <2> QED BY <2>2, <2>5, <2>6, <2>7, <2>8 DEF Fits, VariableRows
  <1>10. ASSUME NEW k, NEW p \in PostmortemPayload(k)
        PROVE  Fits("postmortems", Single(k, p))
    <2>1. PICK row : row = p OBVIOUS
    <2>2. PICK one : one = Single(k, row) OBVIOUS
    <2>3. DOMAIN one = {k} /\ one[k] = row BY <1>1, <2>2
    <2> QED BY <2>1, <2>2, <2>3 DEF Fits, PostmortemRows
  <1>11. ASSUME NEW k, NEW u \in UserPayload(k)
        PROVE  Fits("users", Single(k, u))
    <2>1. PICK row : row = u OBVIOUS
    <2>2. PICK one : one = Single(k, row) OBVIOUS
    <2>3. DOMAIN one = {k} /\ one[k] = row BY <1>1, <2>2
    <2> QED BY <2>1, <2>2, <2>3 DEF Fits, UserRows
  <1>12. ASSUME NEW k \in Ids \X Times, NEW r \in [target : {k[1]}, ts : {k[2]}, status : Statuses],
               k[2] <= clock
        PROVE  Fits("results", Single(k, r))
    <2>1. PICK row : row = r OBVIOUS
    <2>2. PICK one : one = Single(k, row) OBVIOUS
    <2>3. DOMAIN one = {k} /\ one[k] = row BY <1>1, <2>2
    <2> QED BY <1>12, <2>1, <2>2, <2>3 DEF Fits, ResultRows, ResultsPast
  <1> QED
    BY <1>2, <1>3, <1>4, <1>5, <1>6, <1>7, <1>8, <1>9, <1>10, <1>11, <1>12

\* The tables with a shape: every call over them, group by group.
LEMMA TargetKeeps ==
    ASSUME StorageInv, TargetCalls
    PROVE  StorageInv'
  <1>1. "targets" \in Tables /\ clock \in Times BY DEF Tables, StorageInv
  <1>2. ASSUME NEW i \in Ids, NEW on \in BOOLEAN, create_target(i, on) PROVE StorageInv'
    <2>1. PICK t : t = [id |-> i, enabled |-> on, created_at |-> clock] OBVIOUS
    <2>2. t \in TargetPayload(i) BY <1>1, <2>1 DEF TargetPayload
    <2>3. INSERT("targets", i, target_row(t), Ok(t)) BY <1>2, <2>1 DEF create_target
    <2> QED BY <1>1, <2>2, <2>3, SingleFits, PutRowKeeps
  <1>3. ASSUME NEW i \in Ids, NEW on \in BOOLEAN, update_target(i, on) PROVE StorageInv'
    <2>1. CASE ~Has("targets", i) BY <1>3, <2>1, ReadsKeep DEF update_target
    <2>2. CASE Has("targets", i)
      <3>1. PICK rows : rows = duck.targets OBVIOUS
      <3>2. TargetRows(rows) /\ i \in DOMAIN rows
        BY <2>2, <3>1 DEF StorageInv, RowsAgree, Has
      <3>3. PICK p \in TargetPayload(i) : rows[i] = target_row(p) BY <3>2 DEF TargetRows
      <3>4. PICK t : t = [p EXCEPT !.enabled = on] OBVIOUS
      <3>5. t \in TargetPayload(i) BY <3>4 DEF TargetPayload
      <3>6. rows[i].payload = p BY <3>3 DEF target_row
      <3>7. PICK row : row = [rows[i] EXCEPT !.enabled = on, !.payload = t] OBVIOUS
      <3>8. row = target_row(t)
        <4>1. PICK old, then : /\ old = [payload |-> p, enabled |-> p.enabled, created_at |-> then]
                               /\ then = p.created_at
          OBVIOUS
        <4>2. row = [old EXCEPT !.enabled = on, !.payload = t]
          BY <3>3, <3>7, <4>1 DEF target_row
        <4>3. row = [payload |-> t, enabled |-> on, created_at |-> then] BY <4>1, <4>2
        <4>4. t.enabled = on /\ t.created_at = then BY <3>4, <4>1 DEF TargetPayload
        <4> QED BY <4>3, <4>4 DEF target_row
      <3>9. UPDATE("targets", i, row, Ok(t))
        BY <1>3, <2>2, <3>1, <3>4, <3>6, <3>7 DEF update_target
      <3> QED BY <1>1, <3>5, <3>8, <3>9, SingleFits, PutRowKeeps
    <2> QED BY <2>1, <2>2
  <1>4. ASSUME list_targets PROVE StorageInv'
    BY <1>4, ReadsKeep DEF list_targets
  <1>5. ASSUME NEW i \in Ids, get_target(i) PROVE StorageInv'
    BY <1>5, ReadsKeep DEF get_target
  <1>6. ASSUME NEW i \in Ids, delete_target(i) PROVE StorageInv'
    BY <1>1, <1>6, DeleteKeeps DEF delete_target
  <1> QED BY <1>2, <1>3, <1>4, <1>5, <1>6 DEF TargetCalls

LEMMA PageKeeps ==
    ASSUME StorageInv, PageCalls
    PROVE  StorageInv'
  <1>1. "pages" \in Tables /\ clock \in Times BY DEF Tables, StorageInv
  <1>2. ASSUME NEW p \in Ids, NEW slug \in Ids, create_status_page(p, slug) PROVE StorageInv'
    <2>1. PICK new : new = [id |-> p, slug |-> slug, created_at |-> clock] OBVIOUS
    <2>2. new \in PagePayload(p) BY <1>1, <2>1 DEF PagePayload
    <2>3. Read(Conflict) \/ INSERT("pages", p, page_row(new), Ok(new))
      BY <1>2, <2>1 DEF create_status_page
    <2> QED BY <1>1, <2>2, <2>3, SingleFits, PutRowKeeps, ReadsKeep
  <1>3. ASSUME NEW p \in Ids, NEW slug \in Ids, update_status_page(p, slug) PROVE StorageInv'
    <2>1. CASE ~Has("pages", p) BY <1>3, <2>1, ReadsKeep DEF update_status_page
    <2>2. CASE Has("pages", p)
      <3>1. PICK rows : rows = duck.pages OBVIOUS
      <3>2. PageRows(rows) /\ p \in DOMAIN rows BY <2>2, <3>1 DEF StorageInv, RowsAgree, Has
      <3>3. PICK old \in PagePayload(p) : rows[p] = page_row(old) BY <3>2 DEF PageRows
      <3>4. PICK new : new = [old EXCEPT !.slug = slug] OBVIOUS
      <3>5. new \in PagePayload(p) BY <3>4 DEF PagePayload
      <3>6. rows[p].payload = old BY <3>3 DEF page_row
      <3>7. PICK row : row = [rows[p] EXCEPT !.slug = slug, !.payload = new] OBVIOUS
      <3>8. row = page_row(new)
        <4>1. PICK r, then : /\ r = [payload |-> old, slug |-> old.slug, created_at |-> then]
                             /\ then = old.created_at
          OBVIOUS
        <4>2. row = [r EXCEPT !.slug = slug, !.payload = new] BY <3>3, <3>7, <4>1 DEF page_row
        <4>3. row = [payload |-> new, slug |-> slug, created_at |-> then] BY <4>1, <4>2
        <4>4. new.slug = slug /\ new.created_at = then BY <3>4, <4>1 DEF PagePayload
        <4> QED BY <4>3, <4>4 DEF page_row
      <3>9. Read(Conflict) \/ UPDATE("pages", p, row, Ok(new))
        BY <1>3, <2>2, <3>1, <3>4, <3>6, <3>7 DEF update_status_page
      <3> QED BY <1>1, <3>5, <3>8, <3>9, SingleFits, PutRowKeeps, ReadsKeep
    <2> QED BY <2>1, <2>2
  <1>4. ASSUME list_status_pages PROVE StorageInv'
    BY <1>4, ReadsKeep DEF list_status_pages
  <1>5. ASSUME NEW p \in Ids, get_status_page(p) PROVE StorageInv'
    BY <1>5, ReadsKeep DEF get_status_page
  <1>6. ASSUME NEW p \in Ids, delete_status_page(p) PROVE StorageInv'
    BY <1>1, <1>6, DeleteKeeps DEF delete_status_page
  <1> QED BY <1>2, <1>3, <1>4, <1>5, <1>6 DEF PageCalls

LEMMA ComponentKeeps ==
    ASSUME StorageInv, ComponentCalls
    PROVE  StorageInv'
  <1>1. "components" \in Tables BY DEF Tables
  <1>2. ASSUME NEW p \in Ids, NEW t \in Ids, NEW order \in {0, 1},
               set_status_page_component(p, t, order)
        PROVE  StorageInv'
    <2>1. PICK k : k = <<p, t>> OBVIOUS
    <2>2. PICK row : row = [payload |-> [target |-> t, sort_order |-> order], sort_order |-> order]
      OBVIOUS
    <2>3. k[2] = t /\ k \in Ids \X Ids BY <2>1
    <2>4. ComponentRow(k, row) BY <2>2, <2>3 DEF ComponentRow
    <2>5. REPLACE_INTO("components", k, row, Ok(None))
      BY <1>2, <2>1, <2>2 DEF set_status_page_component
    <2> QED BY <1>1, <2>4, <2>5, SingleFits, PutRowKeeps
  <1>3. ASSUME NEW p \in Ids, NEW list, reorder_status_page_components(p, list) PROVE StorageInv'
    <2>1. PICK old : old = duck.components OBVIOUS
    <2>2. ComponentRows(old) BY <2>1 DEF StorageInv, RowsAgree
    <2>3. PICK new : new = [k \in DOMAIN old |->
                              IF k[1] = p /\ k[2] \in ToSet(list)
                              THEN [old[k] EXCEPT
                                      !.sort_order = Max({i \in DOMAIN list : list[i] = k[2]}) - 1]
                              ELSE old[k]]
      OBVIOUS
    <2>4. ASSUME NEW k \in DOMAIN old PROVE ComponentRow(k, new[k])
      <3>1. PICK last : last = Max({i \in DOMAIN list : list[i] = k[2]}) - 1 OBVIOUS
      <3>2. new[k] = [old[k] EXCEPT !.sort_order = last] \/ new[k] = old[k] BY <2>3, <3>1
      <3>3. ComponentRow(k, old[k]) BY <2>2 DEF ComponentRows
      <3>4. PICK sent, order : old[k] = [payload |-> [target |-> k[2], sort_order |-> sent],
                                         sort_order |-> order]
        BY <3>3 DEF ComponentRow
      <3>5. [old[k] EXCEPT !.sort_order = last]
              = [payload |-> [target |-> k[2], sort_order |-> sent], sort_order |-> last]
        BY <3>4
      <3> QED BY <3>2, <3>3, <3>5 DEF ComponentRow
    <2>5. DOMAIN new = DOMAIN old BY <2>3
    <2>6. Fits("components", new) BY <2>4, <2>5 DEF Fits, ComponentRows
    <2>7. Write("components", new, Ok(None))
      BY <1>3, <2>1, <2>3, Zenon DEF reorder_status_page_components
    <2> QED BY <1>1, <2>6, <2>7, WriteKeeps
  <1>4. ASSUME NEW p \in Ids, list_status_page_components(p) PROVE StorageInv'
    BY <1>4, ReadsKeep DEF list_status_page_components
  <1>5. ASSUME NEW p \in Ids, NEW t \in Ids, delete_status_page_component(p, t) PROVE StorageInv'
    BY <1>1, <1>5, DeleteKeeps DEF delete_status_page_component
  <1> QED BY <1>2, <1>3, <1>4, <1>5 DEF ComponentCalls

LEMMA WindowKeeps ==
    ASSUME StorageInv, WindowCalls
    PROVE  StorageInv'
  <1>1. "windows" \in Tables BY DEF Tables
  <1>2. ASSUME NEW w \in Windows, create_maintenance_window(w) \/ update_maintenance_window(w)
        PROVE  StorageInv'
    BY <1>1, <1>2, SingleFits, PutRowKeeps
    DEF create_maintenance_window, update_maintenance_window
  <1>3. ASSUME NEW f \in Filters, list_maintenance_windows(f) PROVE StorageInv'
    BY <1>3, ReadsKeep DEF list_maintenance_windows
  <1>4. ASSUME NEW i \in Ids, get_maintenance_window(i) PROVE StorageInv'
    BY <1>4, ReadsKeep DEF get_maintenance_window
  <1>5. ASSUME NEW t \in Ids, is_target_in_active_maintenance(t) PROVE StorageInv'
    BY <1>5, ReadsKeep DEF is_target_in_active_maintenance
  <1>6. ASSUME NEW i \in Ids, delete_maintenance_window(i) PROVE StorageInv'
    BY <1>1, <1>6, DeleteKeeps DEF delete_maintenance_window
  <1> QED BY <1>2, <1>3, <1>4, <1>5, <1>6 DEF WindowCalls

LEMMA SilenceKeeps ==
    ASSUME StorageInv, SilenceCalls
    PROVE  StorageInv'
  <1>1. "silences" \in Tables BY DEF Tables
  <1>2. ASSUME NEW i \in Ids, NEW t \in Ids \cup {None}, NEW from \in Times, NEW to \in Times,
               create_silence_rule(i, t, from, to)
        PROVE  StorageInv'
    <2>1. PICK new : new = [id |-> i, target |-> t, starts_at |-> from, ends_at |-> to] OBVIOUS
    <2>2. new \in SilencePayload(i) BY <2>1 DEF SilencePayload
    <2>3. INSERT("silences", i, silence_row(new), Ok(new)) BY <1>2, <2>1 DEF create_silence_rule
    <2> QED BY <1>1, <2>2, <2>3, SingleFits, PutRowKeeps
  <1>3. ASSUME NEW i \in Ids, NEW t \in Ids \cup {None}, NEW from \in OptionalTimes,
               NEW to \in OptionalTimes, update_silence_rule(i, t, from, to)
        PROVE  StorageInv'
    <2>1. CASE ~Has("silences", i) BY <1>3, <2>1, ReadsKeep DEF update_silence_rule
    <2>2. CASE Has("silences", i)
      <3>1. PICK rows : rows = duck.silences OBVIOUS
      <3>2. SilenceRows(rows) /\ i \in DOMAIN rows
        BY <2>2, <3>1 DEF StorageInv, RowsAgree, Has
      <3>3. PICK old \in SilencePayload(i) : rows[i] = silence_row(old) BY <3>2 DEF SilenceRows
      <3>4. PICK new : new = [old EXCEPT !.target = t,
                                !.starts_at = IF from = None THEN old.starts_at ELSE from,
                                !.ends_at = IF to = None THEN old.ends_at ELSE to]
        OBVIOUS
      <3>5. new \in SilencePayload(i) BY <3>4 DEF SilencePayload, OptionalTimes
      <3>6. rows[i].payload = old BY <3>3 DEF silence_row
      <3>7. Read(InvalidInput) \/ UPDATE("silences", i, silence_row(new), Ok(new))
        BY <1>3, <2>2, <3>1, <3>4, <3>6 DEF update_silence_rule
      <3> QED BY <1>1, <3>5, <3>7, SingleFits, PutRowKeeps, ReadsKeep
    <2> QED BY <2>1, <2>2
  <1>4. ASSUME NEW f \in Filters, list_silence_rules(f) PROVE StorageInv'
    BY <1>4, ReadsKeep DEF list_silence_rules
  <1>5. ASSUME NEW i \in Ids, get_silence_rule(i) PROVE StorageInv'
    BY <1>5, ReadsKeep DEF get_silence_rule
  <1>6. ASSUME NEW t \in Ids, list_active_silences_for_target(t) PROVE StorageInv'
    BY <1>6, ReadsKeep DEF list_active_silences_for_target
  <1>7. ASSUME NEW i \in Ids, delete_silence_rule(i) PROVE StorageInv'
    BY <1>1, <1>7, DeleteKeeps DEF delete_silence_rule
  <1> QED BY <1>2, <1>3, <1>4, <1>5, <1>6, <1>7 DEF SilenceCalls

LEMMA VariableKeeps ==
    ASSUME StorageInv, VariableCalls
    PROVE  StorageInv'
  <1>1. "variables" \in Tables BY DEF Tables
  <1>2. ASSUME NEW v \in Variables, create_variable(v) \/ update_variable(v) PROVE StorageInv'
    BY <1>1, <1>2, SingleFits, PutRowKeeps, ReadsKeep DEF create_variable, update_variable
  <1>3. ASSUME list_variables PROVE StorageInv'
    BY <1>3, ReadsKeep DEF list_variables
  <1>4. ASSUME NEW i \in Ids, delete_variable(i) PROVE StorageInv'
    BY <1>1, <1>4, DeleteKeeps DEF delete_variable
  <1> QED BY <1>2, <1>3, <1>4 DEF VariableCalls

LEMMA PostmortemKeeps ==
    ASSUME StorageInv, PostmortemCalls
    PROVE  StorageInv'
  <1>1. "postmortems" \in Tables /\ clock \in Times BY DEF Tables, StorageInv
  <1>2. PICK rows : rows = duck.postmortems OBVIOUS
  <1>3. PostmortemRows(rows) BY <1>2 DEF StorageInv, RowsAgree
  <1>4. ASSUME NEW i \in Ids, NEW body \in {1, 2}, upsert_postmortem(i, body) PROVE StorageInv'
    <2>1. PICK new : new = [id |-> i, body |-> body, updated_at |-> clock,
                created_at |-> IF i \in DOMAIN rows THEN rows[i].created_at ELSE clock,
                published_at |-> IF i \in DOMAIN rows THEN rows[i].published_at ELSE None]
      OBVIOUS
    <2>2. new \in PostmortemPayload(i)
      BY <1>1, <1>3, <2>1 DEF PostmortemRows, PostmortemPayload, OptionalTimes
    <2>3. REPLACE_INTO("postmortems", i, new, Ok(new))
      BY <1>2, <1>4, <2>1 DEF upsert_postmortem, Has
    <2> QED BY <1>1, <2>2, <2>3, SingleFits, PutRowKeeps
  <1>5. ASSUME NEW i \in Ids, NEW at \in OptionalTimes, SetPublished(i, at) PROVE StorageInv'
    <2>1. CASE ~Has("postmortems", i) BY <1>5, <2>1, ReadsKeep DEF SetPublished
    <2>2. CASE Has("postmortems", i)
      <3>1. PICK new : new = [rows[i] EXCEPT !.published_at = at, !.updated_at = clock] OBVIOUS
      <3>2. new \in PostmortemPayload(i)
        <4>1. PICK old : old = rows[i] OBVIOUS
        <4>2. old \in PostmortemPayload(i)
          BY <1>2, <1>3, <2>2, <4>1 DEF PostmortemRows, PostmortemPayload, Has
        <4>3. new = [old EXCEPT !.published_at = at, !.updated_at = clock] BY <3>1, <4>1
        <4> QED BY <1>1, <4>2, <4>3 DEF PostmortemPayload
      <3>3. UPDATE("postmortems", i, new, Ok(new)) BY <1>2, <1>5, <2>2, <3>1 DEF SetPublished
      <3> QED BY <1>1, <3>2, <3>3, SingleFits, PutRowKeeps
    <2> QED BY <2>1, <2>2
  <1>6. ASSUME NEW i \in Ids, publish_postmortem(i) \/ unpublish_postmortem(i) PROVE StorageInv'
    BY <1>1, <1>5, <1>6 DEF publish_postmortem, unpublish_postmortem, OptionalTimes
  <1>7. ASSUME NEW i \in Ids, get_postmortem(i) PROVE StorageInv'
    BY <1>7, ReadsKeep DEF get_postmortem
  <1>8. ASSUME NEW i \in Ids, delete_postmortem(i) PROVE StorageInv'
    BY <1>1, <1>8, DeleteKeeps DEF delete_postmortem
  <1> QED BY <1>4, <1>6, <1>7, <1>8 DEF PostmortemCalls

\* The two halves of a method.
LEMMA BeginKeeps ==
    ASSUME StorageInv, NEW c \in Clients, NEW p, Pending(p), inflight' = [inflight EXCEPT ![c] = p],
           UNCHANGED <<duck, clock>>
    PROVE  StorageInv'
  <1>1. PICK calls : calls = inflight' OBVIOUS
  <1>2. DOMAIN calls = Clients /\ \A d \in Clients : calls[d] = IF d = c THEN p ELSE inflight[d]
    BY <1>1 DEF StorageInv
  <1>3. \A d \in Clients : calls[d] # None => Pending(calls[d])
    BY <1>2 DEF StorageInv, CallsAgree
  <1>4. CallsAgree' /\ DOMAIN inflight' = Clients BY <1>1, <1>2, <1>3 DEF CallsAgree
  <1> QED BY <1>4 DEF StorageInv

LEMMA FinishKeeps ==
    ASSUME StorageInv, NEW c \in Clients, NEW table \in Tables, NEW rows, NEW answer,
           Fits(table, rows), Finish(c, table, rows, answer)
    PROVE  StorageInv'
  <1>1. inflight' = [inflight EXCEPT ![c] = None] /\ Put(table, rows, answer) BY DEF Finish
  <1>2. PICK calls : calls = inflight' OBVIOUS
  <1>3. DOMAIN calls = Clients /\ \A d \in Clients : calls[d] = IF d = c THEN None ELSE inflight[d]
    BY <1>1, <1>2 DEF StorageInv
  <1>4. \A d \in Clients : calls[d] # None => Pending(calls[d])
    BY <1>3 DEF StorageInv, CallsAgree
  <1>5. CallsAgree' /\ DOMAIN inflight' = Clients BY <1>2, <1>3, <1>4 DEF CallsAgree
  <1> QED BY <1>1, <1>5, PutKeeps

\* A second half that leaves its table alone, and one that puts a row.
LEMMA FinishStill ==
    ASSUME StorageInv, NEW c \in Clients, NEW table \in Tables, NEW answer,
           Finish(c, table, duck[table], answer)
    PROVE  StorageInv'
  <1>1. PICK rows : rows = duck[table] OBVIOUS
  <1>2. Fits(table, rows) BY <1>1, InvIsFit
  <1> QED BY <1>1, <1>2, FinishKeeps

LEMMA FinishPut ==
    ASSUME StorageInv, NEW c \in Clients, NEW table \in Tables, NEW k, NEW row, NEW answer,
           Fits(table, Single(k, row)), Finish(c, table, With(duck[table], k, row), answer)
    PROVE  StorageInv'
  <1>1. PICK rows : rows = With(duck[table], k, row) OBVIOUS
  <1>2. Fits(table, duck[table]) BY InvIsFit
  <1>3. Fits(table, rows) BY <1>1, <1>2, WithFits
  <1> QED BY <1>1, <1>3, FinishKeeps

\* Check results: a recorded one lies at or before the clock.
LEMMA ResultKeeps ==
    ASSUME StorageInv, ResultCalls
    PROVE  StorageInv'
  <1>1. "results" \in Tables /\ "targets" \in Tables BY DEF Tables
  <1>2. clock \in Nat /\ 0..clock \in SUBSET Times
    BY StorageAssumption DEF StorageInv, Times
  <1>3. ASSUME NEW t \in Ids, NEW ts \in 0..clock, NEW s \in Statuses, record_result(t, ts, s)
        PROVE  StorageInv'
    <2>1. PICK k : k = <<t, ts>> OBVIOUS
    <2>2. PICK row : row = [target |-> t, ts |-> ts, status |-> s] OBVIOUS
    <2>3. k[1] = t /\ k[2] = ts /\ k \in Ids \X Times /\ k[2] <= clock BY <1>2, <2>1
    <2>4. row \in [target : {k[1]}, ts : {k[2]}, status : Statuses] BY <2>2, <2>3
    <2>5. REPLACE_INTO("results", k, row, Ok(None)) BY <1>3, <2>1, <2>2 DEF record_result
    <2> QED BY <1>1, <2>3, <2>4, <2>5, SingleFits, PutRowKeeps
  <1>4. ASSUME NEW before \in Times, delete_old_check_results(before) PROVE StorageInv'
    <2>1. PICK rows : rows = duck.results OBVIOUS
    <2>2. PICK S : S = {k \in DOMAIN rows : ~(rows[k].ts < before)} OBVIOUS
    <2>3. Without(rows, LAMBDA r : r.ts < before) = Restrict(rows, S)
      BY <2>2, Zenon DEF Without, RestrictValues
    <2>4. \E answer : Write("results", Restrict(rows, S), answer)
      BY <1>4, <2>1, <2>3, Zenon DEF delete_old_check_results, DELETE_COUNT
    <2> QED BY <1>1, <2>1, <2>2, <2>4, DropKeeps
  <1>5. ASSUME NEW c \in Clients, dashboard_summary_begin(c) PROVE StorageInv'
    <2>1. PICK row : row = [t \in DOMAIN duck.targets |-> duck.targets[t].payload] OBVIOUS
    <2>2. PICK p : p = [call |-> <<"dashboard_summary">>, row |-> row] OBVIOUS
    <2>3. inflight' = [inflight EXCEPT ![c] = p] /\ UNCHANGED <<duck, clock>>
      BY <1>5, <2>1, <2>2 DEF dashboard_summary_begin, Begin
    <2>4. Pending(p) BY <2>2 DEF Pending
    <2> QED BY <2>3, <2>4, BeginKeeps
  <1>6. ASSUME NEW c \in Clients, dashboard_summary_finish(c) PROVE StorageInv'
    <2>1. \E answer : Finish(c, "targets", duck.targets, answer)
      BY <1>6, Zenon DEF dashboard_summary_finish
    <2> QED BY <1>1, <2>1, FinishStill
  <1>7. ASSUME NEW t \in Ids, NEW on \in BOOLEAN, update_target(t, on) PROVE StorageInv'
    BY <1>7, TargetKeeps DEF TargetCalls
  <1>8. ASSUME NEW n, list_recent_results(n) PROVE StorageInv'
    BY <1>8, ReadsKeep DEF list_recent_results
  <1>9. ASSUME NEW t, NEW n, list_results(t, n) PROVE StorageInv'
    BY <1>9, ReadsKeep DEF list_results
  <1>10. ASSUME NEW ts, NEW n, recent_results_for_targets(ts, n) PROVE StorageInv'
    BY <1>10, ReadsKeep DEF recent_results_for_targets
  <1>11. ASSUME NEW t, NEW from, NEW to, uptime(t, from, to) PROVE StorageInv'
    BY <1>11, ReadsKeep DEF uptime
  <1>12. ASSUME NEW t, NEW from, NEW to, component_day_history(t, from, to) PROVE StorageInv'
    BY <1>12, ReadsKeep DEF component_day_history
  <1>13. ASSUME NEW t, NEW from, NEW to, NEW n, latency_buckets(t, from, to, n) PROVE StorageInv'
    BY <1>13, ReadsKeep, Zenon DEF latency_buckets
  <1>14. ASSUME dashboard_rollup PROVE StorageInv'
    BY <1>14, ReadsKeep DEF dashboard_rollup
  <1> QED
    BY <1>3, <1>4, <1>5, <1>6, <1>7, <1>8, <1>9, <1>10, <1>11, <1>12, <1>13, <1>14
    DEF ResultCalls

\* Incidents: a patch leaves an incident an incident.
LEMMA IncidentKeeps ==
    ASSUME StorageInv, IncidentCalls
    PROVE  StorageInv'
  <1>1. "incidents" \in Tables /\ clock \in Times BY DEF Tables, StorageInv
  <1>2. PICK rows : rows = duck.incidents OBVIOUS
  <1>3. IncidentRows(rows) BY <1>2 DEF StorageInv, RowsAgree
  <1>4. ASSUME NEW i \in DOMAIN rows
        PROVE  \E old \in IncidentPayload(i) : rows[i].payload = old /\ i \in Ids
    BY <1>3 DEF IncidentRows, incident_row
  <1>5. ASSUME NEW i \in Ids, NEW t \in Ids, create_incident(i, t) PROVE StorageInv'
    <2>1. PICK new : new = [id |-> i, target |-> t, started_at |-> clock, ended_at |-> None,
                            severity |-> "minor", notes |-> 0]
      OBVIOUS
    <2>2. new \in IncidentPayload(i) BY <1>1, <2>1 DEF IncidentPayload, OptionalTimes
    <2>3. INSERT("incidents", i, incident_row(new), Ok(new)) BY <1>5, <2>1 DEF create_incident
    <2> QED BY <1>1, <2>2, <2>3, SingleFits, PutRowKeeps
  <1>6. ASSUME NEW i \in Ids, NEW sev \in {"minor", "major"}, NEW e \in OptionalTimes,
               update_incident(i, sev, e)
        PROVE  StorageInv'
    <2>1. CASE ~Has("incidents", i) BY <1>6, <2>1, ReadsKeep DEF update_incident
    <2>2. CASE Has("incidents", i)
      <3>1. PICK old \in IncidentPayload(i) : rows[i].payload = old
        BY <1>2, <1>4, <2>2 DEF Has
      <3>2. PICK new : new = [old EXCEPT !.severity = sev, !.ended_at = e] OBVIOUS
      <3>3. new \in IncidentPayload(i) BY <3>2 DEF IncidentPayload
      <3>4. UPDATE("incidents", i, incident_row(new), Ok(new))
        BY <1>2, <1>6, <2>2, <3>1, <3>2 DEF update_incident
      <3> QED BY <1>1, <3>3, <3>4, SingleFits, PutRowKeeps
    <2> QED BY <2>1, <2>2
  <1>7. ASSUME NEW i \in Ids, NEW tr \in Transitions, NEW sev \in {None, "major"},
               NEW note \in BOOLEAN, apply_incident_ops(i, tr, sev, note)
        PROVE  StorageInv'
    <2>1. CASE ~Has("incidents", i) BY <1>7, <2>1, ReadsKeep DEF apply_incident_ops
    <2>2. CASE Has("incidents", i)
      <3>1. PICK old \in IncidentPayload(i) : rows[i].payload = old
        BY <1>2, <1>4, <2>2 DEF Has
      <3>2. PICK new : new = patched(old, tr, sev, note, clock) OBVIOUS
      <3>3. new \in IncidentPayload(i)
        <4>1. PICK now : now = clock OBVIOUS
        <4>2. PICK state : state = IF tr = None THEN None ELSE next_state(old.ended_at, tr) OBVIOUS
        <4>3. PICK ended : ended = CASE state = "resolved" -> now
                                     [] state = "triggered" -> None
                                     [] OTHER -> old.ended_at
          OBVIOUS
        <4>4. ended \in {now, None, old.ended_at} BY <4>3, Zenon
        <4>5. PICK level, notes : /\ level = IF sev = None THEN old.severity ELSE sev
                                  /\ notes = IF note THEN old.notes + 1 ELSE old.notes
          OBVIOUS
        <4>6. new = [old EXCEPT !.ended_at = ended, !.severity = level, !.notes = notes]
          BY <3>2, <4>1, <4>2, <4>3, <4>5, Zenon DEF patched
        <4>7. level \in {"minor", "major"} /\ notes \in Nat BY <4>5 DEF IncidentPayload
        <4>8. ended \in OptionalTimes
          BY <1>1, <4>1, <4>4 DEF IncidentPayload, OptionalTimes
        <4> QED BY <4>6, <4>7, <4>8 DEF IncidentPayload
      <3>4. \/ Read(InvalidInput) \/ Read(Conflict)
            \/ UPDATE("incidents", i, incident_row(new), Ok(new))
        BY <1>2, <1>7, <2>2, <3>1, <3>2, Zenon DEF apply_incident_ops
      <3> QED BY <1>1, <3>3, <3>4, SingleFits, PutRowKeeps, ReadsKeep
    <2> QED BY <2>1, <2>2
  <1>8. ASSUME list_incidents PROVE StorageInv'
    BY <1>8, ReadsKeep DEF list_incidents
  <1>9. ASSUME NEW i \in Ids, get_incident(i) PROVE StorageInv'
    BY <1>9, ReadsKeep DEF get_incident
  <1>10. ASSUME NEW t \in Ids, find_open_incident_for_target(t) PROVE StorageInv'
    BY <1>10, ReadsKeep DEF find_open_incident_for_target
  <1>11. ASSUME NEW w, incident_metrics(w) PROVE StorageInv'
    BY <1>11, ReadsKeep DEF incident_metrics
  <1> QED BY <1>5, <1>6, <1>7, <1>8, <1>9, <1>10, <1>11 DEF IncidentCalls

\* Two-step methods: what was read still has its shape when it is written.
LEMMA NoteKeeps ==
    ASSUME StorageInv, NoteCalls
    PROVE  StorageInv'
  <1>1. "incidents" \in Tables BY DEF Tables
  <1>2. ASSUME NEW c \in Clients, NEW i \in Ids, add_incident_update_begin(c, i)
        PROVE  StorageInv'
    <2>1. PICK rows : rows = duck.incidents OBVIOUS
    <2>2. IncidentRows(rows) BY <2>1 DEF StorageInv, RowsAgree
    <2>3. CASE i \notin DOMAIN rows
      BY <1>2, <2>1, <2>3, ReadsKeep DEF add_incident_update_begin, Begin, Has
    <2>4. CASE i \in DOMAIN rows
      <3>1. PICK row \in IncidentPayload(i) : rows[i] = incident_row(row)
        BY <2>2, <2>4 DEF IncidentRows
      <3>2. rows[i].payload = row BY <3>1 DEF incident_row
      <3>3. PICK p : p = [call |-> <<"add_incident_update", i>>, row |-> row] OBVIOUS
      <3>4. inflight' = [inflight EXCEPT ![c] = p] /\ UNCHANGED <<duck, clock>>
        BY <1>2, <2>1, <2>4, <3>2, <3>3 DEF add_incident_update_begin, Begin, Has
      <3>5. Pending(p) BY <3>3 DEF Pending
      <3> QED BY <3>4, <3>5, BeginKeeps
    <2> QED BY <2>3, <2>4
  <1>3. ASSUME NEW c \in Clients, add_incident_update_finish(c) PROVE StorageInv'
    <2>1. PICK p : p = inflight[c] OBVIOUS
    <2>2. p # None /\ p.call[1] = "add_incident_update" /\ Pending(p)
      BY <1>3, <2>1 DEF add_incident_update_finish, Resumes, StorageInv, CallsAgree
    <2>3. PICK i \in Ids : p.row \in IncidentPayload(i) BY <2>2 DEF Pending
    <2>4. PICK new : new = [p.row EXCEPT !.notes = p.row.notes + 1] OBVIOUS
    <2>5. new \in IncidentPayload(i) /\ new.id = i
      <3>1. PICK old \in IncidentPayload(i) : old = p.row BY <2>3
      <3>2. new = [old EXCEPT !.notes = old.notes + 1] BY <2>4, <3>1
      <3> QED BY <3>2 DEF IncidentPayload
    <2>6. \/ Finish(c, "incidents", With(duck.incidents, i, incident_row(new)), Ok(new))
          \/ Finish(c, "incidents", duck.incidents, NotFound)
      BY <1>3, <2>1, <2>4, <2>5 DEF add_incident_update_finish
    <2>7. Fits("incidents", Single(i, incident_row(new))) BY <2>5, SingleFits
    <2> QED BY <1>1, <2>6, <2>7, FinishPut, FinishStill
  <1> QED BY <1>2, <1>3 DEF NoteCalls

LEMMA UserKeeps ==
    ASSUME StorageInv, UserCalls
    PROVE  StorageInv'
  <1>1. "users" \in Tables /\ clock \in Times BY DEF Tables, StorageInv
  <1>2. PICK rows : rows = duck.users OBVIOUS
  <1>3. UserRows(rows) BY <1>2 DEF StorageInv, RowsAgree
  <1>4. ASSUME NEW i \in Ids, NEW email \in Ids, create_user(i, email) PROVE StorageInv'
    <2>1. PICK new : new = [id |-> i, email |-> email, name |-> None, theme |-> 0,
                            last_seen_at |-> None]
      OBVIOUS
    <2>2. new \in UserPayload(i)
      BY <2>1 DEF UserPayload, OptionalTimes
    <2>3. Read(Conflict) \/ INSERT("users", i, new, Ok(new)) BY <1>4, <2>1 DEF create_user
    <2> QED BY <1>1, <2>2, <2>3, SingleFits, PutRowKeeps, ReadsKeep
  <1>5. ASSUME NEW i \in Ids, touch_user(i) PROVE StorageInv'
    <2>1. CASE ~Has("users", i) BY <1>5, <2>1, ReadsKeep DEF touch_user
    <2>2. CASE Has("users", i)
      <3>1. PICK old : old = rows[i] OBVIOUS
      <3>2. old \in UserPayload(i)
        BY <1>2, <1>3, <2>2, <3>1 DEF UserRows, Has
      <3>3. PICK new : new = [old EXCEPT !.last_seen_at = clock] OBVIOUS
      <3>4. new \in UserPayload(i)
        BY <1>1, <3>2, <3>3 DEF UserPayload, OptionalTimes
      <3>5. UPDATE("users", i, new, Ok(None)) BY <1>2, <1>5, <2>2, <3>1, <3>3 DEF touch_user
      <3> QED BY <1>1, <3>4, <3>5, SingleFits, PutRowKeeps
    <2> QED BY <2>1, <2>2
  <1>6. ASSUME NEW c \in Clients, NEW i \in Ids, NEW patch \in UserPatches,
               update_user_begin(c, i, patch[1], patch[2])
        PROVE  StorageInv'
    <2>1. CASE i \notin DOMAIN rows
      BY <1>2, <1>6, <2>1, ReadsKeep DEF update_user_begin, Begin, Has
    <2>2. CASE i \in DOMAIN rows
      <3>1. PICK row \in UserPayload(i) : row = rows[i] BY <1>3, <2>2 DEF UserRows
      <3>2. PICK p : p = [call |-> <<"update_user", i, patch[1], patch[2]>>, row |-> row] OBVIOUS
      <3>3. inflight' = [inflight EXCEPT ![c] = p] /\ UNCHANGED <<duck, clock>>
        BY <1>2, <1>6, <2>2, <3>1, <3>2 DEF update_user_begin, Begin, Has
      <3>4. Pending(p) BY <3>2 DEF Pending
      <3> QED BY <3>3, <3>4, BeginKeeps
    <2> QED BY <2>1, <2>2
  <1>7. ASSUME NEW c \in Clients, update_user_finish(c) PROVE StorageInv'
    <2>1. PICK p : p = inflight[c] OBVIOUS
    <2>2. p # None /\ p.call[1] = "update_user" /\ Pending(p)
      BY <1>7, <2>1 DEF update_user_finish, Resumes, StorageInv, CallsAgree
    <2>3. PICK i \in Ids, patch \in UserPatches :
            p.call = <<"update_user", i, patch[1], patch[2]>> /\ p.row \in UserPayload(i)
      BY <2>2 DEF Pending
    <2>4. PICK read \in UserPayload(i) : read = p.row BY <2>3
    <2>5. PICK name, theme : /\ name = IF patch[1] = None THEN read.name ELSE patch[1]
                             /\ theme = IF patch[2] = None THEN read.theme ELSE patch[2]
      OBVIOUS
    <2>6. PICK new : new = [read EXCEPT !.name = name, !.theme = theme] OBVIOUS
    <2>7. /\ name \in {None, 1} /\ theme \in {0, 1}
          /\ new.name = name /\ new.theme = theme
      <3>1. (patch[1] = None \/ patch[1] = 1) /\ (patch[2] = None \/ patch[2] = 1)
        BY DEF UserPatches
      <3> QED BY <2>5, <2>6, <3>1 DEF UserPayload
    <2>8. CASE i \notin DOMAIN rows
      <3>1. Finish(c, "users", duck.users, NotFound)
        BY <1>2, <1>7, <2>1, <2>3, <2>8 DEF update_user_finish, Has
      <3> QED BY <1>1, <3>1, FinishStill
    <2>9. CASE i \in DOMAIN rows
      <3>1. PICK old \in UserPayload(i) : old = rows[i] BY <1>3, <2>9 DEF UserRows
      <3>2. PICK row : row = [old EXCEPT !.name = name, !.theme = theme] OBVIOUS
      <3>3. row \in UserPayload(i) BY <2>7, <3>2 DEF UserPayload
      <3>4. Finish(c, "users", With(duck.users, i, row), Ok(new))
        BY <1>2, <1>7, <2>1, <2>3, <2>4, <2>5, <2>6, <2>7, <2>9, <3>1, <3>2 DEF update_user_finish, Has
      <3>5. Fits("users", Single(i, row)) BY <3>3, SingleFits
      <3> QED BY <1>1, <3>4, <3>5, FinishPut
    <2> QED BY <2>8, <2>9
  <1>8. ASSUME NEW i, get_user(i) PROVE StorageInv'
    BY <1>8, ReadsKeep DEF get_user
  <1>9. ASSUME NEW email, find_user_by_email(email) PROVE StorageInv'
    BY <1>9, ReadsKeep DEF find_user_by_email
  <1>10. ASSUME count_users PROVE StorageInv'
    BY <1>10, ReadsKeep DEF count_users
  <1> QED BY <1>4, <1>5, <1>6, <1>7, <1>8, <1>9, <1>10 DEF UserCalls

\* Methods that write a second table, of any shape, in the same transaction.
LEMMA TwoTables ==
    ASSUME StorageInv, NEW table \in Tables, NEW rows, Fits(table, rows),
           NEW other \in Loose, NEW loose, duck' = [duck EXCEPT ![table] = rows, ![other] = loose],
           UNCHANGED <<clock, inflight>>
    PROVE  StorageInv'
  <1>1. /\ DOMAIN duck = Tables /\ clock \in Times /\ DOMAIN inflight = Clients
        /\ \A t \in Tables : Fits(t, duck[t])
    BY InvIsFit
  <1>2. PICK new : new = duck' OBVIOUS
  <1>3. DOMAIN new = Tables BY <1>1, <1>2
  <1>4. \A t \in Tables : new[t] = IF t = other THEN loose ELSE IF t = table THEN rows ELSE duck[t]
    BY <1>1, <1>2
  <1>5. \A t \in Tables : Fits(t, new[t])
    <2>1. Fits(other, loose) BY LooseFits
    <2> QED BY <1>1, <1>4, <2>1
  <1>6. RowsAgree(new) /\ ResultsPast(new.results, clock)
    <2>1. {"targets", "incidents", "pages", "components", "windows", "silences", "channels",
           "variables", "postmortems", "users", "results"} \in SUBSET Tables
      BY DEF Tables
    <2> QED BY <1>3, <1>5, <2>1 DEF RowsAgree, Fits
  <1>7. CallsAgree' BY DEF StorageInv, CallsAgree
  <1> QED BY <1>1, <1>2, <1>6, <1>7 DEF StorageInv

\* Channels: the halves of the methods that read, and then write, a channel.
LEMMA ChannelBegins ==
    ASSUME StorageInv, NEW c \in Clients, NEW i \in Ids, NEW asked,
           \A row \in ChannelPayload(i) : Pending([call |-> asked, row |-> row]),
           ReadChannel(c, asked, i)
    PROVE  StorageInv'
  <1>1. PICK rows : rows = duck.channels OBVIOUS
  <1>2. ChannelRows(rows) BY <1>1 DEF StorageInv, RowsAgree
  <1>3. CASE i \notin DOMAIN rows BY <1>1, <1>3, ReadsKeep DEF ReadChannel, Begin, Has
  <1>4. CASE i \in DOMAIN rows
    <2>1. PICK row \in ChannelPayload(i) : rows[i].payload = row BY <1>2, <1>4 DEF ChannelRows
    <2>2. PICK p : p = [call |-> asked, row |-> row] OBVIOUS
    <2>3. inflight' = [inflight EXCEPT ![c] = p] /\ UNCHANGED <<duck, clock>>
      BY <1>1, <1>4, <2>1, <2>2 DEF ReadChannel, Begin, Has
    <2> QED BY <2>2, <2>3, BeginKeeps
  <1> QED BY <1>3, <1>4

LEMMA ChannelFinishes ==
    ASSUME StorageInv, NEW c \in Clients, NEW i \in Ids, NEW p \in ChannelPayload(i),
           NEW row, NEW sealed \in BOOLEAN, NEW enabled \in BOOLEAN, NEW answer, NEW gone,
           row = [payload |-> p, sealed |-> sealed, enabled |-> enabled,
                  created_at |-> p.created_at],
           WriteChannel(c, row, answer, gone)
    PROVE  StorageInv'
  <1>1. "channels" \in Tables BY DEF Tables
  <1>2. row.payload.id = i BY DEF ChannelPayload
  <1>3. \/ Finish(c, "channels", With(duck.channels, i, row), answer)
        \/ Finish(c, "channels", duck.channels, gone)
    BY <1>2 DEF WriteChannel
  <1>4. Fits("channels", Single(i, row)) BY SingleFits
  <1> QED BY <1>1, <1>3, <1>4, FinishPut, FinishStill

\* The row the two methods that leave the enabled column alone write.
LEMMA PlainPayloadFinishes ==
    ASSUME StorageInv, NEW c \in Clients, NEW i \in Ids, NEW new \in ChannelPayload(i),
           NEW answer, NEW gone, WriteChannel(c, PlainPayload(new), answer, gone)
    PROVE  StorageInv'
  <1>1. PICK rows : rows = duck.channels OBVIOUS
  <1>2. ChannelRows(rows) BY <1>1 DEF StorageInv, RowsAgree
  <1>3. PICK enabled : enabled = IF i \in DOMAIN rows THEN rows[i].enabled ELSE new.enabled OBVIOUS
  <1>4. enabled \in BOOLEAN
    <2>1. CASE i \in DOMAIN rows
      <3>1. PICK p \in ChannelPayload(i), sealed, on \in BOOLEAN :
              rows[i] = [payload |-> p, sealed |-> sealed, enabled |-> on,
                         created_at |-> p.created_at]
        BY <1>2, <2>1, Zenon DEF ChannelRows
      <3> QED BY <1>3, <2>1, <3>1
    <2>2. CASE i \notin DOMAIN rows BY <1>3, <2>2 DEF ChannelPayload
    <2> QED BY <2>1, <2>2
  <1>5. PICK row : row = PlainPayload(new) OBVIOUS
  <1>6. row = [payload |-> new, sealed |-> FALSE, enabled |-> enabled,
               created_at |-> new.created_at]
    <2>1. new.id = i BY DEF ChannelPayload
    <2> QED BY <1>1, <1>3, <1>5, <2>1, Zenon DEF PlainPayload, Has
  <1> QED BY <1>4, <1>5, <1>6, ChannelFinishes

LEMMA ChannelMade ==
    ASSUME StorageInv, NEW i \in Ids, create_notification_channel(i)
    PROVE  StorageInv'
  <1>1. "channels" \in Tables /\ clock \in Times BY DEF Tables, StorageInv
  <1>2. PICK new : new = [id |-> i, config |-> 0, enabled |-> TRUE, disabled_reason |-> None,
                          verified_at |-> None, created_at |-> clock]
    OBVIOUS
  <1>3. new \in ChannelPayload(i) BY <1>1, <1>2 DEF ChannelPayload, OptionalTimes
  <1>4. PICK row : row = channel_row(new) OBVIOUS
  <1>5. row = [payload |-> new, sealed |-> TRUE, enabled |-> new.enabled,
               created_at |-> new.created_at]
    BY <1>4 DEF channel_row
  <1>6. INSERT("channels", i, row, Ok(new)) BY <1>2, <1>4 DEF create_notification_channel
  <1>7. Fits("channels", Single(i, row))
    <2>1. new.enabled \in BOOLEAN BY <1>2
    <2> QED BY <1>3, <1>5, <2>1, SingleFits
  <1> QED BY <1>1, <1>6, <1>7, PutRowKeeps

LEMMA ChannelGone ==
    ASSUME StorageInv, NEW i \in Ids, delete_notification_channel(i)
    PROVE  StorageInv'
  <1>1. CASE ~Has("channels", i) BY <1>1, ReadsKeep DEF delete_notification_channel
  <1>2. CASE Has("channels", i)
    <2>1. PICK rows, S : rows = duck.channels /\ S = DOMAIN rows \ {i} OBVIOUS
    <2>2. PICK left : left = Restrict(rows, S) OBVIOUS
    <2>3. PICK kept : kept = Restrict(duck.bindings, {k \in DOMAIN duck.bindings : k[2] # i})
      OBVIOUS
    <2>4. /\ duck' = [duck EXCEPT !.channels = left, !.bindings = kept]
          /\ UNCHANGED <<clock, inflight>>
      BY <1>2, <2>1, <2>2, <2>3 DEF delete_notification_channel
    <2>5. Fits("channels", left)
      <3>1. "channels" \in Tables BY DEF Tables
      <3>2. Fits("channels", rows) BY <2>1, <3>1, InvIsFit
      <3>3. S \in SUBSET DOMAIN rows BY <2>1
      <3> QED BY <2>2, <3>2, <3>3, RestrictFits
    <2> QED BY <2>4, <2>5, TwoTables DEF Loose, Tables
  <1> QED BY <1>1, <1>2

LEMMA ChannelKeeps ==
    ASSUME StorageInv, ChannelCalls
    PROVE  StorageInv'
  <1>1. clock \in Times BY DEF StorageInv
  <1>2. ASSUME NEW i \in Ids, create_notification_channel(i) PROVE StorageInv'
    BY <1>2, ChannelMade
  <1>3. ASSUME NEW c \in Clients, NEW i \in Ids, set_channel_verified_begin(c, i)
        PROVE  StorageInv'
    <2>1. \A row \in ChannelPayload(i) : Pending([call |-> <<"set_channel_verified", i>>, row |-> row])
      BY DEF Pending
    <2> QED BY <1>3, <2>1, ChannelBegins DEF set_channel_verified_begin
  <1>4. ASSUME NEW c \in Clients, NEW i \in Ids, set_channel_disabled_reason_begin(c, i, 1)
        PROVE  StorageInv'
    <2>1. PICK asked : asked = <<"set_channel_disabled_reason", i, 1>> OBVIOUS
    <2>2. \A row \in ChannelPayload(i) : Pending([call |-> asked, row |-> row])
      BY <2>1 DEF Pending
    <2> QED BY <1>4, <2>1, <2>2, ChannelBegins DEF set_channel_disabled_reason_begin
  <1>5. ASSUME NEW c \in Clients, NEW i \in Ids, NEW p \in ChannelPatches,
               update_notification_channel_begin(c, i, p[1], p[2])
        PROVE  StorageInv'
    <2>1. PICK asked : asked = <<"update_notification_channel", i, p[1], p[2]>> OBVIOUS
    <2>2. \A row \in ChannelPayload(i) : Pending([call |-> asked, row |-> row])
      BY <2>1 DEF Pending
    <2> QED BY <1>5, <2>1, <2>2, ChannelBegins DEF update_notification_channel_begin
  <1>6. ASSUME NEW c \in Clients, set_channel_verified_finish(c) PROVE StorageInv'
    <2>1. PICK p : p = inflight[c] OBVIOUS
    <2>2. p # None /\ p.call[1] = "set_channel_verified" /\ Pending(p)
      BY <1>6, <2>1 DEF set_channel_verified_finish, Resumes, StorageInv, CallsAgree
    <2>3. PICK i \in Ids : p.row \in ChannelPayload(i) BY <2>2 DEF Pending
    <2>4. PICK new : new = [p.row EXCEPT !.verified_at = clock] OBVIOUS
    <2>5. new \in ChannelPayload(i) BY <1>1, <2>3, <2>4 DEF ChannelPayload, OptionalTimes
    <2>6. WriteChannel(c, PlainPayload(new), Ok(None), Ok(None))
      BY <1>6, <2>1, <2>4 DEF set_channel_verified_finish
    <2> QED BY <2>5, <2>6, PlainPayloadFinishes
  <1>7. ASSUME NEW c \in Clients, set_channel_disabled_reason_finish(c) PROVE StorageInv'
    <2>1. PICK p : p = inflight[c] OBVIOUS
    <2>2. p # None /\ p.call[1] = "set_channel_disabled_reason" /\ Pending(p)
      BY <1>7, <2>1 DEF set_channel_disabled_reason_finish, Resumes, StorageInv, CallsAgree
    <2>3. PICK i \in Ids : p.row \in ChannelPayload(i) /\ p.call[3] = 1 BY <2>2 DEF Pending
    <2>4. PICK new : new = [p.row EXCEPT !.disabled_reason = 1] OBVIOUS
    <2>5. new \in ChannelPayload(i) BY <2>3, <2>4 DEF ChannelPayload
    <2>6. WriteChannel(c, PlainPayload(new), Ok(None), Ok(None))
      BY <1>7, <2>1, <2>3, <2>4 DEF set_channel_disabled_reason_finish
    <2> QED BY <2>5, <2>6, PlainPayloadFinishes
  <1>8. ASSUME NEW c \in Clients, update_notification_channel_finish(c) PROVE StorageInv'
    <2>1. PICK p : p = inflight[c] OBVIOUS
    <2>2. p # None /\ p.call[1] = "update_notification_channel" /\ Pending(p)
      BY <1>8, <2>1 DEF update_notification_channel_finish, Resumes, StorageInv, CallsAgree
    <2>3. PICK i \in Ids, patch \in ChannelPatches :
            /\ p.call = <<"update_notification_channel", i, patch[1], patch[2]>>
            /\ p.row \in ChannelPayload(i)
      BY <2>2 DEF Pending
    <2>4. PICK read \in ChannelPayload(i) : read = p.row BY <2>3
    <2>5. PICK config, on, reason :
            /\ config = IF patch[1] = None THEN read.config ELSE patch[1]
            /\ on = IF patch[2] = None THEN read.enabled ELSE patch[2]
            /\ reason = IF patch[2] = TRUE THEN None ELSE read.disabled_reason
      OBVIOUS
    <2>6. PICK new : new = [read EXCEPT !.config = config, !.enabled = on, !.disabled_reason = reason]
      OBVIOUS
    <2>7. config \in {0, 1} /\ on \in BOOLEAN /\ reason \in {None, 1}
      <3>1. /\ read.config \in {0, 1} /\ read.enabled \in BOOLEAN
            /\ read.disabled_reason \in {None, 1}
        BY DEF ChannelPayload
      <3>2. patch = <<1, None>> \/ patch = <<None, TRUE>> \/ patch = <<None, FALSE>>
        BY DEF ChannelPatches
      <3>3. /\ patch[1] = None \/ patch[1] = 1
            /\ patch[2] = None \/ patch[2] \in BOOLEAN
        <4>1. CASE patch = <<1, None>> BY <4>1
        <4>2. CASE patch = <<None, TRUE>> BY <4>2
        <4>3. CASE patch = <<None, FALSE>> BY <4>3
        <4> QED BY <3>2, <4>1, <4>2, <4>3
      <3>4. config \in {0, 1} BY <2>5, <3>1, <3>3
      <3>5. on \in BOOLEAN BY <2>5, <3>1, <3>3, Zenon
      <3>6. reason \in {None, 1} BY <2>5, <3>1, Zenon
      <3> QED BY <3>4, <3>5, <3>6
    <2>8. new \in ChannelPayload(i) BY <2>6, <2>7 DEF ChannelPayload
    <2>9. WriteChannel(c, channel_row(new), Ok(new), NotFound)
      BY <1>8, <2>1, <2>3, <2>4, <2>5, <2>6 DEF update_notification_channel_finish
    <2>10. PICK row : row = channel_row(new) OBVIOUS
    <2>11. new.enabled \in BOOLEAN BY <2>8 DEF ChannelPayload
    <2>12. row = [payload |-> new, sealed |-> TRUE, enabled |-> new.enabled,
                  created_at |-> new.created_at]
      BY <2>10 DEF channel_row
    <2> QED BY <2>8, <2>9, <2>10, <2>11, <2>12, ChannelFinishes
  <1>9. ASSUME list_notification_channels PROVE StorageInv'
    BY <1>9, ReadsKeep DEF list_notification_channels
  <1>10. ASSUME NEW i \in Ids, get_notification_channel(i) PROVE StorageInv'
    BY <1>10, ReadsKeep DEF get_notification_channel
  <1> QED
    BY <1>2, <1>3, <1>4, <1>5, <1>6, <1>7, <1>8, <1>9, <1>10, ChannelGone DEF ChannelCalls

LEMMA BindingKeeps ==
    ASSUME StorageInv, BindingCalls
    PROVE  StorageInv'
  <1>1. "bindings" \in Loose BY DEF Loose
  <1>2. ASSUME NEW t \in Ids, list_target_channels(t) PROVE StorageInv'
    BY <1>2, ReadsKeep DEF list_target_channels
  <1>3. ASSUME NEW c \in Ids, unbind_channel_everywhere(c) PROVE StorageInv'
    BY <1>1, <1>3, LooseKeep DEF unbind_channel_everywhere
  <1>4. ASSUME NEW t \in Ids, NEW c \in Ids, bind_target_channel(t, c) PROVE StorageInv'
    BY <1>1, <1>4, ReadsKeep, LooseKeep DEF bind_target_channel
  <1>5. ASSUME NEW t \in Ids, NEW c \in Ids, unbind_target_channel(t, c) PROVE StorageInv'
    BY <1>1, <1>5, LooseKeep DEF unbind_target_channel
  <1> QED BY <1>2, <1>3, <1>4, <1>5, ChannelMade, ChannelGone DEF BindingCalls

LEMMA OnCallKeeps ==
    ASSUME StorageInv, OnCallCalls
    PROVE  StorageInv'
  <1>1. "schedules" \in Loose /\ "overrides" \in Loose /\ "schedules" \in Tables
    BY DEF Loose, Tables
  <1>2. ASSUME NEW i \in Ids, delete_on_call_schedule(i) PROVE StorageInv'
    <2>1. CASE ~Has("schedules", i) BY <1>2, <2>1, ReadsKeep DEF delete_on_call_schedule
    <2>2. CASE Has("schedules", i)
      <3>1. PICK left, over : /\ left = Restrict(duck.schedules, DOMAIN duck.schedules \ {i})
                              /\ over = Without(duck.overrides, LAMBDA o : o.schedule = i)
        OBVIOUS
      <3>2. /\ duck' = [duck EXCEPT !.schedules = left, !.overrides = over]
            /\ UNCHANGED <<clock, inflight>>
        BY <1>2, <2>2, <3>1, Zenon DEF delete_on_call_schedule
      <3>3. Fits("schedules", left) BY <1>1, LooseFits
      <3> QED BY <1>1, <3>2, <3>3, TwoTables
    <2> QED BY <2>1, <2>2
  <1>3. ASSUME NEW c \in Clients, NEW i \in Ids, get_on_call_schedule_begin(c, i) PROVE StorageInv'
    <2>1. CASE i \notin DOMAIN duck.schedules
      BY <1>3, <2>1, ReadsKeep DEF get_on_call_schedule_begin, Begin, Has
    <2>2. CASE i \in DOMAIN duck.schedules
      <3>1. PICK p : p = [call |-> <<"get_on_call_schedule", i>>, row |-> duck.schedules[i]] OBVIOUS
      <3>2. inflight' = [inflight EXCEPT ![c] = p] /\ UNCHANGED <<duck, clock>>
        BY <1>3, <2>2, <3>1 DEF get_on_call_schedule_begin, Begin, Has
      <3>3. Pending(p) BY <3>1 DEF Pending
      <3> QED BY <3>2, <3>3, BeginKeeps
    <2> QED BY <2>1, <2>2
  <1>4. ASSUME NEW c \in Clients, get_on_call_schedule_finish(c) PROVE StorageInv'
    <2>1. \E answer : Finish(c, "schedules", duck.schedules, answer)
      BY <1>4, Zenon DEF get_on_call_schedule_finish
    <2> QED BY <1>1, <2>1, FinishStill
  <1>5. ASSUME NEW s \in Schedules, upsert_on_call_schedule(s) PROVE StorageInv'
    BY <1>1, <1>5, LooseKeep DEF upsert_on_call_schedule
  <1>6. ASSUME NEW i \in Ids, NEW s \in Ids, NEW from \in Times, create_on_call_override(i, s, from)
        PROVE  StorageInv'
    BY <1>1, <1>6, LooseKeep DEF create_on_call_override
  <1>7. ASSUME list_on_call_schedules PROVE StorageInv'
    BY <1>7, ReadsKeep DEF list_on_call_schedules
  <1>8. ASSUME NEW s \in Ids, list_on_call_overrides(s) PROVE StorageInv'
    BY <1>8, ReadsKeep DEF list_on_call_overrides
  <1>9. ASSUME NEW i \in Ids, delete_on_call_override(i) PROVE StorageInv'
    BY <1>1, <1>9, LooseKeep DEF delete_on_call_override
  <1> QED BY <1>2, <1>3, <1>4, <1>5, <1>6, <1>7, <1>8, <1>9 DEF OnCallCalls

\* The clock moves on: what was past stays past.
LEMMA TimeKeeps ==
    ASSUME StorageInv, TimePasses
    PROVE  StorageInv'
  <1>1. clock \in Nat /\ MaxClock \in Nat BY StorageAssumption DEF StorageInv, Times
  <1>2. clock' = clock + 1 /\ clock < MaxClock /\ UNCHANGED <<duck, inflight>> BY DEF TimePasses
  <1>3. clock' \in Times BY <1>1, <1>2 DEF Times
  <1>4. PICK rows : rows = duck.results OBVIOUS
  <1>5. ResultRows(rows) /\ ResultsPast(rows, clock) BY <1>4 DEF StorageInv, RowsAgree
  <1>6. \A k \in DOMAIN rows : k[2] \in Nat
    BY <1>5, StorageAssumption DEF ResultRows, Times
  <1>7. ResultsPast(rows, clock') BY <1>1, <1>2, <1>5, <1>6 DEF ResultsPast
  <1>8. CallsAgree' BY <1>2 DEF StorageInv, CallsAgree
  <1> QED BY <1>2, <1>3, <1>4, <1>7, <1>8 DEF StorageInv

\* The invariant is inductive, and holds at the start.
LEMMA StepKeeps ==
    ASSUME StorageInv, [DuckNext]_duckVars
    PROVE  StorageInv'
  <1>1. CASE UNCHANGED duckVars BY <1>1, StillKeeps DEF duckVars
  <1>2. CASE DuckNext
    BY <1>2, TargetKeeps, BeatKeeps, ResultKeeps, IncidentKeeps, NoteKeeps, PageKeeps,
       ComponentKeeps, AssetKeeps, WindowKeeps, SilenceKeeps, SubscriberKeeps, DeliveryKeeps,
       VariableKeeps, ChannelKeeps, BindingKeeps, TokenKeeps, UserKeeps, SessionKeeps,
       ApiTokenKeeps, LinkKeeps, EscalationKeeps, OnCallKeeps, PostmortemKeeps, ShareKeeps,
       TimeKeeps
    DEF DuckNext
  <1> QED BY <1>1, <1>2

LEMMA StartKeeps ==
    ASSUME DuckInit
    PROVE  StorageInv
  <1>1. PICK none : none = Empty OBVIOUS
  <1>2. DOMAIN none = {} BY <1>1 DEF Empty
  <1>3. \A table : Fits(table, none)
    BY <1>2 DEF Fits, TargetRows, IncidentRows, PageRows, ComponentRows, WindowRows, SilenceRows,
       ChannelRows, VariableRows, PostmortemRows, UserRows, ResultRows, ResultsPast
  <1>4. DOMAIN duck = Tables /\ \A table \in Tables : duck[table] = none BY <1>1 DEF DuckInit
  <1>5. clock \in Times BY StorageAssumption DEF DuckInit, Times
  <1>6. CallsAgree /\ DOMAIN inflight = Clients BY DEF DuckInit, CallsAgree
  <1> QED BY <1>3, <1>4, <1>5, <1>6, InvIsFit

----------------------------------------------------------------------------
(* The theorems.                                                           *)

\* What a query filters or sorts on agrees with the payload stored beside it
\* (duckdb.rs writes both in every INSERT and UPDATE but those of reorder and
\* of the two channel setters), a row is stored under the id it carries, what
\* a two-step method holds between its two locks has the shape of a row of
\* its table, and no check result lies in the future.
THEOREM RowsStayInShape == DuckSpec => []StorageInv
  <1>1. DuckInit => StorageInv BY StartKeeps
  <1>2. StorageInv /\ [DuckNext]_duckVars => StorageInv' BY StepKeeps
  <1> QED BY <1>1, <1>2, PTL DEF DuckSpec

\* Both backends start without a row.
LEMMA StartMirrored ==
    ASSUME DuckInit
    PROVE  Memory!MemInit
  <1>1. PICK none : none = Empty OBVIOUS
  <1>2. DOMAIN none = {} /\ none = [x \in {} |-> None] BY <1>1 DEF Empty
  <1>3. ASSUME NEW table \in Tables PROVE AsMap(table, none) = none
    <2>1. CASE table \in WithPayload
      <3>1. AsMap(table, none) = [k \in DOMAIN none |-> none[k].payload] BY <2>1, PayloadMap
      <3> QED BY <1>2, <3>1
    <2>2. CASE table = "components"
      <3>1. AsMap(table, none) = [k \in DOMAIN none |-> bound(none[k])] BY <2>2, ComponentMap
      <3> QED BY <1>2, <3>1
    <2>3. CASE table = "variables"
      <3>1. AsMap(table, none) = [k \in DOMAIN none |-> unstored(none[k])] BY <2>3, VariableMap
      <3> QED BY <1>2, <3>1
    <2>4. CASE table \notin WithPayload \cup {"components", "variables"}
      BY <2>4, Zenon DEF WithPayload, AsMap
    <2> QED BY <2>1, <2>2, <2>3, <2>4
  <1>4. \A table \in Tables : duck[table] = none BY <1>1 DEF DuckInit
  <1>5. Maps = [t \in Tables |-> none] BY <1>3, <1>4 DEF Maps
  <1> QED BY <1>1, <1>2, <1>5, SameResults
         DEF DuckInit, Memory!MemInit, Tables, Memory!Tables, Memory!Empty

\* Every call the DuckDB backend answers is a call the in-memory backend
\* would have answered the same way on the same data, leaving the same data
\* behind, but for the listed differences (duckdb.rs against memory.rs).
THEOREM DuckdbMirrorsMemory == DuckSpec => MirrorsMemory
  <1>1. StorageInv /\ [DuckNext]_duckVars => [Differs \/ Memory!MemNext]_refined
    <2>1. ASSUME StorageInv, UNCHANGED duckVars PROVE UNCHANGED refined
      BY <2>1 DEF duckVars, refined
    <2> QED BY <2>1, StepMirrored
  <1> QED BY <1>1, RowsStayInShape, PTL DEF DuckSpec, MirrorsMemory
=============================================================================
