--------------------------- MODULE FrontDoorProofs ---------------------------
(***************************************************************************)
(* Theorems of BulkRequests, Accounts and RateLimiter, for any number of   *)
(* requests, keys, addresses, sessions and links.  The components share no *)
(* state; each theorem is about one specification, and the last one about  *)
(* all of them and the public page.                                        *)
(***************************************************************************)
EXTENDS FrontDoor, PublicStatusProofs, FiniteSetTheorems, TLAPS

----------------------------------------------------------------------------
(* BULK REQUESTS                                                           *)

Results == {"ok", "storage_error"}
CallRecords == [pc : {"new", "queued", "items", "done"}, key : Keys, item : Nat, response : Seq(Results)]

BulkTypes ==
    /\ cache \in [Keys -> Seq(Results)]
    /\ holder \in [Keys -> SUBSET Calls]
    /\ call \in [Calls -> CallRecords]
    /\ created \in [Keys -> UNION {[DOMAIN Batch[k] -> Nat] : k \in Keys}]
    /\ \A k \in Keys : created[k] \in [DOMAIN Batch[k] -> Nat]
    /\ answers \in [Keys -> SUBSET Seq(Results)]
    /\ excused \subseteq Keys

(* A request walks its own body in order and has one result for each item  *)
(* behind it.                                                              *)
CursorInv ==
    \A c \in Calls :
        /\ call[c].item \in 1 .. Len(Batch[call[c].key]) + 1
        /\ Len(call[c].response) = call[c].item - 1
        /\ call[c].pc # "items" => call[c].item = 1

Working(c, k) == call[c].pc = "items" /\ call[c].key = k

(* The lock of a key is held by the request that works on its body, and by *)
(* no other; requests without a key hold none.                             *)
LockInv ==
    /\ holder[Headerless] = {}
    /\ \A k \in Keys \ {Headerless} :
          /\ \A c \in Calls : Working(c, k) => holder[k] = {c}
          /\ \A c \in holder[k] : Working(c, k)

(* Until its response is stored nobody has been answered; before a request *)
(* works on the body nothing is created, and while one does, nothing       *)
(* beyond its cursor.                                                      *)
RunsOnce(k) ==
    /\ \A i \in DOMAIN Batch[k] : created[k][i] <= 1
    /\ answers[k] \subseteq {cache[k]}
    /\ cache[k] = NoResponse => answers[k] = {}
    /\ holder[k] # {} => cache[k] = NoResponse
    /\ (cache[k] = NoResponse /\ holder[k] = {}) => \A i \in DOMAIN Batch[k] : created[k][i] = 0
    /\ \A c \in Calls : Working(c, k) =>
          \A i \in DOMAIN Batch[k] : i >= call[c].item => created[k][i] = 0

OnceInv == \A k \in Keys \ ({Headerless} \cup excused) : RunsOnce(k)

BulkIInv == BulkTypes /\ CursorInv /\ LockInv /\ OnceInv

\* What the bulk proofs use of the constants.
LEMMA BulkConstants ==
    /\ Headerless \in Keys
    /\ \A k \in Keys : /\ Batch[k] \in Seq(Nat)
                       /\ Len(Batch[k]) \in Nat \ {0}
                       /\ DOMAIN Batch[k] = 1 .. Len(Batch[k])
  <1> SUFFICES ASSUME NEW k \in Keys
               PROVE  /\ Len(Batch[k]) \in Nat \ {0}
                      /\ DOMAIN Batch[k] = 1 .. Len(Batch[k])
    BY BulkAssumption
  <1>1. Batch[k] \in Seq(Nat) /\ Len(Batch[k]) > 0
    BY BulkAssumption
  <1> QED
    BY <1>1

\* The states a request starts and ends in.
LEMMA FreshCalls ==
    /\ NewCall \in CallRecords /\ DoneCall \in CallRecords
    /\ NewCall.pc = "new" /\ NewCall.item = 1 /\ NewCall.response = <<>> /\ NewCall.key = Headerless
    /\ DoneCall.pc = "done" /\ DoneCall.item = 1 /\ DoneCall.response = <<>> /\ DoneCall.key = Headerless
<1>1. <<>> \in Seq(Results)
  OBVIOUS
<1>2. NewCall = [pc |-> "new", key |-> Headerless, item |-> 1, response |-> <<>>]
  BY DEF NewCall
<1>3. DoneCall = [pc |-> "done", key |-> Headerless, item |-> 1, response |-> <<>>]
  BY DEF NewCall, DoneCall
<1> QED
  BY <1>1, <1>2, <1>3, BulkConstants DEF CallRecords

LEMMA BulkInitial == BulkInit => BulkIInv
<1> SUFFICES ASSUME BulkInit PROVE BulkIInv
  OBVIOUS
<1>1. BulkTypes
  <2>1. \A k \in Keys : created[k] \in [DOMAIN Batch[k] -> Nat]
    BY DEF BulkInit
  <2>2. created \in [Keys -> UNION {[DOMAIN Batch[k] -> Nat] : k \in Keys}]
    BY <2>1 DEF BulkInit
  <2> QED
    BY <2>1, <2>2, FreshCalls DEF BulkInit, BulkTypes, NoResponse
<1>2. CursorInv
  BY BulkConstants, FreshCalls DEF BulkInit, CursorInv
<1>3. LockInv
  BY BulkConstants, FreshCalls DEF BulkInit, LockInv, Working
<1>4. OnceInv
  BY BulkConstants, FreshCalls DEF BulkInit, OnceInv, RunsOnce, Working, NoResponse
<1> QED
  BY <1>1, <1>2, <1>3, <1>4 DEF BulkIInv

\* What recording an answer does.
LEMMA AnswerFacts ==
    ASSUME BulkTypes, NEW k \in Keys, NEW r \in Seq(Results), Answer(k, r)
    PROVE  /\ answers' \in [Keys -> SUBSET Seq(Results)]
           /\ answers'[k] = answers[k] \cup {r}
           /\ \A j \in Keys \ {k} : answers'[j] = answers[j]
  BY DEF BulkTypes, Answer

\* What replacing one request's record does.
LEMMA CallFacts ==
    ASSUME BulkTypes, NEW c \in Calls, NEW r \in CallRecords, call' = [call EXCEPT ![c] = r]
    PROVE  /\ call' \in [Calls -> CallRecords]
           /\ call'[c] = r
           /\ \A d \in Calls \ {c} : call'[d] = call[d]
  BY DEF BulkTypes

\* A request that is answered from the cache leaves everything in place.
LEMMA AnsweredFromCache ==
    ASSUME BulkIInv, NEW c \in Calls, NEW k \in Keys, call[c].pc # "items",
           cache[k] # NoResponse, call' = [call EXCEPT ![c] = DoneCall], Answer(k, cache[k]),
           UNCHANGED <<cache, holder, created, excused>>
    PROVE  BulkIInv'
<1> USE BulkConstants, FreshCalls
<1>1. BulkTypes /\ cache[k] \in Seq(Results)
  BY DEF BulkIInv, BulkTypes
<1>2. /\ call' \in [Calls -> CallRecords]
      /\ call'[c] = DoneCall
      /\ \A d \in Calls \ {c} : call'[d] = call[d]
  BY <1>1, CallFacts
<1>3. /\ answers' \in [Keys -> SUBSET Seq(Results)]
      /\ answers'[k] = answers[k] \cup {cache[k]}
      /\ \A j \in Keys \ {k} : answers'[j] = answers[j]
  BY <1>1, AnswerFacts
<1>4. BulkTypes'
  BY <1>1, <1>2, <1>3 DEF BulkTypes
<1>5. CursorInv'
  BY <1>2 DEF BulkIInv, CursorInv
<1>6. \A d \in Calls, j \in Keys : Working(d, j)' <=> Working(d, j)
  BY <1>2 DEF Working
<1>7. LockInv'
  BY <1>1, <1>6 DEF BulkIInv, BulkTypes, LockInv
<1>8. OnceInv'
  BY <1>2, <1>3, <1>6 DEF BulkIInv, OnceInv, RunsOnce, Working
<1> QED
  BY <1>4, <1>5, <1>7, <1>8 DEF BulkIInv

LEMMA LookupStep ==
    ASSUME BulkIInv, NEW c \in Calls, NEW k \in Keys, Lookup(c, k)
    PROVE  BulkIInv'
<1> USE BulkConstants
<1>0. call[c] \in CallRecords /\ call[c].pc = "new" /\ UNCHANGED <<cache, holder, created, excused>>
  BY DEF BulkIInv, BulkTypes, Lookup
<1>1. CASE /\ cache[k] = NoResponse
           /\ call' = [call EXCEPT ![c] = [@ EXCEPT !.pc = "queued", !.key = k]]
           /\ UNCHANGED answers
  <2>0. call[c].item = 1 /\ Len(call[c].response) = 0
    BY <1>0 DEF BulkIInv, CursorInv
  <2>1. /\ call'[c] \in CallRecords /\ call'[c].pc = "queued" /\ call'[c].key = k
        /\ call'[c].item = 1 /\ call'[c].response = call[c].response
    BY <1>0, <2>0, <1>1 DEF CallRecords, BulkIInv, BulkTypes
  <2>2. \A d \in Calls \ {c} : call'[d] = call[d]
    BY <1>1 DEF BulkIInv, BulkTypes
  <2>3. BulkTypes'
    BY <1>0, <1>1, <2>1, <2>2 DEF BulkIInv, BulkTypes
  <2>4. CursorInv'
    BY <2>0, <2>1, <2>2 DEF BulkIInv, CursorInv
  <2>5. \A d \in Calls, j \in Keys : Working(d, j)' <=> Working(d, j)
    BY <1>0, <2>1, <2>2 DEF Working
  <2>6. LockInv'
    BY <1>0, <2>5 DEF BulkIInv, BulkTypes, LockInv
  <2>7. OnceInv'
    BY <1>0, <1>1, <2>1, <2>2, <2>5 DEF BulkIInv, OnceInv, RunsOnce, Working, NoResponse
  <2> QED
    BY <2>3, <2>4, <2>6, <2>7 DEF BulkIInv
<1> QED
  BY <1>0, <1>1, AnsweredFromCache DEF Lookup

LEMMA EnterStep ==
    ASSUME BulkIInv, NEW c \in Calls, Enter(c)
    PROVE  BulkIInv'
<1> USE BulkConstants
<1> DEFINE k == call[c].key
<1>0. /\ call[c] \in CallRecords /\ call[c].pc = "queued" /\ k \in Keys
      /\ UNCHANGED <<cache, created, excused>>
  BY DEF BulkIInv, BulkTypes, CallRecords, Enter
<1>1. CASE /\ cache[k] = NoResponse
           /\ call' = [call EXCEPT ![c].pc = "items"]
           /\ holder' = IF HasKey(k) THEN [holder EXCEPT ![k] = {c}] ELSE holder
           /\ UNCHANGED answers
  <2>0. call[c].item = 1 /\ Len(call[c].response) = 0
    BY <1>0 DEF BulkIInv, CursorInv
  <2>1. /\ call'[c] \in CallRecords /\ call'[c].pc = "items" /\ call'[c].key = k
        /\ call'[c].item = 1 /\ call'[c].response = call[c].response
    BY <1>0, <2>0, <1>1 DEF CallRecords, BulkIInv, BulkTypes
  <2>2. \A d \in Calls \ {c} : call'[d] = call[d]
    BY <1>1 DEF BulkIInv, BulkTypes
  <2>3. /\ holder' \in [Keys -> SUBSET Calls]
        /\ \A j \in Keys \ {k} : holder'[j] = holder[j]
        /\ k # Headerless => holder[k] = {} /\ holder'[k] = {c}
        /\ k = Headerless => holder'[k] = holder[k]
    BY <1>0, <1>1 DEF BulkIInv, BulkTypes, HasKey, Enter
  <2>4. BulkTypes'
    BY <1>0, <1>1, <2>1, <2>2, <2>3 DEF BulkIInv, BulkTypes
  <2>5. CursorInv'
    BY <2>0, <2>1, <2>2 DEF BulkIInv, CursorInv
  <2>6. \A d \in Calls, j \in Keys : Working(d, j)' <=> Working(d, j) \/ (d = c /\ j = k)
    BY <1>0, <2>1, <2>2 DEF Working
  <2>7. LockInv'
    <3>1. holder'[Headerless] = {}
      BY <1>0, <2>3 DEF BulkIInv, LockInv
    <3>2. ASSUME NEW j \in Keys \ {Headerless}
          PROVE  /\ \A d \in Calls : Working(d, j)' => holder'[j] = {d}
                 /\ \A d \in holder'[j] : Working(d, j)'
      <4>1. CASE j = k
        <5>1. holder[k] = {} /\ holder'[k] = {c} /\ \A d \in Calls : ~Working(d, k)
          <6>1. holder[k] = {} /\ holder'[k] = {c}
            BY <2>3, <4>1
          <6>2. \A d \in Calls : Working(d, j) => holder[j] = {d}
            BY DEF BulkIInv, LockInv
          <6> QED
            BY <4>1, <6>1, <6>2
        <5>2. \A d \in Calls : Working(d, j)' <=> d = c
          BY <1>0, <2>6, <4>1, <5>1
        <5> QED
          BY <4>1, <5>1, <5>2
      <4>2. CASE j # k
        BY <2>3, <2>6, <3>2, <4>2 DEF BulkIInv, BulkTypes, LockInv
      <4> QED
        BY <4>1, <4>2
    <3> QED
      BY <3>1, <3>2 DEF LockInv
  <2>8. OnceInv'
    BY <1>0, <1>1, <2>1, <2>2, <2>3, <2>6 DEF BulkIInv, OnceInv, RunsOnce, Working, LockInv, NoResponse
  <2> QED
    BY <2>4, <2>5, <2>7, <2>8 DEF BulkIInv
<1>2. CASE /\ cache[k] # NoResponse
           /\ call' = [call EXCEPT ![c] = DoneCall]
           /\ Answer(k, cache[k])
           /\ UNCHANGED holder
  BY <1>0, <1>2, AnsweredFromCache
<1> QED
  BY <1>1, <1>2 DEF Enter

LEMMA ItemStep ==
    ASSUME BulkIInv, NEW c \in Calls, Item(c)
    PROVE  BulkIInv'
<1>a. call[c] \in CallRecords /\ call[c].pc = "items"
  BY DEF BulkIInv, BulkTypes, Item
<1>b. PICK k \in Keys : k = call[c].key
  BY <1>a DEF CallRecords
<1>c. PICK i \in DOMAIN Batch[k] : i = call[c].item
  BY <1>a, <1>b, BulkConstants DEF CallRecords, BulkIInv, CursorInv, Item
<1>d. PICK q \in Seq(Results) : q = call[c].response /\ Len(q) = i - 1
  BY <1>a, <1>c DEF CallRecords, BulkIInv, CursorInv
<1>e. i \in Nat /\ i >= 1 /\ i <= Len(Batch[k]) /\ Len(Batch[k]) \in Nat
  BY BulkConstants
<1>0. UNCHANGED <<cache, holder, answers, excused>>
  BY DEF Item
<1>1. PICK r \in Results :
         call' = [call EXCEPT ![c] = [call[c] EXCEPT !.item = i + 1, !.response = Append(q, r)]]
  <2>1. \E r \in Results : call' = [call EXCEPT ![c] =
             [@ EXCEPT !.item = call[c].item + 1, !.response = Append(call[c].response, r)]]
    BY DEF Item, Results
  <2> QED
    BY <1>c, <1>d, <2>1
<1>2. Append(q, r) \in Seq(Results) /\ Len(Append(q, r)) = i
  BY <1>d, <1>e
<1>3. /\ call'[c] \in CallRecords /\ call'[c].pc = "items" /\ call'[c].key = k
      /\ call'[c].item = i + 1 /\ Len(call'[c].response) = i
  <2>1. call'[c] = [call[c] EXCEPT !.item = i + 1, !.response = Append(q, r)]
    BY <1>1 DEF BulkIInv, BulkTypes
  <2>2. i + 1 \in Nat
    BY <1>e
  <2> QED
    BY <1>a, <1>b, <1>2, <2>1, <2>2 DEF CallRecords
<1>4. call' \in [Calls -> CallRecords] /\ \A d \in Calls \ {c} : call'[d] = call[d]
  BY <1>1, <1>3 DEF BulkIInv, BulkTypes
<1>5. /\ created' \in [Keys -> UNION {[DOMAIN Batch[j] -> Nat] : j \in Keys}]
      /\ \A j \in Keys : created'[j] \in [DOMAIN Batch[j] -> Nat]
      /\ \A j \in Keys \ {k} : created'[j] = created[j]
      /\ created'[k][i] \in {created[k][i], created[k][i] + 1}
      /\ \A n \in DOMAIN Batch[k] \ {i} : created'[k][n] = created[k][n]
  <2>0. created[k] \in [DOMAIN Batch[k] -> Nat]
    BY DEF BulkIInv, BulkTypes
  <2>1. CASE created' = [created EXCEPT ![k][i] = @ + 1]
    <3>1. created' = [created EXCEPT ![k] = [created[k] EXCEPT ![i] = created[k][i] + 1]]
      BY <2>1
    <3>2. [created[k] EXCEPT ![i] = created[k][i] + 1] \in [DOMAIN Batch[k] -> Nat]
      BY <2>0
    <3> QED
      BY <1>0, <2>0, <3>1, <3>2 DEF BulkIInv, BulkTypes
  <2>2. CASE UNCHANGED created
    BY <2>0, <2>2 DEF BulkIInv, BulkTypes
  <2> QED
    BY <2>1, <2>2, <1>b, <1>c DEF Item
<1>6. BulkTypes'
  BY <1>0, <1>4, <1>5 DEF BulkIInv, BulkTypes
<1>7. CursorInv'
  <2>1. ASSUME NEW d \in Calls \ {c}
        PROVE  /\ call'[d].item \in 1 .. Len(Batch[call'[d].key]) + 1
               /\ Len(call'[d].response) = call'[d].item - 1
               /\ call'[d].pc # "items" => call'[d].item = 1
    BY <1>4, <2>1 DEF BulkIInv, CursorInv
  <2>2. i + 1 \in 1 .. Len(Batch[k]) + 1 /\ i = (i + 1) - 1
    BY <1>e
  <2> QED
    BY <1>3, <2>1, <2>2 DEF CursorInv
<1>8. \A d \in Calls, j \in Keys : Working(d, j)' <=> Working(d, j)
  BY <1>a, <1>b, <1>3, <1>4 DEF Working
<1>9. LockInv'
  BY <1>0, <1>8 DEF BulkIInv, BulkTypes, LockInv
<1>10. ASSUME NEW j \in Keys \ ({Headerless} \cup excused)
       PROVE  RunsOnce(j)'
  <2>1. CASE j # k
    <3>1. RunsOnce(j) /\ created'[j] = created[j]
      BY <1>5, <2>1 DEF BulkIInv, OnceInv
    <3>2. \A d \in Calls : Working(d, j) => call'[d] = call[d]
      BY <1>b, <1>4, <2>1 DEF Working
    <3> QED
      BY <1>0, <1>8, <3>1, <3>2 DEF RunsOnce
  <2>2. CASE j = k
    <3>1. RunsOnce(k) /\ Working(c, k) /\ holder[k] = {c}
      BY <1>a, <1>b, <2>2 DEF BulkIInv, OnceInv, LockInv, Working
    <3>2. \A d \in Calls : Working(d, k) => d = c
      <4>1. \A d \in Calls : Working(d, k) => holder[k] = {d}
        BY <2>2 DEF BulkIInv, LockInv
      <4> QED
        BY <3>1, <4>1
    <3>3. created[k][i] = 0
      BY <1>c, <1>e, <3>1 DEF RunsOnce
    <3>4. /\ \A n \in DOMAIN Batch[k] : created'[k][n] <= 1
          /\ \A n \in DOMAIN Batch[k] : n >= i + 1 => created'[k][n] = 0
      <4> SUFFICES ASSUME NEW n \in DOMAIN Batch[k]
                   PROVE  created'[k][n] <= 1 /\ (n >= i + 1 => created'[k][n] = 0)
        OBVIOUS
      <4>1. n \in Nat /\ created[k][n] <= 1 /\ (n >= i => created[k][n] = 0)
        BY BulkConstants, <1>c, <3>1 DEF RunsOnce
      <4>2. CASE n = i
        BY <1>5, <1>e, <3>3, <4>2
      <4>3. CASE n # i
        <5>1. created'[k][n] = created[k][n]
          BY <1>5, <4>3
        <5>2. n >= i + 1 => n >= i
          BY <1>e, <4>1
        <5> QED
          BY <4>1, <5>1, <5>2
      <4> QED
        BY <4>2, <4>3
    <3> QED
      BY <1>0, <1>3, <1>8, <2>2, <3>1, <3>2, <3>4 DEF RunsOnce
  <2> QED
    BY <2>1, <2>2
<1>11. OnceInv'
  BY <1>0, <1>10 DEF OnceInv
<1> QED
  BY <1>6, <1>7, <1>9, <1>11 DEF BulkIInv

\* A request that leaves takes only its own hold on its key's lock with it.
LEMMA LockReleased ==
    ASSUME BulkTypes, LockInv, NEW c \in Calls, NEW k \in Keys, holder' = Unlock(k, c),
           \A j \in Keys : Working(c, j) => j = k,
           \A d \in Calls, j \in Keys : Working(d, j)' <=> Working(d, j) /\ d # c
    PROVE  LockInv'
<1>1. holder'[k] = holder[k] \ {c} /\ \A j \in Keys \ {k} : holder'[j] = holder[j]
  BY DEF BulkTypes, Unlock
<1>2. holder'[Headerless] = {}
  BY <1>1, BulkConstants DEF LockInv
<1>3. ASSUME NEW j \in Keys \ {Headerless}
      PROVE  /\ \A d \in Calls : Working(d, j)' => holder'[j] = {d}
             /\ \A d \in holder'[j] : Working(d, j)'
  <2>1. /\ \A d \in Calls : Working(d, j) => holder[j] = {d}
        /\ \A d \in holder[j] : Working(d, j) /\ d \in Calls
    BY DEF LockInv, BulkTypes
  <2>2. holder'[j] = holder[j] \ {c}
    BY <1>1, <2>1
  <2> QED
    BY <2>1, <2>2
<1> QED
  BY <1>2, <1>3 DEF LockInv

LEMMA RespondStep ==
    ASSUME BulkIInv, NEW c \in Calls, Respond(c)
    PROVE  BulkIInv'
<1>a. call[c] \in CallRecords /\ call[c].pc = "items"
  BY DEF BulkIInv, BulkTypes, Respond
<1>b. PICK k \in Keys : k = call[c].key
  BY <1>a DEF CallRecords
<1>d. PICK q \in Seq(Results) : q = call[c].response /\ q # NoResponse
  <2>1. call[c].item \in 1 .. Len(Batch[k]) + 1 /\ call[c].item > Len(Batch[k])
    BY <1>b DEF BulkIInv, CursorInv, Respond
  <2>2. Len(Batch[k]) \in Nat \ {0}
    BY BulkConstants
  <2>3. Len(call[c].response) = call[c].item - 1 /\ call[c].item - 1 > 0
    BY <2>1, <2>2 DEF BulkIInv, CursorInv
  <2>4. call[c].response \in Seq(Results)
    BY <1>a DEF CallRecords
  <2> QED
    BY <2>3, <2>4 DEF NoResponse
<1>1. /\ cache' = Stored(k, q)
      /\ excused' = IF Stored(k, q)[k] = NoResponse THEN excused \cup {k} ELSE excused
      /\ Answer(k, q)
      /\ holder' = Unlock(k, c)
      /\ call' = [call EXCEPT ![c] = DoneCall]
      /\ UNCHANGED created
  BY <1>b, <1>d DEF Respond
<1>2. /\ cache' \in [Keys -> Seq(Results)]
      /\ \A j \in Keys \ {k} : cache'[j] = cache[j]
      /\ cache'[k] \in {cache[k], q}
      /\ excused' = IF cache'[k] = NoResponse THEN excused \cup {k} ELSE excused
  BY <1>1 DEF Stored, BulkIInv, BulkTypes
<1>3. /\ holder' \in [Keys -> SUBSET Calls]
      /\ \A j \in Keys \ {k} : holder'[j] = holder[j]
      /\ holder'[k] = holder[k] \ {c}
  BY <1>1 DEF Unlock, BulkIInv, BulkTypes
<1>4. /\ call' \in [Calls -> CallRecords]
      /\ call'[c] = DoneCall
      /\ \A d \in Calls \ {c} : call'[d] = call[d]
  BY <1>1, CallFacts, FreshCalls DEF BulkIInv
<1>5. /\ answers' \in [Keys -> SUBSET Seq(Results)]
      /\ answers'[k] = answers[k] \cup {q}
      /\ \A j \in Keys \ {k} : answers'[j] = answers[j]
  BY <1>1, AnswerFacts DEF BulkIInv
<1>6. BulkTypes'
  BY <1>1, <1>2, <1>3, <1>4, <1>5 DEF BulkIInv, BulkTypes
<1>7. CursorInv'
  BY <1>4, FreshCalls, BulkConstants DEF BulkIInv, CursorInv
<1>8. /\ Working(c, k)
      /\ \A d \in Calls, j \in Keys : Working(d, j)' <=> Working(d, j) /\ d # c
  BY <1>a, <1>b, <1>4, FreshCalls DEF Working
<1>9. LockInv'
  <2>1. \A j \in Keys : Working(c, j) => j = k
    BY <1>b DEF Working
  <2> QED
    BY <1>1, <1>8, <2>1, LockReleased DEF BulkIInv
<1>10. ASSUME NEW j \in Keys \ ({Headerless} \cup excused')
       PROVE  RunsOnce(j)'
  <2>0. RunsOnce(j)
    BY <1>2 DEF BulkIInv, OnceInv
  <2>1. CASE j # k
    <3>1. /\ created'[j] = created[j] /\ cache'[j] = cache[j]
          /\ holder'[j] = holder[j] /\ answers'[j] = answers[j]
      BY <1>1, <1>2, <1>3, <1>5, <2>1
    <3>2. \A d \in Calls : Working(d, j)' => Working(d, j) /\ call'[d] = call[d]
      BY <1>8, <1>4
    <3> QED
      BY <2>0, <3>1, <3>2 DEF RunsOnce
  <2>2. CASE j = k
    <3>1. holder[k] = {c} /\ cache[k] = NoResponse /\ answers[k] = {}
      BY <1>8, <2>0, <2>2 DEF BulkIInv, LockInv, RunsOnce
    <3>2. cache'[k] = q /\ holder'[k] = {} /\ answers'[k] = {q}
      BY <1>2, <1>3, <1>5, <2>2, <3>1
    <3>3. \A d \in Calls : ~Working(d, k)'
      BY <1>8, <3>1, <2>2 DEF BulkIInv, LockInv
    <3> QED
      BY <1>1, <1>d, <2>0, <2>2, <3>2, <3>3 DEF RunsOnce
  <2> QED
    BY <2>1, <2>2
<1>11. OnceInv'
  BY <1>10 DEF OnceInv
<1> QED
  BY <1>6, <1>7, <1>9, <1>11 DEF BulkIInv

LEMMA AbortStep ==
    ASSUME BulkIInv, NEW c \in Calls, Abort(c)
    PROVE  BulkIInv'
<1>a. call[c] \in CallRecords /\ call[c].pc \in {"queued", "items"}
  BY DEF BulkIInv, BulkTypes, Abort
<1>b. PICK k \in Keys : k = call[c].key
  BY <1>a DEF CallRecords
<1>1. /\ holder' = Unlock(k, c)
      /\ call' = [call EXCEPT ![c] = DoneCall]
      /\ excused' = IF call[c].pc = "items" THEN excused \cup {k} ELSE excused
      /\ UNCHANGED <<cache, created, answers>>
  BY <1>b DEF Abort
<1>3. /\ holder' \in [Keys -> SUBSET Calls]
      /\ \A j \in Keys \ {k} : holder'[j] = holder[j]
      /\ holder'[k] = holder[k] \ {c}
  BY <1>1 DEF Unlock, BulkIInv, BulkTypes
<1>4. /\ call' \in [Calls -> CallRecords]
      /\ call'[c] = DoneCall
      /\ \A d \in Calls \ {c} : call'[d] = call[d]
  BY <1>1, CallFacts, FreshCalls DEF BulkIInv
<1>5. excused' \in SUBSET Keys
  BY <1>1 DEF BulkIInv, BulkTypes
<1>6. BulkTypes'
  BY <1>1, <1>3, <1>4, <1>5 DEF BulkIInv, BulkTypes
<1>7. CursorInv'
  BY <1>4, FreshCalls, BulkConstants DEF BulkIInv, CursorInv
<1>8. /\ \A j \in Keys : Working(c, j) => j = k /\ call[c].pc = "items"
      /\ \A d \in Calls, j \in Keys : Working(d, j)' <=> Working(d, j) /\ d # c
  BY <1>a, <1>b, <1>4, FreshCalls DEF Working
<1>9. LockInv'
  BY <1>1, <1>8, LockReleased DEF BulkIInv
<1>10. ASSUME NEW j \in Keys \ ({Headerless} \cup excused')
       PROVE  RunsOnce(j)'
  <2>0. RunsOnce(j) /\ ~Working(c, j)
    BY <1>1, <1>8 DEF BulkIInv, OnceInv
  <2>1. holder'[j] = holder[j]
    BY <1>3, <2>0 DEF BulkIInv, LockInv
  <2>2. \A d \in Calls : Working(d, j)' => Working(d, j) /\ call'[d] = call[d]
    BY <1>8, <1>4
  <2> QED
    BY <1>1, <2>0, <2>1, <2>2 DEF RunsOnce
<1>11. OnceInv'
  BY <1>10 DEF OnceInv
<1> QED
  BY <1>6, <1>7, <1>9, <1>11 DEF BulkIInv

LEMMA ExpireStep ==
    ASSUME BulkIInv, NEW k \in Keys, Expire(k)
    PROVE  BulkIInv'
<1>1. /\ cache' \in [Keys -> Seq(Results)]
      /\ \A j \in Keys \ {k} : cache'[j] = cache[j]
      /\ excused' = excused \cup {k}
      /\ UNCHANGED <<holder, call, created, answers>>
  BY DEF BulkIInv, BulkTypes, Expire, NoResponse
<1>2. BulkTypes' /\ CursorInv' /\ LockInv'
  BY <1>1 DEF BulkIInv, BulkTypes, CursorInv, LockInv, Working
<1>3. OnceInv'
  BY <1>1 DEF BulkIInv, OnceInv, RunsOnce, Working
<1> QED
  BY <1>2, <1>3 DEF BulkIInv

LEMMA RestartStep ==
    ASSUME BulkIInv, Restart
    PROVE  BulkIInv'
<1>1. /\ cache' = [k \in Keys |-> NoResponse]
      /\ holder' = [k \in Keys |-> {}]
      /\ call' = [c \in Calls |-> NewCall]
      /\ excused' = excused \cup {k \in Keys : cache[k] # NoResponse \/ \E c \in Calls : Working(c, k)}
      /\ UNCHANGED <<created, answers>>
  BY DEF Restart, Working
<1>2. BulkTypes'
  <2>1. <<>> \in Seq(Results)
    OBVIOUS
  <2>2. call' \in [Calls -> CallRecords]
    BY <1>1, FreshCalls
  <2> QED
    BY <1>1, <2>1, <2>2 DEF BulkIInv, BulkTypes, NoResponse
<1>3. CursorInv' /\ LockInv'
  BY <1>1, FreshCalls, BulkConstants DEF CursorInv, LockInv, Working
<1>4. ASSUME NEW k \in Keys \ ({Headerless} \cup excused')
      PROVE  RunsOnce(k)'
  <2>1. RunsOnce(k) /\ cache[k] = NoResponse /\ \A c \in Calls : ~Working(c, k)
    BY <1>1 DEF BulkIInv, OnceInv
  <2>2. holder[k] = {}
    BY <2>1 DEF BulkIInv, BulkTypes, LockInv
  <2>3. \A c \in Calls : ~Working(c, k)'
    BY <1>1, FreshCalls DEF Working
  <2> QED
    BY <1>1, <2>1, <2>2, <2>3 DEF RunsOnce
<1>5. OnceInv'
  BY <1>4 DEF OnceInv
<1> QED
  BY <1>2, <1>3, <1>5 DEF BulkIInv

LEMMA BulkInvariance == BulkSpec => []BulkIInv
<1>1. ASSUME BulkIInv, [BulkNext]_bulkVars PROVE BulkIInv'
  <2>1. CASE UNCHANGED bulkVars
    <3>0. UNCHANGED <<cache, holder, call, created, answers, excused>>
      BY <2>1 DEF bulkVars
    <3>1. BulkTypes'
      BY <1>1, <3>0 DEF BulkIInv, BulkTypes
    <3>2. CursorInv'
      BY <1>1, <3>0 DEF BulkIInv, CursorInv
    <3>3. LockInv'
      BY <1>1, <3>0 DEF BulkIInv, LockInv, Working
    <3>4. OnceInv'
      BY <1>1, <3>0 DEF BulkIInv, OnceInv, RunsOnce, Working
    <3> QED
      BY <3>1, <3>2, <3>3, <3>4 DEF BulkIInv
  <2>2. CASE BulkNext
    BY <1>1, <2>2, LookupStep, EnterStep, ItemStep, RespondStep, AbortStep, ExpireStep, RestartStep
       DEF BulkNext, CallStep
  <2> QED
    BY <1>1, <2>1, <2>2
<1> QED
  BY BulkInitial, <1>1, PTL DEF BulkSpec

\* The tables and request records of the bulk handlers keep their shape, a request
\* has one result per item behind it, and a key's lock has at most one holder.
THEOREM BulkTypeCorrect == BulkSpec => []BulkTypeOK
<1>1. ASSUME BulkIInv PROVE BulkTypeOK
  <2>1. ASSUME NEW k \in Keys
        PROVE  holder[k] \subseteq Calls /\ Cardinality(holder[k]) <= 1
    <3>1. holder[k] \subseteq Calls
      BY <1>1 DEF BulkIInv, BulkTypes
    <3>2. CASE holder[k] = {}
      BY <3>1, <3>2, FS_EmptySet
    <3>3. CASE holder[k] # {}
      <4>1. PICK c \in holder[k] : holder[k] = {c}
        BY <1>1, <3>1, <3>3 DEF BulkIInv, LockInv
      <4> QED
        BY <3>1, <4>1, FS_Singleton
    <3> QED
      BY <3>2, <3>3
  <2> QED
    BY <1>1, <2>1 DEF BulkIInv, BulkTypes, CursorInv, CallRecords, BulkTypeOK
<1> QED
  BY BulkInvariance, <1>1, PTL

\* A keyed body is executed once, whatever requests bring it and however they
\* overlap, disconnect, expire or are cut off by restarts, unless its response was
\* lost or never stored (acquire_in_flight, the second look, store).
THEOREM KeyedBodiesRunOnce == BulkSpec => []KeyedBodyRunsOnce
<1>1. ASSUME BulkIInv PROVE KeyedBodyRunsOnce
  <2> SUFFICES ASSUME NEW k \in Keys \ ({Headerless} \cup excused)
               PROVE  /\ \A i \in DOMAIN Batch[k] : created[k][i] <= 1
                      /\ Cardinality(answers[k]) <= 1
    BY DEF KeyedBodyRunsOnce
  <2>1. RunsOnce(k)
    BY <1>1 DEF BulkIInv, OnceInv
  <2>2. answers[k] \in SUBSET {cache[k]}
    BY <2>1 DEF RunsOnce
  <2>3. Cardinality(answers[k]) <= 1
    <3>1. IsFiniteSet({cache[k]}) /\ Cardinality({cache[k]}) = 1
      BY FS_Singleton
    <3> QED
      BY <2>2, <3>1, FS_Subset
  <2> QED
    BY <2>1, <2>3 DEF RunsOnce
<1> QED
  BY BulkInvariance, <1>1, PTL

----------------------------------------------------------------------------
(* ACCOUNTS                                                                *)

TaskSteps == {"new", "count", "create", "session", "link", "mail", "consume", "user", "stopped"}
TaskRecords == [pc : TaskSteps, user : Emails \cup {Nobody}, link : Links \cup {NoLink},
                known : BOOLEAN, gone : BOOLEAN]
LiveSessions == [state : {"live"}, user : Emails, expires_at : Nat, last_used_at : Nat]
LiveLinks == [state : {"live"}, email : Emails, expires_at : Nat, used : BOOLEAN]
SpawnedTasks == [kind : {"touch", "write", "delete"}, sid : Sessions, at : Nat]

AccountTypes ==
    /\ users \subseteq Emails
    /\ sessions \in [Sessions -> {NewRow, GoneRow} \cup LiveSessions]
    /\ links \in [Links -> {NewRow, GoneRow} \cup LiveLinks]
    /\ lock \in BOOLEAN
    /\ task \in [Handlers -> TaskRecords]
    /\ spawned \subseteq SpawnedTasks
    /\ now \in 0 .. MaxNow
    /\ faults \in 0 .. MaxFaults
    /\ drops \in 0 .. MaxDrops
    /\ lastActive \in [Sessions -> Int]
    /\ behind \subseteq Sessions

(* What a task holds at each await: the address from the request on, a     *)
(* link only after the link was found or written, and a user in the table  *)
(* when it opens a session.                                                *)
TaskHolds(t) ==
    /\ t.pc \in {"count", "create", "link", "user", "session"} => t.user \in Emails
    /\ t.pc = "consume" => t.link \in Links
    /\ t.pc \in {"new", "count", "create"} => t.link = NoLink
    /\ t.pc = "session" => t.user \in users

SignInInv ==
    /\ \A h \in Handlers : TaskHolds(task[h])
    /\ \A s \in Sessions : Live(sessions, s) => sessions[s].user \in users

LEMMA TaskConstants ==
    /\ Stopped \in TaskRecords /\ NewTask \in TaskRecords
    /\ Stopped.pc = "stopped" /\ Stopped.link = NoLink
    /\ NewTask.pc = "new" /\ NewTask.link = NoLink
    /\ TaskHolds(Stopped) /\ TaskHolds(NewTask)
<1>1. Stopped \in TaskRecords /\ Stopped.pc = "stopped" /\ Stopped.link = NoLink
  BY DEF Stopped, TaskRecords, TaskSteps
<1>2. NewTask \in TaskRecords /\ NewTask.pc = "new" /\ NewTask.link = NoLink
  BY <1>1 DEF NewTask, TaskRecords, TaskSteps
<1> QED
  BY <1>1, <1>2 DEF TaskHolds

\* Rows that are not live have no other field; live rows are the typed ones.
LEMMA LiveRows ==
    ASSUME AccountTypes
    PROVE  /\ \A s \in Sessions : Live(sessions, s) <=> sessions[s] \in LiveSessions
           /\ \A l \in Links : Live(links, l) <=> links[l] \in LiveLinks
           /\ \A s \in Sessions : sessions[s] \in {NewRow, GoneRow} => ~Live(sessions, s)
           /\ NewRow # GoneRow
<1>1. NewRow.state = "new" /\ GoneRow.state = "gone" /\ NewRow # GoneRow
  BY DEF NewRow, GoneRow
<1>2. /\ \A r \in LiveSessions : r.state = "live"
      /\ \A r \in LiveLinks : r.state = "live"
  BY DEF LiveSessions, LiveLinks
<1> QED
  BY <1>1, <1>2 DEF AccountTypes, Live

\* A task moves on alone: to Stopped when its client is gone, else to t.
LEMMA GotoFacts ==
    ASSUME AccountTypes, NEW h \in Handlers, NEW t \in TaskRecords, Goto(h, t)
    PROVE  /\ task' \in [Handlers -> TaskRecords]
           /\ task'[h] = IF task[h].gone THEN Stopped ELSE t
           /\ \A g \in Handlers \ {h} : task'[g] = task[g]
  BY TaskConstants DEF AccountTypes, Goto

LEMMA FinishFacts ==
    ASSUME AccountTypes, NEW h \in Handlers, Finish(h)
    PROVE  /\ task' \in [Handlers -> TaskRecords]
           /\ task'[h] = Stopped
           /\ \A g \in Handlers \ {h} : task'[g] = task[g]
  BY TaskConstants DEF AccountTypes, Finish

LEMMA AccountInitial == AccountInit => AccountTypes /\ SignInInv
<1> SUFFICES ASSUME AccountInit PROVE AccountTypes /\ SignInInv
  OBVIOUS
<1>1. task \in [Handlers -> TaskRecords]
  BY TaskConstants DEF AccountInit
<1>2. links \in [Links -> {NewRow, GoneRow} \cup LiveLinks]
  <2>1. PICK owner \in IF users = {} THEN {Nobody} ELSE users :
         links = [l \in Links |-> IF l \in mailed
             THEN [state |-> "live", email |-> owner, expires_at |-> LinkExpiry, used |-> FALSE]
             ELSE NewRow]
    BY DEF AccountInit
  <2>2. mailed # {} => owner \in Emails
    BY <2>1 DEF AccountInit
  <2> QED
    BY <2>1, <2>2, AccountAssumption DEF LiveLinks
<1>3. AccountTypes
  <2>1. sessions \in [Sessions -> {NewRow, GoneRow} \cup LiveSessions]
    BY DEF AccountInit
  <2>2. now \in 0 .. MaxNow /\ faults \in 0 .. MaxFaults /\ drops \in 0 .. MaxDrops
    BY AccountAssumption DEF AccountInit
  <2>3. lastActive \in [Sessions -> Int]
    BY DEF AccountInit
  <2> QED
    BY <1>1, <1>2, <2>1, <2>2, <2>3 DEF AccountInit, AccountTypes
<1>4. SignInInv
  BY <1>3, LiveRows, TaskConstants DEF AccountInit, SignInInv
<1> QED
  BY <1>3, <1>4

\* Everyone's task holds what it should when the one that moved does.
LEMMA TasksHold ==
    ASSUME SignInInv, NEW h \in Handlers, users \subseteq users', TaskHolds(task[h])',
           \A g \in Handlers \ {h} : task'[g] = task[g]
    PROVE  \A g \in Handlers : TaskHolds(task[g])'
  BY DEF SignInInv, TaskHolds

LEMMA SessionUsersHold ==
    ASSUME SignInInv, UNCHANGED sessions, users \subseteq users'
    PROVE  \A s \in Sessions : Live(sessions, s)' => sessions'[s].user \in users'
  BY DEF SignInInv, Live

LEMMA FaultTypes ==
    ASSUME AccountTypes, Fault
    PROVE  faults' \in 0 .. MaxFaults
  BY AccountAssumption DEF AccountTypes, Fault

LEMMA ReleaseTypes ==
    ASSUME AccountTypes, NEW h \in Handlers, Release(h)
    PROVE  lock' \in BOOLEAN /\ (lock' => lock)
  BY DEF AccountTypes, Release

(* A step of h leaves the other tasks where they are and takes h to one of *)
(* these awaits.                                                           *)
Moves(h, pcs) ==
    /\ \A g \in Handlers \ {h} : task'[g] = task[g]
    /\ task'[h].pc \in pcs

LEMMA BootstrapClaimTypes ==
    ASSUME AccountTypes, SignInInv, NEW h \in Handlers, NEW e \in Emails, BootstrapClaim(h, e)
    PROVE  AccountTypes' /\ SignInInv' /\ Moves(h, {"count", "stopped"})
<1>1. task[h] \in TaskRecords /\ task[h].pc = "new" /\ task[h].link = NoLink
  BY DEF AccountTypes, SignInInv, TaskHolds, BootstrapClaim, Step
<1>2. /\ task' \in [Handlers -> TaskRecords] /\ TaskHolds(task[h])'
      /\ task'[h].pc \in {"count", "stopped"}
      /\ \A g \in Handlers \ {h} : task'[g] = task[g]
      /\ lock' \in BOOLEAN
  <2>1. CASE /\ lock' = TRUE
             /\ task' = [task EXCEPT ![h] = [@ EXCEPT !.pc = "count", !.user = e]]
    <3>0. [task[h] EXCEPT !.pc = "count", !.user = e] \in TaskRecords
      BY <1>1 DEF TaskRecords, TaskSteps
    <3>1. PICK t \in TaskRecords : /\ t = [task[h] EXCEPT !.pc = "count", !.user = e]
                                   /\ t.pc = "count" /\ t.user = e /\ t.link = NoLink
      BY <1>1, <3>0 DEF TaskRecords
    <3>2. /\ task' \in [Handlers -> TaskRecords] /\ task'[h] = t
          /\ \A g \in Handlers \ {h} : task'[g] = task[g]
      BY <2>1, <3>1 DEF AccountTypes
    <3> QED
      BY <2>1, <3>1, <3>2 DEF TaskHolds
  <2>2. CASE lock /\ Finish(h) /\ UNCHANGED lock
    BY <2>2, FinishFacts, TaskConstants DEF TaskHolds, AccountTypes
  <2> QED
    BY <2>1, <2>2 DEF BootstrapClaim
<1>3. UNCHANGED <<users, sessions, links, spawned, now, faults, drops, lastActive, behind>>
  BY DEF BootstrapClaim, accountHistory
<1>4. AccountTypes'
  BY <1>2, <1>3 DEF AccountTypes
<1>m. Moves(h, {"count", "stopped"})
  BY <1>2 DEF Moves
<1> QED
  BY <1>m, <1>2, <1>3, <1>4, TasksHold, SessionUsersHold DEF SignInInv

LEMMA BootstrapCheckTypes ==
    ASSUME AccountTypes, SignInInv, NEW h \in Handlers, BootstrapCheck(h)
    PROVE  AccountTypes' /\ SignInInv' /\ Moves(h, {"create", "stopped"})
<1>1. /\ task[h] \in TaskRecords /\ task[h].pc = "count" /\ task[h].link = NoLink
      /\ task[h].user \in Emails
  BY DEF AccountTypes, SignInInv, TaskHolds, BootstrapCheck, Step
<1>a. [task[h] EXCEPT !.pc = "create"] \in TaskRecords
  BY <1>1 DEF TaskRecords, TaskSteps
<1>2. PICK t \in TaskRecords : /\ t = [task[h] EXCEPT !.pc = "create"]
                               /\ t.pc = "create" /\ t.user \in Emails /\ t.link = NoLink
  BY <1>1, <1>a DEF TaskRecords
<1>3. /\ task' \in [Handlers -> TaskRecords] /\ task'[h] \in {Stopped, t}
      /\ \A g \in Handlers \ {h} : task'[g] = task[g]
  BY <1>2, GotoFacts, FinishFacts DEF BootstrapCheck
<1>4. TaskHolds(task[h])'
  BY <1>2, <1>3, TaskConstants DEF TaskHolds
<1>5. UNCHANGED <<users, sessions, links, spawned, now, drops, lastActive, behind>>
  BY DEF BootstrapCheck, accountHistory
<1>6. lock' \in BOOLEAN /\ faults' \in 0 .. MaxFaults
  BY FaultTypes, ReleaseTypes DEF BootstrapCheck, AccountTypes
<1>7. AccountTypes'
  BY <1>3, <1>5, <1>6 DEF AccountTypes
<1>m. Moves(h, {"create", "stopped"})
  BY <1>2, <1>3, TaskConstants DEF Moves
<1> QED
  BY <1>m, <1>3, <1>4, <1>5, <1>7, TasksHold, SessionUsersHold DEF SignInInv

LEMMA BootstrapCreateTypes ==
    ASSUME AccountTypes, SignInInv, NEW h \in Handlers, BootstrapCreate(h)
    PROVE  AccountTypes' /\ SignInInv' /\ Moves(h, {"session", "stopped"}) /\ task'[h].link = NoLink
<1>1. /\ task[h] \in TaskRecords /\ task[h].pc = "create" /\ task[h].link = NoLink
      /\ task[h].user \in Emails
  BY DEF AccountTypes, SignInInv, TaskHolds, BootstrapCreate, Step
<1>a. [task[h] EXCEPT !.pc = "session"] \in TaskRecords
  BY <1>1 DEF TaskRecords, TaskSteps
<1>2. PICK t \in TaskRecords : /\ t = [task[h] EXCEPT !.pc = "session"]
                               /\ t.pc = "session" /\ t.user = task[h].user /\ t.link = NoLink
  BY <1>1, <1>a DEF TaskRecords
<1>3. /\ UNCHANGED <<sessions, links, spawned, now, drops, lastActive, behind>>
      /\ lock' \in BOOLEAN
  BY ReleaseTypes DEF BootstrapCreate
<1>4. /\ task' \in [Handlers -> TaskRecords] /\ TaskHolds(task[h])'
      /\ task'[h].pc \in {"session", "stopped"} /\ task'[h].link = NoLink
      /\ \A g \in Handlers \ {h} : task'[g] = task[g]
      /\ users \subseteq users' /\ users' \subseteq Emails
      /\ faults' \in 0 .. MaxFaults
  <2>1. CASE /\ create_user(task[h].user)
             /\ Goto(h, IF task[h].user \in users THEN Stopped ELSE t)
             /\ UNCHANGED faults
    <3>1. users' = users \cup {task[h].user}
      BY <2>1 DEF create_user
    <3>2. PICK u \in TaskRecords : u = (IF task[h].user \in users THEN Stopped ELSE t)
      BY TaskConstants
    <3>3. /\ task' \in [Handlers -> TaskRecords] /\ task'[h] \in {Stopped, t}
          /\ \A g \in Handlers \ {h} : task'[g] = task[g]
      BY <2>1, <3>2, GotoFacts
    <3>4. TaskHolds(task[h])'
      BY <1>1, <1>2, <3>1, <3>3, TaskConstants DEF TaskHolds
    <3>5. task'[h].pc \in {"session", "stopped"} /\ task'[h].link = NoLink
      BY <1>2, <3>3, TaskConstants
    <3> QED
      BY <1>1, <2>1, <3>1, <3>3, <3>4, <3>5 DEF AccountTypes
  <2>2. CASE Fault /\ Finish(h) /\ UNCHANGED users
    BY <2>2, FinishFacts, FaultTypes, TaskConstants DEF TaskHolds, AccountTypes
  <2> QED
    BY <1>2, <2>1, <2>2 DEF BootstrapCreate
<1>5. AccountTypes'
  BY <1>3, <1>4 DEF AccountTypes
<1>m. Moves(h, {"session", "stopped"}) /\ task'[h].link = NoLink
  BY <1>4 DEF Moves
<1> QED
  BY <1>m, <1>3, <1>4, <1>5, TasksHold, SessionUsersHold DEF SignInInv

LEMMA OpenSessionTypes ==
    ASSUME AccountTypes, SignInInv, NEW h \in Handlers, NEW s \in Sessions, OpenSession(h, s)
    PROVE  AccountTypes' /\ SignInInv' /\ Moves(h, {"stopped"})
<1>1. task[h].user \in users /\ users \subseteq Emails
  BY DEF AccountTypes, SignInInv, TaskHolds, OpenSession, Step
<1>2. now \in Nat /\ now + AbsoluteTimeout \in Nat
  BY AccountAssumption DEF AccountTypes
<1>3. PICK r \in LiveSessions : /\ r.user \in users
                                /\ sessions' = [sessions EXCEPT ![s] = r]
  <2>1. [state |-> "live", user |-> task[h].user, expires_at |-> now + AbsoluteTimeout,
         last_used_at |-> now] \in LiveSessions
    BY <1>1, <1>2 DEF LiveSessions
  <2> QED
    BY <1>1, <2>1 DEF OpenSession, create_session
<1>4. /\ sessions' \in [Sessions -> {NewRow, GoneRow} \cup LiveSessions] /\ sessions'[s] = r
      /\ \A x \in Sessions \ {s} : sessions'[x] = sessions[x]
  BY <1>3 DEF AccountTypes
<1>5. /\ task' \in [Handlers -> TaskRecords] /\ task'[h] = Stopped
      /\ \A g \in Handlers \ {h} : task'[g] = task[g]
      /\ UNCHANGED <<users, links, lock, spawned, now, faults, drops, behind>>
      /\ lastActive' \in [Sessions -> Int]
  BY <1>2, FinishFacts DEF OpenSession, AccountTypes
<1>6. AccountTypes'
  BY <1>4, <1>5 DEF AccountTypes
<1>7. \A x \in Sessions : Live(sessions, x)' => sessions'[x].user \in users'
  BY <1>3, <1>4, <1>5 DEF SignInInv, Live
<1>8. \A g \in Handlers : TaskHolds(task[g])'
  BY <1>5, TasksHold, TaskConstants DEF TaskHolds
<1>m. Moves(h, {"stopped"})
  BY <1>5, TaskConstants DEF Moves
<1> QED
  BY <1>m, <1>6, <1>7, <1>8 DEF SignInInv

LEMMA LinkLookupTypes ==
    ASSUME AccountTypes, SignInInv, NEW h \in Handlers, NEW e \in Emails, LinkLookup(h, e)
    PROVE  AccountTypes' /\ SignInInv' /\ Moves(h, {"link"})
<1>1. task[h] \in TaskRecords
  BY DEF AccountTypes
<1>2. PICK b \in BOOLEAN : task' = [task EXCEPT ![h] = [task[h] EXCEPT !.pc = "link", !.user = e, !.known = b]]
  <2>1. (e \in users) \in BOOLEAN
    OBVIOUS
  <2>2. task' = [task EXCEPT ![h] = [task[h] EXCEPT !.pc = "link", !.user = e, !.known = e \in users]]
    BY DEF LinkLookup
  <2> QED
    BY <2>1, <2>2, Zenon
<1>a. [task[h] EXCEPT !.pc = "link", !.user = e, !.known = b] \in TaskRecords
  BY <1>1 DEF TaskRecords, TaskSteps
<1>3. PICK t \in TaskRecords : /\ t = [task[h] EXCEPT !.pc = "link", !.user = e, !.known = b]
                               /\ t.pc = "link" /\ t.user = e
  BY <1>1, <1>a DEF TaskRecords
<1>4. /\ task' \in [Handlers -> TaskRecords] /\ task'[h] = t
      /\ \A g \in Handlers \ {h} : task'[g] = task[g]
  BY <1>2, <1>3 DEF AccountTypes
<1>5. TaskHolds(task[h])'
  BY <1>3, <1>4 DEF TaskHolds
<1>6. UNCHANGED <<users, sessions, links, lock, spawned, now, faults, drops, lastActive, behind>>
  BY DEF LinkLookup, accountHistory
<1>7. AccountTypes'
  BY <1>4, <1>6 DEF AccountTypes
<1>m. Moves(h, {"link"})
  BY <1>3, <1>4 DEF Moves
<1> QED
  BY <1>m, <1>4, <1>5, <1>6, <1>7, TasksHold, SessionUsersHold DEF SignInInv

LEMMA LinkCreateTypes ==
    ASSUME AccountTypes, SignInInv, NEW h \in Handlers, NEW l \in Links, LinkCreate(h, l)
    PROVE  AccountTypes' /\ SignInInv' /\ Moves(h, {"mail", "stopped"})
<1>1. task[h] \in TaskRecords /\ task[h].user \in Emails
  BY DEF AccountTypes, SignInInv, TaskHolds, LinkCreate, Step
<1>2. [task[h] EXCEPT !.pc = "mail", !.link = l] \in TaskRecords
  BY <1>1 DEF TaskRecords, TaskSteps
<1>3. PICK t \in TaskRecords : /\ t = [task[h] EXCEPT !.pc = "mail", !.link = l]
                               /\ t.pc = "mail"
  BY <1>1, <1>2 DEF TaskRecords
<1>4. PICK u \in TaskRecords : u = (IF task[h].known THEN t ELSE Stopped)
  BY TaskConstants
<1>5. /\ task' \in [Handlers -> TaskRecords] /\ task'[h] \in {t, Stopped}
      /\ \A g \in Handlers \ {h} : task'[g] = task[g]
  BY <1>3, <1>4, GotoFacts DEF LinkCreate
<1>6. TaskHolds(task[h])'
  BY <1>3, <1>5, TaskConstants DEF TaskHolds
<1>7. links' \in [Links -> {NewRow, GoneRow} \cup LiveLinks]
  <2>1. now + LinkExpiry \in Nat
    BY AccountAssumption DEF AccountTypes
  <2>2. [state |-> "live", email |-> task[h].user, expires_at |-> now + LinkExpiry, used |-> FALSE] \in LiveLinks
    BY <1>1, <2>1 DEF LiveLinks
  <2> QED
    BY <2>2 DEF LinkCreate, create_magic_link, AccountTypes
<1>8. UNCHANGED <<users, sessions, lock, spawned, now, faults, drops, lastActive, behind>>
  BY DEF LinkCreate, accountHistory
<1>9. AccountTypes'
  BY <1>5, <1>7, <1>8 DEF AccountTypes
<1>m. Moves(h, {"mail", "stopped"})
  BY <1>3, <1>5, TaskConstants DEF Moves
<1> QED
  BY <1>m, <1>5, <1>6, <1>8, <1>9, TasksHold, SessionUsersHold DEF SignInInv

LEMMA LinkMailTypes ==
    ASSUME AccountTypes, SignInInv, NEW h \in Handlers, LinkMail(h)
    PROVE  AccountTypes' /\ SignInInv' /\ Moves(h, {"stopped"})
<1>1. /\ task' \in [Handlers -> TaskRecords] /\ task'[h] = Stopped
      /\ \A g \in Handlers \ {h} : task'[g] = task[g]
  BY FinishFacts DEF LinkMail
<1>2. TaskHolds(task[h])'
  BY <1>1, TaskConstants DEF TaskHolds
<1>3. UNCHANGED <<users, sessions, links, lock, spawned, now, faults, drops, lastActive, behind>>
  BY DEF LinkMail, accountHistory
<1>4. AccountTypes'
  BY <1>1, <1>3 DEF AccountTypes
<1>m. Moves(h, {"stopped"})
  BY <1>1, TaskConstants DEF Moves
<1> QED
  BY <1>m, <1>1, <1>2, <1>3, <1>4, TasksHold, SessionUsersHold DEF SignInInv

LEMMA VerifyFindTypes ==
    ASSUME AccountTypes, SignInInv, NEW h \in Handlers, NEW l \in Links, VerifyFind(h, l)
    PROVE  AccountTypes' /\ SignInInv' /\ Moves(h, {"consume", "stopped"})
<1>1. task[h] \in TaskRecords
  BY DEF AccountTypes
<1>2. [task[h] EXCEPT !.pc = "consume", !.link = l] \in TaskRecords
  BY <1>1 DEF TaskRecords, TaskSteps
<1>3. PICK t \in TaskRecords : /\ t = [task[h] EXCEPT !.pc = "consume", !.link = l]
                               /\ t.pc = "consume" /\ t.link = l
  BY <1>1, <1>2 DEF TaskRecords
<1>4. /\ task' \in [Handlers -> TaskRecords] /\ task'[h] \in {t, Stopped}
      /\ \A g \in Handlers \ {h} : task'[g] = task[g]
  BY <1>3, TaskConstants DEF VerifyFind, AccountTypes
<1>5. TaskHolds(task[h])'
  BY <1>3, <1>4, TaskConstants DEF TaskHolds
<1>6. UNCHANGED <<users, sessions, links, lock, spawned, now, faults, drops, lastActive, behind>>
  BY DEF VerifyFind, accountHistory
<1>7. AccountTypes'
  BY <1>4, <1>6 DEF AccountTypes
<1>m. Moves(h, {"consume", "stopped"})
  BY <1>3, <1>4, TaskConstants DEF Moves
<1> QED
  BY <1>m, <1>4, <1>5, <1>6, <1>7, TasksHold, SessionUsersHold DEF SignInInv

LEMMA VerifyConsumeTypes ==
    ASSUME AccountTypes, SignInInv, NEW h \in Handlers, VerifyConsume(h)
    PROVE  AccountTypes' /\ SignInInv' /\ Moves(h, {"user", "stopped"}) /\ task'[h].link \in {task[h].link, NoLink}
<1>1. task[h] \in TaskRecords
  BY DEF AccountTypes
<1>2. PICK l \in Links : l = task[h].link
  BY DEF VerifyConsume, Step, SignInInv, TaskHolds
<1>3. UNCHANGED <<users, sessions, lock, spawned, now, faults, drops, lastActive, behind>>
  BY DEF VerifyConsume, accountHistory
<1>4. /\ task' \in [Handlers -> TaskRecords] /\ TaskHolds(task[h])'
      /\ task'[h].pc \in {"user", "stopped"} /\ task'[h].link \in {task[h].link, NoLink}
      /\ \A g \in Handlers \ {h} : task'[g] = task[g]
      /\ links' \in [Links -> {NewRow, GoneRow} \cup LiveLinks]
  <2>1. CASE /\ find_magic_link(l)
             /\ consume_magic_link(l)
             /\ Goto(h, [task[h] EXCEPT !.pc = "user", !.user = links[l].email])
    <3>1. links[l] \in LiveLinks /\ links[l].email \in Emails
      BY <2>1, LiveRows DEF find_magic_link, LiveLinks
    <3>2. [links[l] EXCEPT !.used = TRUE] \in LiveLinks
      BY <3>1 DEF LiveLinks
    <3>3. links' \in [Links -> {NewRow, GoneRow} \cup LiveLinks]
      BY <2>1, <3>2 DEF consume_magic_link, AccountTypes
    <3>4. [task[h] EXCEPT !.pc = "user", !.user = links[l].email] \in TaskRecords
      BY <1>1, <3>1 DEF TaskRecords, TaskSteps
    <3>5. PICK t \in TaskRecords : /\ t = [task[h] EXCEPT !.pc = "user", !.user = links[l].email]
                                   /\ t.pc = "user" /\ t.user \in Emails /\ t.link = task[h].link
      BY <1>1, <3>1, <3>4 DEF TaskRecords
    <3>6. /\ task' \in [Handlers -> TaskRecords] /\ task'[h] \in {t, Stopped}
          /\ \A g \in Handlers \ {h} : task'[g] = task[g]
      BY <2>1, <3>5, GotoFacts
    <3> QED
      BY <3>3, <3>5, <3>6, TaskConstants DEF TaskHolds
  <2>2. CASE Finish(h) /\ UNCHANGED links
    BY <2>2, FinishFacts, TaskConstants DEF TaskHolds, AccountTypes
  <2> QED
    BY <1>2, <2>1, <2>2 DEF VerifyConsume
<1>5. AccountTypes'
  BY <1>3, <1>4 DEF AccountTypes
<1>m. Moves(h, {"user", "stopped"}) /\ task'[h].link \in {task[h].link, NoLink}
  BY <1>4 DEF Moves
<1> QED
  BY <1>m, <1>3, <1>4, <1>5, TasksHold, SessionUsersHold DEF SignInInv

LEMMA VerifyUserTypes ==
    ASSUME AccountTypes, SignInInv, NEW h \in Handlers, VerifyUser(h)
    PROVE  AccountTypes' /\ SignInInv' /\ Moves(h, {"session", "stopped"}) /\ task'[h].link \in {task[h].link, NoLink}
<1>1. task[h] \in TaskRecords /\ task[h].user \in Emails
  BY DEF AccountTypes, SignInInv, TaskHolds, VerifyUser, Step
<1>2. [task[h] EXCEPT !.pc = "session"] \in TaskRecords
  BY <1>1 DEF TaskRecords, TaskSteps
<1>3. PICK t \in TaskRecords : /\ t = [task[h] EXCEPT !.pc = "session"]
                               /\ t.pc = "session" /\ t.user = task[h].user /\ t.link = task[h].link
  BY <1>1, <1>2 DEF TaskRecords
<1>4. /\ task' \in [Handlers -> TaskRecords] /\ task'[h] \in {t, Stopped}
      /\ \A g \in Handlers \ {h} : task'[g] = task[g]
  BY <1>3, GotoFacts DEF VerifyUser
<1>5. users' = users \cup {task[h].user}
  BY DEF VerifyUser, create_user
<1>6. TaskHolds(task[h])'
  BY <1>1, <1>3, <1>4, <1>5, TaskConstants DEF TaskHolds
<1>7. UNCHANGED <<sessions, links, lock, spawned, now, faults, drops, lastActive, behind>>
  BY DEF VerifyUser, accountHistory
<1>8. AccountTypes'
  BY <1>1, <1>4, <1>5, <1>7 DEF AccountTypes
<1>m. Moves(h, {"session", "stopped"}) /\ task'[h].link \in {task[h].link, NoLink}
  BY <1>3, <1>4, TaskConstants DEF Moves
<1> QED
  BY <1>m, <1>4, <1>5, <1>6, <1>7, <1>8, TasksHold, SessionUsersHold DEF SignInInv

LEMMA DisconnectTypes ==
    ASSUME AccountTypes, SignInInv, NEW h \in Handlers, Disconnect(h)
    PROVE  AccountTypes' /\ SignInInv' /\ Moves(h, {task[h].pc}) /\ task'[h].link = task[h].link
<1>1. task[h] \in TaskRecords
  BY DEF AccountTypes
<1>2. PICK t \in TaskRecords : /\ t = [task[h] EXCEPT !.gone = TRUE]
                               /\ t.pc = task[h].pc /\ t.user = task[h].user /\ t.link = task[h].link
  <2>1. [task[h] EXCEPT !.gone = TRUE] \in TaskRecords
    BY <1>1 DEF TaskRecords
  <2> QED
    BY <1>1, <2>1 DEF TaskRecords
<1>3. /\ task' \in [Handlers -> TaskRecords] /\ task'[h] = t
      /\ \A g \in Handlers \ {h} : task'[g] = task[g]
  BY <1>2 DEF Disconnect, AccountTypes
<1>4. UNCHANGED <<users, sessions, links, lock, spawned, now, faults, lastActive, behind>>
  BY DEF Disconnect, accountHistory
<1>5. TaskHolds(task[h])'
  BY <1>2, <1>3, <1>4 DEF TaskHolds, SignInInv
<1>6. drops' \in 0 .. MaxDrops
  BY AccountAssumption DEF Disconnect, AccountTypes
<1>7. AccountTypes'
  BY <1>3, <1>4, <1>6 DEF AccountTypes
<1>m. Moves(h, {task[h].pc}) /\ task'[h].link = task[h].link
  BY <1>2, <1>3 DEF Moves
<1> QED
  BY <1>m, <1>3, <1>4, <1>5, <1>7, TasksHold, SessionUsersHold DEF SignInInv

\* A spawned task remembers the row it was spawned for.
LEMMA SpawnFacts ==
    ASSUME AccountTypes, NEW s \in Sessions, NEW kind \in {"touch", "delete"}, Live(sessions, s),
           Spawn(kind, s)
    PROVE  \E t \in SpawnedTasks : /\ spawned' = spawned \cup {t}
                                   /\ t.kind = kind /\ t.sid = s /\ t.at = sessions[s].last_used_at
<1>1. sessions[s].last_used_at \in Nat
  BY LiveRows DEF LiveSessions
<1>2. [kind |-> kind, sid |-> s, at |-> sessions[s].last_used_at] \in SpawnedTasks
  BY <1>1 DEF SpawnedTasks
<1> QED
  BY <1>2 DEF Spawn

LEMMA ResolveTypes ==
    ASSUME AccountTypes, SignInInv, NEW s \in Sessions,
           Resolve(s) \/ \E t \in Sessions : Revoke(s, t)
    PROVE  AccountTypes' /\ SignInInv'
<1>1. UNCHANGED <<users, sessions, links, lock, task, now, faults, drops, behind>>
  BY DEF Resolve, Revoke, accountHistory
<1>2. spawned' \subseteq SpawnedTasks /\ lastActive' \in [Sessions -> Int]
  <2>1. CASE Resolve(s)
    <3>1. \E kind \in {"touch", "delete"} : Spawn(kind, s)
      BY <2>1 DEF Resolve
    <3>2. spawned' \subseteq SpawnedTasks
      BY <2>1, <3>1, SpawnFacts DEF Resolve, AccountTypes
    <3> QED
      BY <2>1, <3>2 DEF Resolve, AccountTypes
  <2>2. ASSUME NEW t \in Sessions, Revoke(s, t)
        PROVE  spawned' \subseteq SpawnedTasks /\ lastActive' \in [Sessions -> Int]
    BY <2>2, SpawnFacts DEF Revoke, AccountTypes, accountHistory
  <2> QED
    BY <2>1, <2>2
<1>3. AccountTypes'
  BY <1>1, <1>2 DEF AccountTypes
<1> QED
  BY <1>1, <1>3 DEF SignInInv, TaskHolds, Live

\* What a spawned task does to the row of its session, if it is there, and to
\* the tasks: a touch that writes becomes one.
Written(t) == [t EXCEPT !.kind = "write", !.at = now]

LEMMA RunFacts ==
    ASSUME AccountTypes, NEW t \in spawned, RunSpawned(t)
    PROVE  /\ t \in SpawnedTasks
           /\ sessions' \in [Sessions -> {NewRow, GoneRow} \cup LiveSessions]
           /\ \A s \in Sessions : s # t.sid \/ ~Live(sessions, s) => sessions'[s] = sessions[s]
           /\ Live(sessions, t.sid) =>
                 \/ sessions'[t.sid] \in {GoneRow, sessions[t.sid]}
                 \/ t.kind = "write" /\ sessions'[t.sid] = [sessions[t.sid] EXCEPT !.last_used_at = t.at]
           /\ Written(t) \in SpawnedTasks
           /\ spawned' \in {spawned \ {t}, (spawned \ {t}) \cup {Written(t)}}
           /\ faults' \in 0 .. MaxFaults
           /\ behind' \in {behind, behind \ {t.sid}, behind \cup {t.sid}}
           /\ UNCHANGED <<users, links, lock, task, now, drops, mailed, owners, redeemed, lastActive>>
<1>1. t \in SpawnedTasks /\ t.sid \in Sessions /\ now \in Nat /\ t.at \in Nat
  BY AccountAssumption DEF AccountTypes, SpawnedTasks
<1>2. Live(sessions, t.sid) => [sessions[t.sid] EXCEPT !.last_used_at = t.at] \in LiveSessions
  BY <1>1, LiveRows DEF LiveSessions
<1>3. Written(t) \in SpawnedTasks
  BY <1>1 DEF SpawnedTasks, Written
<1>4. CASE DebounceTouch(t)
  <2>1. spawned' \in {spawned \ {t}, (spawned \ {t}) \cup {Written(t)}}
    BY <1>4 DEF DebounceTouch, Written
  <2>2. UNCHANGED <<users, sessions, links, lock, task, now, faults, drops, mailed, accountHistory>>
    BY <1>4 DEF DebounceTouch
  <2> QED
    BY <1>1, <1>3, <2>1, <2>2 DEF AccountTypes, accountHistory
<1>5. CASE WriteTouch(t)
  <2>1. /\ sessions' = [sessions EXCEPT ![t.sid] =
                          IF Live(sessions, t.sid) THEN [@ EXCEPT !.last_used_at = t.at] ELSE @]
        /\ spawned' = spawned \ {t} /\ t.kind = "write"
        /\ UNCHANGED <<users, links, lock, task, now, faults, drops, mailed, owners, redeemed, lastActive>>
    BY <1>5 DEF WriteTouch, touch_session
  <2>2. behind' \in {behind, behind \ {t.sid}, behind \cup {t.sid}}
    BY <1>5 DEF WriteTouch
  <2> QED
    BY <1>1, <1>2, <1>3, <2>1, <2>2 DEF AccountTypes
<1>6. CASE SpawnedFails(t)
  BY <1>1, <1>3, <1>6, FaultTypes DEF SpawnedFails, AccountTypes
<1>7. CASE RunDelete(t)
  BY <1>1, <1>3, <1>7 DEF RunDelete, delete_session, AccountTypes, accountHistory
<1> QED
  BY <1>4, <1>5, <1>6, <1>7 DEF RunSpawned

LEMMA RunTypes ==
    ASSUME AccountTypes, SignInInv, NEW t \in spawned, RunSpawned(t)
    PROVE  AccountTypes' /\ SignInInv'
<1>1. AccountTypes'
  <2>1. t.sid \in Sessions
    BY DEF AccountTypes, SpawnedTasks
  <2>2. spawned' \subseteq SpawnedTasks
    <3>1. PICK w \in SpawnedTasks : w = Written(t)
      BY RunFacts
    <3>2. spawned' \subseteq spawned \cup {w}
      BY <3>1, RunFacts
    <3> QED
      BY <3>1, <3>2 DEF AccountTypes
  <2>3. behind' \subseteq Sessions
    <3>1. behind' \in {behind, behind \ {t.sid}, behind \cup {t.sid}}
      BY RunFacts
    <3>2. behind \subseteq Sessions
      BY DEF AccountTypes
    <3> QED
      BY <2>1, <3>1, <3>2
  <2>4. /\ sessions' \in [Sessions -> {NewRow, GoneRow} \cup LiveSessions] /\ faults' \in 0 .. MaxFaults
        /\ UNCHANGED <<users, links, lock, task, now, drops, lastActive>>
    BY RunFacts
  <2> QED
    BY <2>2, <2>3, <2>4 DEF AccountTypes
<1>2. ASSUME NEW s \in Sessions, Live(sessions, s)' PROVE sessions'[s].user \in users'
  <2>1. Live(sessions, s) /\ sessions'[s].user = sessions[s].user
    <3>1. sessions'[s] # GoneRow
      BY <1>2 DEF Live, GoneRow
    <3>2. CASE s # t.sid \/ ~Live(sessions, s)
      <4>1. sessions'[s] = sessions[s]
        BY <3>2, RunFacts
      <4> QED
        BY <1>2, <4>1 DEF Live
    <3>3. CASE s = t.sid /\ Live(sessions, s)
      <4>1. sessions[s] \in LiveSessions
        BY <3>3, LiveRows
      <4>2. \/ sessions'[s] = sessions[s]
            \/ sessions'[s] = [sessions[s] EXCEPT !.last_used_at = t.at]
        BY <3>1, <3>3, RunFacts
      <4>3. [sessions[s] EXCEPT !.last_used_at = t.at].user = sessions[s].user
        BY <4>1 DEF LiveSessions
      <4> QED
        BY <3>3, <4>2, <4>3
    <3> QED
      BY <3>2, <3>3
  <2> QED
    BY <2>1, RunFacts DEF SignInInv
<1>3. \A h \in Handlers : TaskHolds(task[h])'
  BY RunFacts DEF SignInInv, TaskHolds
<1> QED
  BY <1>1, <1>2, <1>3 DEF SignInInv

LEMMA SweepTypes ==
    ASSUME AccountTypes, SignInInv, SweepAccounts \/ TimePasses
    PROVE  AccountTypes' /\ SignInInv'
<1>1. UNCHANGED <<users, lock, task, spawned, faults, drops, lastActive, behind>>
  BY DEF SweepAccounts, TimePasses, accountHistory
<1>2. now' \in 0 .. MaxNow
  BY AccountAssumption DEF SweepAccounts, TimePasses, AccountTypes
<1>3. /\ sessions' \in [Sessions -> {NewRow, GoneRow} \cup LiveSessions]
      /\ links' \in [Links -> {NewRow, GoneRow} \cup LiveLinks]
      /\ \A s \in Sessions : sessions'[s] \in {GoneRow, sessions[s]}
  BY DEF SweepAccounts, TimePasses, delete_expired_sessions, delete_expired_magic_links, AccountTypes
<1>4. AccountTypes'
  BY <1>1, <1>2, <1>3 DEF AccountTypes
<1>5. \A s \in Sessions : Live(sessions, s)' => sessions'[s] = sessions[s] /\ Live(sessions, s)
  BY <1>3 DEF Live, GoneRow
<1> QED
  BY <1>1, <1>4, <1>5 DEF SignInInv, TaskHolds

\* AccountNext, action by action: a step is one of these.
LEMMA AccountTypesStep ==
    ASSUME AccountTypes, SignInInv, [AccountNext]_accountVars
    PROVE  AccountTypes' /\ SignInInv'
<1>1. CASE UNCHANGED accountVars
  BY <1>1 DEF accountVars, AccountTypes, SignInInv, TaskHolds, Live
<1>2. CASE AccountNext
  BY <1>2, BootstrapClaimTypes, BootstrapCheckTypes, BootstrapCreateTypes, OpenSessionTypes,
     LinkLookupTypes, LinkCreateTypes, LinkMailTypes, VerifyFindTypes, VerifyConsumeTypes,
     VerifyUserTypes, DisconnectTypes, ResolveTypes, RunTypes, SweepTypes
     DEF AccountNext, HandlerStep
<1> QED
  BY <1>1, <1>2

LEMMA AccountTypesInvariance == AccountSpec => [](AccountTypes /\ SignInInv)
  BY AccountInitial, AccountTypesStep, PTL DEF AccountSpec

\* The account tables and the request tasks keep their shape, every live session
\* is one of a user in the table, and the clock and the bounds stay in range.
THEOREM AccountTypeCorrect == AccountSpec => []AccountTypeOK
<1>1. ASSUME AccountTypes, SignInInv PROVE AccountTypeOK
  <2>1. \A l \in Links : Live(links, l) => links[l].email \in Emails
    BY <1>1, LiveRows DEF LiveLinks
  <2>2. \A h \in Handlers : task[h].user \in Emails \cup {Nobody}
    BY <1>1 DEF AccountTypes, TaskRecords
  <2>3. \A t \in spawned : t.sid \in Sessions /\ t.kind \in {"touch", "write", "delete"}
    BY <1>1 DEF AccountTypes, SpawnedTasks
  <2> QED
    BY <1>1, <2>1, <2>2, <2>3 DEF AccountTypes, SignInInv, AccountTypeOK
<1> QED
  BY AccountTypesInvariance, <1>1, PTL

(* The bootstrap lock is held by the one task between its claim and its    *)
(* create; a dropped task leaves it held, which only keeps others out.     *)
InBootstrap(h) == task[h].pc \in {"count", "create"}

BootstrapInv ==
    /\ \A h \in Handlers : InBootstrap(h) => lock
    /\ \A g, h \in Handlers : InBootstrap(g) /\ InBootstrap(h) => g = h
    /\ owners # {} => users # {}
    /\ \A h \in Handlers : task[h].pc = "create" => owners = {}
    /\ \A g, h \in owners : g = h
    /\ owners \subseteq Handlers

\* Steps that are not the bootstrap's: nobody enters it, and the users stay.
LEMMA OutsideBootstrap ==
    ASSUME BootstrapInv, UNCHANGED <<lock, owners>>, users \subseteq users',
           \A h \in Handlers : InBootstrap(h)' => task'[h].pc = task[h].pc
    PROVE  BootstrapInv'
<1>1. \A h \in Handlers : InBootstrap(h)' => InBootstrap(h)
  BY DEF InBootstrap
<1>2. \A h \in Handlers : task'[h].pc = "create" => task[h].pc = "create"
  BY DEF InBootstrap
<1> QED
  BY <1>1, <1>2 DEF BootstrapInv

LEMMA BootstrapInitial == AccountInit => BootstrapInv
  BY TaskConstants DEF AccountInit, BootstrapInv, InBootstrap

LEMMA NoUsers == ASSUME AccountTypes PROVE count_users = 0 <=> users = {}
<1>1. IsFiniteSet(users)
  BY AccountAssumption, FS_Subset DEF AccountTypes
<1> QED
  BY <1>1, FS_EmptySet DEF count_users

LEMMA BootstrapHandlerStep ==
    ASSUME AccountTypes, SignInInv, BootstrapInv, NEW h \in Handlers, HandlerStep(h) \/ Disconnect(h)
    PROVE  BootstrapInv'
<1>1. ASSUME NEW e \in Emails, BootstrapClaim(h, e) PROVE BootstrapInv'
  <2>0. Moves(h, {"count", "stopped"}) /\ UNCHANGED <<users, owners>>
    BY <1>1, BootstrapClaimTypes DEF BootstrapClaim, accountHistory
  <2>1. CASE ~lock /\ lock' = TRUE
    <3>1. \A g \in Handlers : ~InBootstrap(g)
      BY <2>1 DEF BootstrapInv
    <3>2. \A g \in Handlers : InBootstrap(g)' => g = h
      BY <2>0, <3>1 DEF Moves, InBootstrap
    <3>3. \A g \in Handlers : task'[g].pc # "create"
      BY <2>0, <3>1 DEF Moves, InBootstrap
    <3> QED
      BY <2>0, <2>1, <3>2, <3>3 DEF BootstrapInv
  <2>2. CASE Finish(h) /\ UNCHANGED lock
    <3>1. task'[h].pc = "stopped"
      BY <2>2, FinishFacts, TaskConstants
    <3> QED
      BY <2>0, <2>2, <3>1, OutsideBootstrap DEF Moves, InBootstrap
  <2> QED
    BY <1>1, <2>1, <2>2 DEF BootstrapClaim
<1>2. CASE BootstrapCheck(h)
  <2>0. /\ Moves(h, {"create", "stopped"}) /\ UNCHANGED <<users, owners>>
        /\ InBootstrap(h) /\ lock \in BOOLEAN
    BY <1>2, BootstrapCheckTypes DEF BootstrapCheck, accountHistory, InBootstrap, Step, AccountTypes
  <2>1. \A g \in Handlers : InBootstrap(g) => g = h
    BY <2>0 DEF BootstrapInv
  <2>2. CASE count_users = 0 /\ UNCHANGED lock
    <3>1. owners = {}
      BY <2>2, NoUsers DEF BootstrapInv
    <3>2. \A g \in Handlers : InBootstrap(g)' => g = h
      BY <2>0, <2>1 DEF Moves, InBootstrap
    <3> QED
      BY <2>0, <2>2, <3>1, <3>2 DEF BootstrapInv
  <2>3. CASE Finish(h) /\ Release(h)
    <3>1. \A g \in Handlers : ~InBootstrap(g)'
      BY <2>0, <2>1, <2>3, FinishFacts, TaskConstants DEF Moves, InBootstrap
    <3>2. \A g \in Handlers : task'[g].pc # "create"
      BY <3>1 DEF InBootstrap
    <3> QED
      BY <2>0, <3>1, <3>2 DEF BootstrapInv
  <2> QED
    BY <1>2, <2>2, <2>3 DEF BootstrapCheck
<1>3. CASE BootstrapCreate(h)
  <2>0. Moves(h, {"session", "stopped"}) /\ InBootstrap(h) /\ task[h].pc = "create"
    BY <1>3, BootstrapCreateTypes DEF BootstrapCreate, InBootstrap, Step
  <2>1. owners = {} /\ \A g \in Handlers : InBootstrap(g) => g = h
    BY <2>0 DEF BootstrapInv
  <2>2. \A g \in Handlers : ~InBootstrap(g)'
    BY <2>0, <2>1 DEF Moves, InBootstrap
  <2>3. \A g \in Handlers : task'[g].pc # "create"
    BY <2>2 DEF InBootstrap
  <2>4. owners' \subseteq {h} /\ (owners' # {} => users' # {})
    BY <1>3, <2>1 DEF BootstrapCreate, create_user
  <2> QED
    BY <2>2, <2>3, <2>4 DEF BootstrapInv
<1>4. ASSUME \/ \E s \in Sessions : OpenSession(h, s)
             \/ \E e \in Emails : LinkLookup(h, e)
             \/ \E l \in Links : LinkCreate(h, l) \/ VerifyFind(h, l)
             \/ LinkMail(h) \/ VerifyConsume(h) \/ VerifyUser(h) \/ Disconnect(h)
      PROVE  BootstrapInv'
  <2>1. Moves(h, {"stopped", "link", "mail", "consume", "user", "session", task[h].pc})
    BY <1>4, OpenSessionTypes, LinkLookupTypes, LinkCreateTypes, VerifyFindTypes, LinkMailTypes,
       VerifyConsumeTypes, VerifyUserTypes, DisconnectTypes DEF Moves
  <2>2. UNCHANGED <<lock, owners>> /\ users \subseteq users'
    BY <1>4 DEF OpenSession, LinkLookup, LinkCreate, VerifyFind, LinkMail, VerifyConsume, VerifyUser,
       Disconnect, create_user, accountHistory
  <2> QED
    BY <2>1, <2>2, OutsideBootstrap DEF Moves, InBootstrap
<1> QED
  BY <1>1, <1>2, <1>3, <1>4 DEF HandlerStep

LEMMA BootstrapStep ==
    ASSUME AccountTypes, SignInInv, BootstrapInv, [AccountNext]_accountVars
    PROVE  BootstrapInv'
<1>1. CASE UNCHANGED <<lock, owners, users, task>>
  BY <1>1, OutsideBootstrap
<1>2. ASSUME NEW h \in Handlers, HandlerStep(h) \/ Disconnect(h) PROVE BootstrapInv'
  BY <1>2, BootstrapHandlerStep
<1> QED
  BY <1>1, <1>2 DEF AccountNext, accountVars, accountHistory, Resolve, Revoke, RunSpawned, DebounceTouch, WriteTouch, SpawnedFails, RunDelete,
     SweepAccounts, TimePasses

\* Of any number of concurrent POST /bootstrap requests, with storage errors,
\* disconnects and magic-link sign-ins among them, at most one creates the owner
\* (BOOTSTRAP_LOCK, bootstrap_needed, create_user).
THEOREM BootstrapOnce == AccountSpec => []OneBootstrapOwner
<1>1. ASSUME BootstrapInv PROVE OneBootstrapOwner
  <2>1. CASE owners = {}
    BY <2>1, FS_EmptySet DEF OneBootstrapOwner
  <2>2. CASE owners # {}
    <3>1. PICK h : owners = {h}
      BY <1>1, <2>2 DEF BootstrapInv
    <3>2. Cardinality({h}) = 1
      BY FS_Singleton
    <3> QED
      BY <3>1, <3>2 DEF OneBootstrapOwner
  <2> QED
    BY <2>1, <2>2
<1> QED
  BY AccountTypesInvariance, BootstrapInitial, BootstrapStep, <1>1, PTL DEF AccountSpec

(* A magic link that was consumed stays consumed, and whoever consumed it  *)
(* either still carries it to its session or has opened that one session.  *)
Spent(l) == Live(links, l) /\ links[l].used
Carries(h, l) == task[h].pc \in {"user", "session"} /\ task[h].link = l

RedeemInv ==
    /\ redeemed \subseteq (Links \cup {NoLink}) \X Sessions
    /\ \A l \in Links, h \in Handlers : Carries(h, l) => Spent(l)
    /\ \A l \in Links, g, h \in Handlers : Carries(g, l) /\ Carries(h, l) => g = h
    /\ \A l \in Links, h \in Handlers, s \in Sessions : Carries(h, l) => <<l, s>> \notin redeemed
    /\ \A l \in Links, s \in Sessions : <<l, s>> \in redeemed => Spent(l)
    /\ \A l \in Links, s, t \in Sessions : <<l, s>> \in redeemed /\ <<l, t>> \in redeemed => s = t

\* Steps that consume no link and open no session.
LEMMA NothingRedeemed ==
    ASSUME RedeemInv, UNCHANGED redeemed, \A l \in Links : Spent(l) => Spent(l)',
           \A h \in Handlers, l \in Links : Carries(h, l)' => Carries(h, l)
    PROVE  RedeemInv'
  BY DEF RedeemInv

LEMMA RedeemInitial == AccountInit => RedeemInv
  BY TaskConstants DEF AccountInit, RedeemInv, Carries

\* No link that was consumed is swept, reissued or unused again.
LEMMA SpentStays ==
    ASSUME AccountTypes, SignInInv, [AccountNext]_accountVars, NEW l \in Links, Spent(l)
    PROVE  Spent(l)'
<1>0. links[l] \in LiveLinks /\ links[l] # NewRow
  BY LiveRows DEF Spent, Live, NewRow
<1>1. CASE UNCHANGED links
  BY <1>1 DEF Spent, Live
<1>2. ASSUME NEW h \in Handlers, NEW k \in Links, LinkCreate(h, k) PROVE Spent(l)'
  <2>1. k # l
    BY <1>0, <1>2 DEF LinkCreate, create_magic_link
  <2> QED
    BY <1>2, <2>1 DEF LinkCreate, create_magic_link, AccountTypes, Spent, Live
<1>3. ASSUME NEW h \in Handlers, VerifyConsume(h) PROVE Spent(l)'
  <2>1. links' = links \/ links' = [links EXCEPT ![task[h].link].used = TRUE]
    BY <1>3 DEF VerifyConsume, consume_magic_link
  <2>2. [links[l] EXCEPT !.used = TRUE].used /\ [links[l] EXCEPT !.used = TRUE].state = "live"
    BY <1>0 DEF LiveLinks
  <2>3. links'[l] = links[l] \/ links'[l] = [links[l] EXCEPT !.used = TRUE]
    BY <2>1 DEF AccountTypes
  <2> QED
    BY <2>2, <2>3 DEF Spent, Live
<1>4. CASE SweepAccounts
  BY <1>4 DEF SweepAccounts, delete_expired_magic_links, Spent, Live
<1> QED
  BY <1>1, <1>2, <1>3, <1>4 DEF AccountNext, HandlerStep, accountVars, BootstrapClaim, BootstrapCheck,
     BootstrapCreate, OpenSession, LinkLookup, LinkMail, VerifyFind, VerifyUser, Disconnect,
     Resolve, Revoke, RunSpawned, DebounceTouch, WriteTouch, SpawnedFails, RunDelete, TimePasses

LEMMA RedeemHandlerStep ==
    ASSUME AccountTypes, SignInInv, RedeemInv, NEW h \in Handlers, HandlerStep(h) \/ Disconnect(h)
    PROVE  RedeemInv'
<1>0. \A l \in Links : Spent(l) => Spent(l)'
  BY SpentStays DEF AccountNext
<1>a. NoLink \notin Links
  BY AccountAssumption
<1>1. ASSUME \/ \E e \in Emails : BootstrapClaim(h, e) \/ LinkLookup(h, e)
             \/ \E l \in Links : LinkCreate(h, l) \/ VerifyFind(h, l)
             \/ BootstrapCheck(h) \/ LinkMail(h)
      PROVE  RedeemInv'
  <2>1. Moves(h, {"count", "create", "link", "mail", "consume", "stopped"})
    BY <1>1, BootstrapClaimTypes, LinkLookupTypes, LinkCreateTypes, VerifyFindTypes,
       BootstrapCheckTypes, LinkMailTypes DEF Moves
  <2>2. UNCHANGED redeemed
    BY <1>1 DEF BootstrapClaim, LinkLookup, LinkCreate, VerifyFind, BootstrapCheck, LinkMail, accountHistory
  <2>3. \A g \in Handlers, l \in Links : Carries(g, l)' => Carries(g, l)
    BY <2>1 DEF Moves, Carries
  <2> QED
    BY <1>0, <2>2, <2>3, NothingRedeemed
<1>2. CASE BootstrapCreate(h)
  <2>1. \A g \in Handlers, l \in Links : Carries(g, l)' => Carries(g, l)
    BY <1>2, <1>a, BootstrapCreateTypes DEF Moves, Carries
  <2>2. UNCHANGED redeemed
    BY <1>2 DEF BootstrapCreate
  <2> QED
    BY <1>0, <2>1, <2>2, NothingRedeemed
<1>3. CASE VerifyUser(h) \/ Disconnect(h)
  <2>1. /\ Moves(h, {"session", "stopped", task[h].pc})
        /\ task'[h].link \in {task[h].link, NoLink}
        /\ task'[h].pc = "session" => task[h].pc \in {"user", "session"}
    BY <1>3, VerifyUserTypes, DisconnectTypes DEF Moves, VerifyUser, Step
  <2>2. UNCHANGED redeemed
    BY <1>3 DEF VerifyUser, Disconnect, accountHistory
  <2>3. \A g \in Handlers, l \in Links : Carries(g, l)' => Carries(g, l)
    BY <1>a, <2>1 DEF Moves, Carries
  <2> QED
    BY <1>0, <2>2, <2>3, NothingRedeemed
<1>4. CASE VerifyConsume(h)
  <2>0. /\ Moves(h, {"user", "stopped"}) /\ task'[h].link \in {task[h].link, NoLink}
        /\ UNCHANGED redeemed
    BY <1>4, VerifyConsumeTypes DEF VerifyConsume, accountHistory
  <2>1. PICK k \in Links : k = task[h].link
    BY <1>4 DEF VerifyConsume, Step, SignInInv, TaskHolds
  <2>2. CASE ~find_magic_link(k) /\ Finish(h)
    <3>1. \A g \in Handlers, l \in Links : Carries(g, l)' => Carries(g, l)
      BY <2>2, FinishFacts, TaskConstants DEF Carries
    <3> QED
      BY <1>0, <2>0, <3>1, NothingRedeemed
  <2>3. CASE find_magic_link(k) /\ consume_magic_link(k)
    <3>1. ~Spent(k)
      BY <2>3 DEF find_magic_link, Spent
    <3>2. Spent(k)'
      <4>1. links[k] \in LiveLinks
        BY <2>3, LiveRows DEF find_magic_link
      <4>2. links'[k] = [links[k] EXCEPT !.used = TRUE]
        BY <2>3 DEF consume_magic_link, AccountTypes
      <4>3. [links[k] EXCEPT !.used = TRUE].used /\ [links[k] EXCEPT !.used = TRUE].state = "live"
        BY <4>1 DEF LiveLinks
      <4> QED
        BY <4>2, <4>3 DEF Spent, Live
    <3>3. /\ \A g \in Handlers : ~Carries(g, k)
          /\ \A s \in Sessions : <<k, s>> \notin redeemed
      BY <3>1 DEF RedeemInv
    <3>4. \A g \in Handlers, l \in Links : Carries(g, l)' => Carries(g, l) \/ (g = h /\ l = k)
      BY <1>a, <2>0, <2>1 DEF Moves, Carries
    <3>5. \A g \in Handlers : Carries(g, k)' => g = h
      BY <3>3, <3>4
    <3>6. \A g \in Handlers, l \in Links \ {k} : Carries(g, l)' => Carries(g, l)
      BY <3>4
    <3> QED
      BY <1>0, <2>0, <3>2, <3>3, <3>5, <3>6 DEF RedeemInv
  <2> QED
    BY <1>4, <2>1, <2>2, <2>3 DEF VerifyConsume
<1>5. ASSUME NEW s \in Sessions, OpenSession(h, s) PROVE RedeemInv'
  <2>0. Moves(h, {"stopped"}) /\ task[h].pc = "session"
    BY <1>5, OpenSessionTypes DEF OpenSession, Step
  <2>1. PICK k \in Links \cup {NoLink} : k = task[h].link
    BY DEF AccountTypes, TaskRecords
  <2>2. redeemed' = redeemed \cup {<<k, s>>}
    BY <1>5, <2>1 DEF OpenSession
  <2>3. k \in Links => Carries(h, k)
    BY <2>0, <2>1 DEF Carries
  <2>4. \A g \in Handlers, l \in Links : Carries(g, l)' => Carries(g, l) /\ g # h
    BY <2>0 DEF Moves, Carries
  <2>5. k \in Links => /\ Spent(k)'
                       /\ \A g \in Handlers : ~Carries(g, k)'
                       /\ \A x \in Sessions : <<k, x>> \notin redeemed
    BY <1>0, <2>3, <2>4 DEF RedeemInv
  <2>6. \A l \in Links, x \in Sessions : <<l, x>> \in redeemed' => <<l, x>> \in redeemed \/ (l = k /\ x = s)
    BY <2>2
  <2>7. redeemed' \subseteq (Links \cup {NoLink}) \X Sessions
    BY <2>2 DEF RedeemInv
  <2>8. \A l \in Links, x, y \in Sessions : <<l, x>> \in redeemed' /\ <<l, y>> \in redeemed' => x = y
    BY <2>5, <2>6 DEF RedeemInv
  <2>9. /\ \A l \in Links, g \in Handlers, x \in Sessions : Carries(g, l)' => <<l, x>> \notin redeemed'
        /\ \A l \in Links, x \in Sessions : <<l, x>> \in redeemed' => Spent(l)'
    BY <1>0, <2>4, <2>5, <2>6 DEF RedeemInv
  <2>10. /\ \A l \in Links, g \in Handlers : Carries(g, l)' => Spent(l)'
         /\ \A l \in Links, f, g \in Handlers : Carries(f, l)' /\ Carries(g, l)' => f = g
    BY <1>0, <2>4 DEF RedeemInv
  <2> QED
    BY <2>7, <2>8, <2>9, <2>10 DEF RedeemInv
<1> QED
  BY <1>1, <1>2, <1>3, <1>4, <1>5 DEF HandlerStep

LEMMA RedeemStep ==
    ASSUME AccountTypes, SignInInv, RedeemInv, [AccountNext]_accountVars
    PROVE  RedeemInv'
<1>1. CASE UNCHANGED <<redeemed, task>>
  <2>1. \A h \in Handlers, l \in Links : Carries(h, l)' => Carries(h, l)
    BY <1>1 DEF Carries
  <2>2. \A l \in Links : Spent(l) => Spent(l)'
    BY SpentStays
  <2> QED
    BY <1>1, <2>1, <2>2, NothingRedeemed
<1>2. ASSUME NEW h \in Handlers, HandlerStep(h) \/ Disconnect(h) PROVE RedeemInv'
  BY <1>2, RedeemHandlerStep
<1> QED
  BY <1>1, <1>2 DEF AccountNext, accountVars, accountHistory, Resolve, Revoke, RunSpawned, DebounceTouch, WriteTouch, SpawnedFails, RunDelete,
     SweepAccounts, TimePasses

\* A magic link opens at most one session, however many requests present its token
\* at once and wherever they are dropped (consume_magic_link's row count).
THEOREM LinksOpenOnce == AccountSpec => []LinkOpensOneSession
<1>1. ASSUME RedeemInv PROVE LinkOpensOneSession
  <2> SUFFICES ASSUME NEW p \in redeemed, NEW q \in redeemed, p[1] # NoLink, p[1] = q[1]
               PROVE  p = q
    BY DEF LinkOpensOneSession
  <2>1. PICK l \in Links \cup {NoLink}, s \in Sessions : p = <<l, s>>
    BY <1>1 DEF RedeemInv
  <2>2. PICK k \in Links \cup {NoLink}, t \in Sessions : q = <<k, t>>
    BY <1>1 DEF RedeemInv
  <2>3. k = l /\ l \in Links
    BY <2>1, <2>2
  <2>4. s = t
    BY <1>1, <2>1, <2>2, <2>3 DEF RedeemInv
  <2> QED
    BY <2>1, <2>2, <2>3, <2>4
<1> QED
  BY AccountTypesInvariance, RedeemInitial, RedeemStep, <1>1, PTL DEF AccountSpec

\* A session that is gone (logout, revocation, expiry or sweep) stays gone: no late
\* touch, delete or sign-in brings its row back (touch_session's UPDATE).
THEOREM GoneSessionsStayGone == AccountSpec => GoneStaysGone
<1> DEFINE Gone == \A s \in Sessions : sessions[s] = GoneRow => sessions'[s] = GoneRow
<1>1. ASSUME AccountTypes, [AccountNext]_accountVars PROVE [Gone]_accountVars
  <2> SUFFICES ASSUME AccountNext, NEW s \in Sessions, sessions[s] = GoneRow
               PROVE  sessions'[s] = GoneRow
    BY <1>1
  <2>0. ~Live(sessions, s) /\ sessions[s] # NewRow
    BY <1>1, LiveRows
  <2>1. CASE UNCHANGED sessions
    BY <2>1
  <2>2. ASSUME NEW h \in Handlers, NEW x \in Sessions, OpenSession(h, x) PROVE sessions'[s] = GoneRow
    BY <1>1, <2>0, <2>2 DEF OpenSession, create_session, AccountTypes
  <2>3. ASSUME NEW t \in spawned, RunSpawned(t) PROVE sessions'[s] = GoneRow
    BY <1>1, <2>0, <2>3, RunFacts
  <2>4. CASE SweepAccounts
    BY <2>0, <2>4 DEF SweepAccounts, delete_expired_sessions
  <2> QED
    BY <2>1, <2>2, <2>3, <2>4 DEF AccountNext, HandlerStep, BootstrapClaim, BootstrapCheck,
       BootstrapCreate, LinkLookup, LinkCreate, LinkMail, VerifyFind, VerifyConsume, VerifyUser,
       Disconnect, Resolve, Revoke, TimePasses
<1> QED
  BY AccountTypesInvariance, <1>1, PTL DEF AccountSpec, GoneStaysGone

(* A live row that no setback left behind is less than the debounce window *)
(* behind its last request, or a task is outstanding that will see to it:  *)
(* a touch that was spawned for no later a row, or a write that read the   *)
(* clock since that request.                                               *)
SeesTo(t, s) ==
    /\ t.sid = s
    /\ \/ t.kind = "touch" /\ t.at <= sessions[s].last_used_at
       \/ t.kind = "write" /\ t.at >= lastActive[s]
UpToDate(s) == lastActive[s] - sessions[s].last_used_at < Debounce

ClockInv ==
    /\ \A s \in Sessions : Live(sessions, s) => lastActive[s] <= now
    /\ \A s \in Sessions : Live(sessions, s) /\ s \notin behind => UpToDate(s) \/ \E t \in spawned : SeesTo(t, s)

LEMMA ClockTypes ==
    ASSUME AccountTypes
    PROVE  /\ now \in Nat /\ Debounce \in Nat \ {0} /\ \A t \in spawned : t.at \in Nat /\ t.sid \in Sessions
           /\ \A s \in Sessions : lastActive[s] \in Int
           /\ \A s \in Sessions : Live(sessions, s) => sessions[s].last_used_at \in Nat
<1>1. \A s \in Sessions : Live(sessions, s) => sessions[s].last_used_at \in Nat
  BY LiveRows DEF LiveSessions
<1> QED
  BY <1>1, AccountAssumption DEF AccountTypes, SpawnedTasks

\* What a task does to other sessions than its own: nothing.
LEMMA ClockElsewhere ==
    ASSUME AccountTypes, ClockInv, NEW t \in spawned, RunSpawned(t), NEW s \in Sessions, s # t.sid,
           Live(sessions, s)', s \notin behind'
    PROVE  UpToDate(s)' \/ \E x \in spawned' : SeesTo(x, s)'
<1>1. sessions'[s] = sessions[s] /\ lastActive' = lastActive /\ s \notin behind
  BY RunFacts
<1>2. Live(sessions, s)
  BY <1>1 DEF Live
<1>3. UpToDate(s) \/ \E x \in spawned : SeesTo(x, s)
  BY <1>1, <1>2 DEF ClockInv
<1>4. \A x \in spawned : SeesTo(x, s) => x \in spawned'
  BY RunFacts DEF SeesTo
<1>5. UpToDate(s) => UpToDate(s)'
  BY <1>1 DEF UpToDate
<1>6. \A x : SeesTo(x, s) => SeesTo(x, s)'
  BY <1>1 DEF SeesTo
<1> QED
  BY <1>3, <1>4, <1>5, <1>6

\* A touch that finds the row fresh ends; another goes on to write the time of a
\* clock that it read after the last request.
LEMMA DebounceClock ==
    ASSUME AccountTypes, ClockInv, NEW t \in spawned, DebounceTouch(t), t.sid \notin behind,
           Live(sessions, t.sid)
    PROVE  UpToDate(t.sid)' \/ \E x \in spawned' : SeesTo(x, t.sid)'
<1> DEFINE s == t.sid
<1>1. /\ UNCHANGED <<sessions, now, lastActive, behind>> /\ t.kind = "touch" /\ s \in Sessions
      /\ spawned' = (spawned \ {t}) \cup (IF now - t.at < Debounce THEN {} ELSE {Written(t)})
  BY ClockTypes DEF DebounceTouch, Written, accountHistory
<1>2. /\ now \in Nat /\ t.at \in Nat /\ lastActive[s] \in Int /\ sessions[s].last_used_at \in Nat
      /\ Debounce \in Nat /\ lastActive[s] <= now
  BY <1>1, ClockTypes DEF ClockInv
<1>3. CASE UpToDate(s)
  BY <1>1, <1>3 DEF UpToDate
<1>4. CASE \E x \in spawned \ {t} : SeesTo(x, s)
  BY <1>1, <1>4 DEF SeesTo
<1>5. CASE SeesTo(t, s) /\ now - t.at < Debounce
  <2>1. t.at <= sessions[s].last_used_at
    BY <1>1, <1>5 DEF SeesTo
  <2>2. lastActive[s] - sessions[s].last_used_at < Debounce
    BY <1>2, <1>5, <2>1
  <2> QED
    BY <1>1, <2>2 DEF UpToDate
<1>6. CASE ~(now - t.at < Debounce)
  <2>1. PICK w \in spawned' : w = Written(t)
    BY <1>1, <1>6
  <2>2. w.sid = s /\ w.kind = "write" /\ w.at = now
    BY <2>1 DEF Written, AccountTypes, SpawnedTasks
  <2>3. SeesTo(w, s)'
    BY <1>1, <1>2, <2>2 DEF SeesTo
  <2> QED
    BY <2>3
<1> QED
  BY <1>1, <1>3, <1>4, <1>5, <1>6 DEF ClockInv

\* A write is newer than the last request, or newer than the row, or a setback.
LEMMA WriteClock ==
    ASSUME AccountTypes, ClockInv, NEW t \in spawned, WriteTouch(t), t.sid \notin behind',
           Live(sessions, t.sid)
    PROVE  UpToDate(t.sid)' \/ \E x \in spawned' : SeesTo(x, t.sid)'
<1> DEFINE s == t.sid
<1>1. /\ UNCHANGED <<now, lastActive>> /\ t.kind = "write" /\ s \in Sessions
      /\ spawned' = spawned \ {t}
  BY ClockTypes DEF WriteTouch
<1>2. /\ t.at \in Nat /\ lastActive[s] \in Int /\ sessions[s].last_used_at \in Nat
      /\ Debounce \in Nat \ {0}
  BY <1>1, ClockTypes
<1>3. sessions'[s].last_used_at = t.at
  <2>1. sessions'[s] = [sessions[s] EXCEPT !.last_used_at = t.at]
    BY <1>1 DEF WriteTouch, touch_session, AccountTypes
  <2> QED
    BY <2>1, LiveRows, <1>1 DEF LiveSessions
<1>4. CASE t.at >= lastActive[s]
  <2>1. lastActive[s] - t.at < Debounce
    BY <1>2, <1>4
  <2> QED
    BY <1>1, <1>3, <2>1 DEF UpToDate
<1>5. CASE t.at < lastActive[s]
  <2>1. s \notin behind /\ ~(t.at < sessions[s].last_used_at)
    BY <1>2, <1>5 DEF WriteTouch
  <2>2. ~SeesTo(t, s)
    BY <1>1, <1>2, <1>5 DEF SeesTo
  <2>3. CASE UpToDate(s)
    <3>1. lastActive[s] - t.at < Debounce
      BY <1>2, <2>1, <2>3 DEF UpToDate
    <3> QED
      BY <1>1, <1>3, <3>1 DEF UpToDate
  <2>4. ASSUME NEW x \in spawned, SeesTo(x, s) PROVE x \in spawned' /\ SeesTo(x, s)'
    <3>1. x \in spawned' /\ x.at \in Nat
      BY <1>1, <2>2, <2>4, ClockTypes
    <3>2. CASE x.at <= sessions[s].last_used_at /\ x.kind = "touch" /\ x.sid = s
      <4>1. x.at <= t.at
        BY <1>2, <2>1, <3>1, <3>2
      <4> QED
        BY <1>3, <3>1, <3>2, <4>1 DEF SeesTo
    <3>3. CASE x.at >= lastActive[s] /\ x.kind = "write" /\ x.sid = s
      BY <1>1, <3>1, <3>3 DEF SeesTo
    <3> QED
      BY <2>4, <3>2, <3>3 DEF SeesTo
  <2> QED
    BY <1>1, <2>1, <2>3, <2>4 DEF ClockInv
<1> QED
  BY <1>2, <1>4, <1>5

LEMMA RunClock ==
    ASSUME AccountTypes, ClockInv, NEW t \in spawned, RunSpawned(t)
    PROVE  ClockInv'
<1>1. t.sid \in Sessions /\ UNCHANGED <<now, lastActive>>
  BY ClockTypes, RunFacts
<1>2. \A s \in Sessions : Live(sessions, s)' => Live(sessions, s)
  BY RunFacts DEF Live, GoneRow
<1>3. \A s \in Sessions : Live(sessions, s)' => lastActive'[s] <= now'
  BY <1>1, <1>2 DEF ClockInv
<1>4. ASSUME Live(sessions, t.sid)', t.sid \notin behind'
      PROVE  UpToDate(t.sid)' \/ \E x \in spawned' : SeesTo(x, t.sid)'
  <2>1. Live(sessions, t.sid)
    BY <1>1, <1>2, <1>4
  <2>2. CASE DebounceTouch(t)
    BY <1>4, <2>1, <2>2, DebounceClock DEF DebounceTouch, accountHistory
  <2>3. CASE WriteTouch(t)
    BY <1>4, <2>1, <2>3, WriteClock
  <2>4. CASE SpawnedFails(t)
    <3>1. t.kind = "delete" /\ UNCHANGED <<sessions, behind>> /\ spawned' = spawned \ {t}
      BY <1>4, <2>4 DEF SpawnedFails
    <3>2. ~SeesTo(t, t.sid)
      BY <3>1 DEF SeesTo
    <3>3. UpToDate(t.sid) \/ \E x \in spawned' : SeesTo(x, t.sid)
      BY <1>1, <1>4, <2>1, <3>1, <3>2 DEF ClockInv
    <3> QED
      BY <1>1, <3>1, <3>3 DEF UpToDate, SeesTo
  <2>5. CASE RunDelete(t)
    <3>1. sessions'[t.sid] = GoneRow
      BY <1>1, <2>1, <2>5 DEF RunDelete, delete_session, AccountTypes
    <3> QED
      BY <1>4, <3>1 DEF Live, GoneRow
  <2> QED
    BY <2>2, <2>3, <2>4, <2>5 DEF RunSpawned
<1>5. ASSUME NEW s \in Sessions, Live(sessions, s)', s \notin behind'
      PROVE  UpToDate(s)' \/ \E x \in spawned' : SeesTo(x, s)'
  BY <1>4, <1>5, ClockElsewhere
<1> QED
  BY <1>3, <1>5 DEF ClockInv

LEMMA ClockStep ==
    ASSUME AccountTypes, ClockInv, [AccountNext]_accountVars
    PROVE  ClockInv'
<1>0. /\ now \in Nat /\ Debounce \in Nat \ {0} /\ \A s \in Sessions : lastActive[s] \in Int
  BY ClockTypes
<1>1. CASE UNCHANGED <<sessions, spawned, lastActive, behind>> /\ now' \in {now, now + 1}
  <2>1. \A s \in Sessions : Live(sessions, s)' => Live(sessions, s) /\ lastActive'[s] <= now'
    BY <1>0, <1>1 DEF ClockInv, Live
  <2> QED
    BY <1>1, <2>1 DEF ClockInv, UpToDate, SeesTo
<1>2. ASSUME NEW h \in Handlers, NEW s \in Sessions, OpenSession(h, s) PROVE ClockInv'
  <2>1. /\ Live(sessions, s)' /\ sessions'[s].last_used_at = now /\ lastActive'[s] = now
        /\ \A x \in Sessions \ {s} : sessions'[x] = sessions[x] /\ lastActive'[x] = lastActive[x]
        /\ UNCHANGED <<spawned, now, behind>>
    BY <1>2 DEF OpenSession, create_session, AccountTypes, Live
  <2>2. \A x \in Sessions : Live(sessions, x)' => lastActive'[x] <= now'
    BY <1>0, <2>1 DEF ClockInv, Live
  <2>3. UpToDate(s)'
    BY <1>0, <2>1 DEF UpToDate
  <2>4. ASSUME NEW x \in Sessions \ {s}, Live(sessions, x)', x \notin behind'
        PROVE  UpToDate(x)' \/ \E t \in spawned' : SeesTo(t, x)'
    BY <2>1, <2>4 DEF ClockInv, Live, UpToDate, SeesTo
  <2> QED
    BY <2>2, <2>3, <2>4 DEF ClockInv
<1>3. ASSUME NEW s \in Sessions, Resolve(s) \/ \E x \in Sessions : Revoke(x, s) PROVE ClockInv'
  <2>1. /\ UNCHANGED <<sessions, now, behind>> /\ Live(sessions, s)
    BY <1>3 DEF Resolve, Revoke, accountHistory
  <2>2. \E kind \in {"touch", "delete"} :
            /\ Spawn(kind, s)
            /\ lastActive' = IF kind = "touch" THEN [lastActive EXCEPT ![s] = now] ELSE lastActive
    BY <1>3 DEF Resolve, Revoke, accountHistory
  <2>3. PICK t \in SpawnedTasks :
            /\ spawned' = spawned \cup {t}
            /\ t.sid = s /\ t.at = sessions[s].last_used_at
            /\ lastActive' = IF t.kind = "touch" THEN [lastActive EXCEPT ![s] = now] ELSE lastActive
    BY <2>1, <2>2, SpawnFacts
  <2>4. \A x \in Sessions : Live(sessions, x)' => lastActive'[x] <= now'
    BY <1>0, <2>1, <2>3 DEF ClockInv, Live, AccountTypes
  <2>5. ASSUME NEW x \in Sessions, Live(sessions, x)', x \notin behind', x # s \/ t.kind # "touch"
        PROVE  UpToDate(x)' \/ \E y \in spawned' : SeesTo(y, x)'
    <3>1. lastActive'[x] = lastActive[x] /\ Live(sessions, x)
      BY <2>1, <2>3, <2>5 DEF Live, AccountTypes
    <3> QED
      BY <2>1, <2>3, <2>5, <3>1 DEF ClockInv, UpToDate, SeesTo
  <2>6. ASSUME t.kind = "touch" PROVE SeesTo(t, s)'
    <3>1. sessions[s].last_used_at \in Nat
      BY <2>1, ClockTypes
    <3> QED
      BY <2>1, <2>3, <2>6, <3>1 DEF SeesTo
  <2> QED
    BY <2>3, <2>4, <2>5, <2>6 DEF ClockInv
<1>4. ASSUME NEW t \in spawned, RunSpawned(t) PROVE ClockInv'
  BY <1>4, RunClock
<1>5. CASE SweepAccounts
  <2>1. \A s \in Sessions : Live(sessions, s)' => Live(sessions, s) /\ sessions'[s] = sessions[s]
    BY <1>5 DEF SweepAccounts, delete_expired_sessions, Live, GoneRow
  <2>2. UNCHANGED <<spawned, now, lastActive, behind>>
    BY <1>5 DEF SweepAccounts, accountHistory
  <2> QED
    BY <2>1, <2>2 DEF ClockInv, UpToDate, SeesTo
<1> QED
  BY <1>1, <1>2, <1>3, <1>4, <1>5 DEF AccountNext, HandlerStep, accountVars, accountHistory, BootstrapClaim, BootstrapCheck,
       BootstrapCreate, LinkLookup, LinkCreate, LinkMail, VerifyFind, VerifyConsume, VerifyUser,
       Disconnect, TimePasses

LEMMA ClockInitial == AccountInit => ClockInv
<1> SUFFICES ASSUME AccountInit PROVE ClockInv
  OBVIOUS
<1>1. \A s \in Sessions : ~Live(sessions, s)
  BY DEF AccountInit, Live, NewRow
<1> QED
  BY <1>1 DEF ClockInv

\* The debounced touches keep up with the use of a session, for every debounce
\* window and any number of touches that read the clock, write and fail in any
\* order (touch_session, TOUCH_DEBOUNCE_SECS): with none outstanding, a live
\* session's idle clock is less than the window behind the last request it was
\* accepted for, unless a touch failed or was written after a newer one and
\* none that read the clock since that request has been written after it.
THEOREM TouchesKeepUp == AccountSpec => []IdleClockKeepsUp
<1>1. ASSUME ClockInv PROVE IdleClockKeepsUp
  BY <1>1 DEF ClockInv, IdleClockKeepsUp, UpToDate, SeesTo
<1> QED
  BY AccountTypesInvariance, ClockInitial, ClockStep, <1>1, PTL DEF AccountSpec

----------------------------------------------------------------------------
(* THE RATE LIMITER                                                        *)
(*                                                                         *)
(* No address is let through more often than its bucket allows, and the    *)
(* Retry-After it is told is long enough, for every number of addresses    *)
(* and requests and every setting with which the janitor's threshold is    *)
(* longer than a bucket takes to fill.                                     *)
(*                                                                         *)
(* Spending is bounded by an account of every bucket: what was granted and *)
(* what is left in it came from the first burst, from elapsed time or from *)
(* time credited twice.  A bucket that is gone must have been full, so the *)
(* burst of the next one is paid for: this is what the threshold is for.   *)

USE LimiterAssumption

\* A request that holds a reading took it no longer than MaxLag ago.
ReadingsRecent ==
    \A r \in Requests : request[r] # Idle =>
        request[r].ip \in IPs /\ request[r].now <= clock /\ clock <= request[r].now + MaxLag

Past(ip) == bucket[ip].last_refill <= clock /\ since[ip] <= clock

\* What was granted, and what is left, is accounted for.
Paid(ip) ==
    granted[ip] > 0 =>
        IF bucket[ip].present
        THEN granted[ip] + bucket[ip].tokens <= Capacity + (bucket[ip].last_refill - since[ip]) + credit[ip]
        ELSE granted[ip] <= (clock - MaxLag) - since[ip] + credit[ip]

\* A bucket that refused will hold a token when it said so.
PromiseKept(ip) ==
    promise[ip] # NoPromise /\ bucket[ip].present =>
        /\ promise[ip] >= bucket[ip].last_refill
        /\ bucket[ip].tokens + (promise[ip] - bucket[ip].last_refill) >= TokenCost

LimiterInv ==
    /\ LimiterTypeOK
    /\ ReadingsRecent
    /\ \A ip \in IPs : Past(ip) /\ Paid(ip) /\ PromiseKept(ip)

\* Rounding up to whole seconds never shortens the wait.
LEMMA RoundsUp ==
  ASSUME NEW d \in Nat, NEW s \in Nat \ {0}
  PROVE  /\ (d + s - 1) \div s \in Nat
         /\ s * ((d + s - 1) \div s) >= d
<1> DEFINE q == (d + s - 1) \div s
<1>1. q \in Int /\ s * q <= d + s - 1 /\ d + s - 1 < s * q + s
  BY SMT
<1> QED BY <1>1, SMT

LEMMA RetryAfterLongEnough ==
  ASSUME NEW tokens \in Nat, tokens < TokenCost
  PROVE  RetryAfter(tokens) \in Nat /\ RetryAfter(tokens) >= TokenCost - tokens
<1> DEFINE q == (TokenCost - tokens + Second - 1) \div Second
<1>1. q \in Nat /\ Second * q >= TokenCost - tokens
  BY RoundsUp
<1>2. RetryAfter(tokens) = Second * Most(q, 1)
  BY DEF RetryAfter
<1> HIDE DEF q
<1>3. Most(q, 1) \in Nat /\ Most(q, 1) >= q
  BY <1>1 DEF Most
<1>4. Second * Most(q, 1) \in Nat /\ Second * Most(q, 1) >= Second * q
  BY <1>1, <1>3, SMT
<1> QED BY <1>1, <1>2, <1>4

LEMMA LimiterInitInv == LimiterInit => LimiterInv
  BY DEF LimiterInit, LimiterInv, LimiterTypeOK, ReadingsRecent, Past, Paid, PromiseKept, Idle, NoBucket, NoPromise

LEMMA ArriveInv ==
  ASSUME LimiterInv, NEW r \in Requests, Arrive(r)
  PROVE  LimiterInv'
<1>1. PICK ip \in IPs : request' = [request EXCEPT ![r] = [ip |-> ip, now |-> clock]]
  BY DEF Arrive, client_ip
<1>2. UNCHANGED <<clock, bucket, granted, since, credit, promise>>
  BY DEF Arrive, limiterHistory
<1>3. LimiterTypeOK'
  BY <1>1, <1>2 DEF LimiterInv, LimiterTypeOK
<1>4. ReadingsRecent'
  <2>1. SUFFICES ASSUME NEW q \in Requests, request'[q] # Idle
                 PROVE  request'[q].ip \in IPs /\ request'[q].now <= clock' /\ clock' <= request'[q].now + MaxLag
    BY DEF ReadingsRecent
  <2>2. CASE q = r
    BY <1>1, <1>2, <2>2 DEF LimiterInv, LimiterTypeOK
  <2>3. CASE q # r
    BY <1>1, <1>2, <2>1, <2>3 DEF LimiterInv, LimiterTypeOK, ReadingsRecent
  <2> QED BY <2>2, <2>3
<1> QED BY <1>2, <1>3, <1>4 DEF LimiterInv, Past, Paid, PromiseKept

LEMMA TickInv ==
  ASSUME LimiterInv, Tick
  PROVE  LimiterInv'
<1>1. clock \in Nat /\ clock' = clock + 1 /\ UNCHANGED <<bucket, request, granted, since, credit, promise>>
  BY DEF LimiterInv, LimiterTypeOK, Tick, limiterHistory
<1>2. LimiterTypeOK'
  BY <1>1 DEF LimiterInv, LimiterTypeOK, Tick
<1>3. ReadingsRecent'
  BY <1>1 DEF LimiterInv, LimiterTypeOK, ReadingsRecent, Tick, Fresh
<1>4. ASSUME NEW ip \in IPs PROVE Past(ip)' /\ Paid(ip)' /\ PromiseKept(ip)'
  <2>1. /\ Past(ip) /\ Paid(ip) /\ PromiseKept(ip)
        /\ bucket[ip].last_refill \in Nat /\ bucket[ip].tokens \in Nat /\ since[ip] \in Nat
        /\ granted[ip] \in Nat /\ credit[ip] \in Nat
    BY DEF LimiterInv, LimiterTypeOK
  <2> QED BY <1>1, <2>1 DEF Past, Paid, PromiseKept
<1> QED BY <1>2, <1>3, <1>4 DEF LimiterInv

LEMMA EvictInv ==
  ASSUME LimiterInv, Evict
  PROVE  LimiterInv'
<1>1. UNCHANGED <<clock, request, granted, since, credit, promise>>
  BY DEF Evict, limiterHistory
<1>2. \A ip \in IPs : /\ bucket[ip] \in [present : BOOLEAN, tokens : 0 .. Capacity, last_refill : 0 .. MaxTime]
                      /\ \/ bucket'[ip] = bucket[ip]
                         \/ bucket'[ip] = NoBucket /\ clock - bucket[ip].last_refill >= IdleThreshold
                         \/ bucket'[ip] = NoBucket /\ ~bucket[ip].present
  <2>1. SUFFICES ASSUME NEW ip \in IPs
                 PROVE  \/ bucket'[ip] = bucket[ip]
                        \/ bucket'[ip] = NoBucket /\ clock - bucket[ip].last_refill >= IdleThreshold
                        \/ bucket'[ip] = NoBucket /\ ~bucket[ip].present
    BY DEF LimiterInv, LimiterTypeOK
  <2>2. bucket'[ip] = IF Elapsed(clock, bucket[ip].last_refill) < IdleThreshold THEN bucket[ip] ELSE NoBucket
    BY DEF Evict
  <2>3. bucket[ip].last_refill \in Nat /\ clock \in Nat /\ bucket[ip].last_refill <= clock
    BY DEF LimiterInv, LimiterTypeOK, Past
  <2> QED BY <2>2, <2>3 DEF Elapsed, Most
<1>3. LimiterTypeOK'
  <2>1. bucket' \in [IPs -> [present : BOOLEAN, tokens : 0 .. Capacity, last_refill : 0 .. MaxTime]]
    <3>1. \A ip \in IPs : bucket'[ip] \in [present : BOOLEAN, tokens : 0 .. Capacity, last_refill : 0 .. MaxTime]
      <4>1. NoBucket \in [present : BOOLEAN, tokens : 0 .. Capacity, last_refill : 0 .. MaxTime]
        BY DEF NoBucket
      <4> QED BY <1>2, <4>1
    <3>2. bucket' = [ip \in IPs |-> bucket'[ip]]
      BY DEF Evict
    <3> QED BY <3>1, <3>2
  <2> QED BY <1>1, <2>1 DEF LimiterInv, LimiterTypeOK
<1>4. ReadingsRecent'
  BY <1>1 DEF LimiterInv, ReadingsRecent
<1>5. ASSUME NEW ip \in IPs PROVE Past(ip)' /\ Paid(ip)' /\ PromiseKept(ip)'
  <2>1. /\ Past(ip) /\ Paid(ip) /\ PromiseKept(ip) /\ clock \in Nat
        /\ bucket[ip].last_refill \in Nat /\ bucket[ip].tokens \in Nat /\ since[ip] \in Nat
        /\ granted[ip] \in Nat /\ credit[ip] \in Nat /\ bucket[ip].present \in BOOLEAN
    BY DEF LimiterInv, LimiterTypeOK
  <2>2. CASE bucket'[ip] = bucket[ip]
    BY <1>1, <2>1, <2>2 DEF Past, Paid, PromiseKept
  <2>3. CASE bucket'[ip] = NoBucket /\ bucket[ip].present /\ clock - bucket[ip].last_refill >= IdleThreshold
    BY <1>1, <2>1, <2>3 DEF Past, Paid, PromiseKept, NoBucket
  <2>4. CASE bucket'[ip] = NoBucket /\ ~bucket[ip].present
    BY <1>1, <2>1, <2>4 DEF Past, Paid, PromiseKept, NoBucket
  <2> QED BY <1>2, <2>2, <2>3, <2>4
<1> QED BY <1>3, <1>4, <1>5 DEF LimiterInv

LEMMA CheckInv ==
  ASSUME LimiterInv, NEW r \in Requests, Check(r)
  PROVE  LimiterInv'
<1>0. PICK ip \in IPs : ip = request[r].ip
  BY DEF Check
<1> DEFINE reading == request[r].now
           b == Entry(ip, reading)
           tokens == Refilled(b, reading)
           rest == IF tokens >= TokenCost THEN tokens - TokenCost ELSE tokens
           given == IF tokens >= TokenCost THEN TokenCost ELSE 0
           told == IF tokens >= TokenCost THEN NoPromise ELSE reading + RetryAfter(tokens)
<1>1. /\ ip \in IPs
      /\ request' = [request EXCEPT ![r] = Idle]
      /\ since' = [since EXCEPT ![ip] = IF granted[ip] > 0 THEN since[ip] ELSE reading]
      /\ credit' = [credit EXCEPT ![ip] = credit[ip] + Most(b.last_refill - reading, 0)]
      /\ clock' = clock
  BY <1>0 DEF Check
<1>2. request[r] # Idle
  BY <1>0, <1>1 DEF Idle
<1>3. reading \in 0 .. MaxTime /\ reading <= clock /\ clock <= reading + MaxLag /\ clock \in Nat
  BY <1>2 DEF LimiterInv, LimiterTypeOK, ReadingsRecent
<1>4. /\ bucket[ip].last_refill \in 0 .. MaxTime /\ bucket[ip].tokens \in 0 .. Capacity
      /\ bucket[ip].present \in BOOLEAN
      /\ since[ip] \in 0 .. MaxTime /\ granted[ip] \in Nat /\ credit[ip] \in Nat
      /\ Past(ip) /\ Paid(ip) /\ PromiseKept(ip)
  BY <1>1 DEF LimiterInv, LimiterTypeOK
<1>5. /\ b.tokens \in 0 .. Capacity /\ b.last_refill \in 0 .. MaxTime
      /\ bucket[ip].present => b = bucket[ip]
      /\ ~bucket[ip].present => b.tokens = Capacity /\ b.last_refill = reading
  BY <1>3, <1>4 DEF Entry
<1> HIDE DEF b
<1>6. /\ tokens \in 0 .. Capacity /\ tokens <= b.tokens + Most(reading - b.last_refill, 0)
      /\ Most(b.last_refill - reading, 0) \in Nat
      /\ Most(reading - b.last_refill, 0) - Most(b.last_refill - reading, 0) = reading - b.last_refill
  BY <1>3, <1>5 DEF Refilled, Elapsed, Least, Most
<1>7. /\ granted' = [granted EXCEPT ![ip] = granted[ip] + given]
      /\ bucket' = [bucket EXCEPT ![ip] = [present |-> TRUE, tokens |-> rest, last_refill |-> reading]]
      /\ promise' = [promise EXCEPT ![ip] = told]
  <2>1. CASE tokens >= TokenCost
    BY <2>1, <1>0, <1>1, <1>6 DEF Check, b
  <2>2. CASE tokens < TokenCost
    <3>1. granted' = granted /\ granted[ip] + given = granted[ip]
      BY <2>2, <1>0, <1>4, <1>6 DEF Check, b
    <3>2. granted' = [granted EXCEPT ![ip] = granted[ip] + given]
      BY <3>1, <1>1 DEF LimiterInv, LimiterTypeOK
    <3>3. /\ bucket' = [bucket EXCEPT ![ip] = [present |-> TRUE, tokens |-> tokens, last_refill |-> reading]]
          /\ promise' = [promise EXCEPT ![ip] = reading + RetryAfter(tokens)]
      BY <2>2, <1>0, <1>6 DEF Check, b
    <3>4. ~(tokens >= TokenCost)
      BY <2>2, <1>6
    <3>5. rest = tokens /\ told = reading + RetryAfter(tokens)
      BY <3>4
    <3> QED BY <3>2, <3>3, <3>5
  <2> QED BY <1>6, <2>1, <2>2
<1> HIDE DEF reading, tokens
<1>8. /\ rest \in 0 .. Capacity /\ given \in Nat /\ rest + given = tokens
      /\ told \in Nat \cup {NoPromise}
      /\ told # NoPromise => told >= reading /\ rest + (told - reading) >= TokenCost
  <2>1. CASE tokens >= TokenCost
    BY <2>1, <1>6
  <2>2. CASE tokens < TokenCost
    <3>1. RetryAfter(tokens) \in Nat /\ RetryAfter(tokens) >= TokenCost - tokens
      BY <2>2, <1>6, RetryAfterLongEnough
    <3> QED BY <2>2, <3>1, <1>3, <1>6
  <2> QED BY <1>6, <2>1, <2>2
<1> HIDE DEF rest, given, told
<1>9. LimiterTypeOK'
  <2>1. request' \in [Requests -> [ip : IPs \cup {NoIP}, now : 0 .. MaxTime]]
    BY <1>1 DEF LimiterInv, LimiterTypeOK, Idle
  <2>2. bucket' \in [IPs -> [present : BOOLEAN, tokens : 0 .. Capacity, last_refill : 0 .. MaxTime]]
    BY <1>1, <1>3, <1>7, <1>8 DEF LimiterInv, LimiterTypeOK
  <2>3. granted' \in [IPs -> Nat] /\ credit' \in [IPs -> Nat]
    BY <1>1, <1>4, <1>6, <1>7, <1>8 DEF LimiterInv, LimiterTypeOK
  <2>4. since' \in [IPs -> 0 .. MaxTime] /\ promise' \in [IPs -> Nat \cup {NoPromise}]
    BY <1>1, <1>3, <1>4, <1>7, <1>8 DEF LimiterInv, LimiterTypeOK
  <2> QED BY <1>1, <2>1, <2>2, <2>3, <2>4 DEF LimiterInv, LimiterTypeOK
<1>10. ReadingsRecent'
  BY <1>1 DEF LimiterInv, LimiterTypeOK, ReadingsRecent
<1>11. /\ since'[ip] = (IF granted[ip] > 0 THEN since[ip] ELSE reading)
       /\ credit'[ip] = credit[ip] + Most(b.last_refill - reading, 0)
       /\ granted'[ip] = granted[ip] + given
       /\ promise'[ip] = told
       /\ bucket'[ip] = [present |-> TRUE, tokens |-> rest, last_refill |-> reading]
  BY <1>1, <1>7 DEF LimiterInv, LimiterTypeOK
<1>12. Past(ip)' /\ PromiseKept(ip)'
  <2>1. bucket'[ip].present /\ bucket'[ip].tokens = rest /\ bucket'[ip].last_refill = reading
    BY <1>11
  <2>2. since'[ip] <= clock'
    BY <1>1, <1>3, <1>4, <1>11 DEF Past
  <2>3. Past(ip)'
    BY <1>1, <1>3, <2>1, <2>2 DEF Past
  <2>4. PromiseKept(ip)'
    BY <1>8, <1>11, <2>1 DEF PromiseKept, NoPromise
  <2> QED BY <2>3, <2>4
<1>13. Paid(ip)'
  <2>1. granted[ip] + given + rest <= Capacity + (reading - since'[ip]) + credit'[ip]
    <3>1. CASE granted[ip] = 0
      BY <3>1, <1>3, <1>4, <1>6, <1>8, <1>11
    <3>2. CASE granted[ip] > 0 /\ bucket[ip].present
      <4>1. granted[ip] + b.tokens <= Capacity + (b.last_refill - since[ip]) + credit[ip]
        BY <3>2, <1>4, <1>5 DEF Paid
      <4>2. Most(reading - b.last_refill, 0) \in Int
        BY <1>3, <1>5 DEF Most
      <4> QED BY <3>2, <4>1, <4>2, <1>3, <1>4, <1>5, <1>6, <1>8, <1>11
    <3>3. CASE granted[ip] > 0 /\ ~bucket[ip].present
      <4>1. granted[ip] <= (clock - MaxLag) - since[ip] + credit[ip]
        BY <3>3, <1>4 DEF Paid
      <4> QED BY <3>3, <4>1, <1>3, <1>4, <1>6, <1>8, <1>11
    <3> QED BY <1>4, <3>1, <3>2, <3>3
  <2>2. bucket'[ip].present /\ bucket'[ip].tokens = rest /\ bucket'[ip].last_refill = reading
    BY <1>11
  <2>3. granted'[ip] + rest <= Capacity + (reading - since'[ip]) + credit'[ip]
    BY <2>1, <1>11
  <2> QED BY <2>2, <2>3 DEF Paid
<1>14. ASSUME NEW other \in IPs PROVE Past(other)' /\ Paid(other)' /\ PromiseKept(other)'
  <2>1. CASE other = ip
    BY <2>1, <1>12, <1>13
  <2>2. CASE other # ip
    <3>1. /\ bucket'[other] = bucket[other] /\ since'[other] = since[other] /\ credit'[other] = credit[other]
          /\ granted'[other] = granted[other] /\ promise'[other] = promise[other]
      BY <2>2, <1>1, <1>7 DEF LimiterInv, LimiterTypeOK
    <3> QED BY <3>1, <1>1 DEF LimiterInv, Past, Paid, PromiseKept
  <2> QED BY <2>1, <2>2
<1> QED BY <1>9, <1>10, <1>14 DEF LimiterInv

LEMMA LimiterNextInv == LimiterInv /\ [LimiterNext]_limiterVars => LimiterInv'
<1> SUFFICES ASSUME LimiterInv, [LimiterNext]_limiterVars PROVE LimiterInv'
  OBVIOUS
<1>1. ASSUME NEW r \in Requests, Arrive(r) PROVE LimiterInv'
  BY <1>1, ArriveInv
<1>2. ASSUME NEW r \in Requests, Check(r) PROVE LimiterInv'
  BY <1>2, CheckInv
<1>3. CASE Evict
  BY <1>3, EvictInv
<1>4. CASE Tick
  BY <1>4, TickInv
<1>5. CASE UNCHANGED limiterVars
  BY <1>5 DEF LimiterInv, LimiterTypeOK, ReadingsRecent, Past, Paid, PromiseKept, limiterVars
<1> QED BY <1>1, <1>2, <1>3, <1>4, <1>5 DEF LimiterNext

(* Every bucket, reading and counter keeps its type, and no bucket holds   *)
(* more than its capacity (RateLimiter::check).                            *)
THEOREM LimiterTypeCorrect == LimiterSpec => []LimiterTypeOK
<1>1. LimiterInv => LimiterTypeOK
  BY DEF LimiterInv
<1> QED BY <1>1, LimiterInitInv, LimiterNextInv, PTL DEF LimiterSpec

(* However requests and the janitor interleave, an address is never let    *)
(* through for more than one full bucket, what the elapsed time refilled,  *)
(* and what out-of-order clock readings credited twice (check, evict_idle).*)
THEOREM NoOverspending == LimiterSpec => []NeverOverspent
<1>1. LimiterInv => NeverOverspent
  <2>1. SUFFICES ASSUME LimiterInv, NEW ip \in IPs
                 PROVE  granted[ip] <= Capacity + (clock - since[ip]) + credit[ip]
    BY DEF NeverOverspent
  <2>2. /\ bucket[ip].last_refill \in Nat /\ bucket[ip].tokens \in Nat /\ clock \in Nat
        /\ since[ip] \in Nat /\ granted[ip] \in Nat /\ credit[ip] \in Nat
    BY <2>1 DEF LimiterInv, LimiterTypeOK
  <2>3. Past(ip) /\ Paid(ip)
    BY <2>1 DEF LimiterInv
  <2> QED BY <2>2, <2>3 DEF Past, Paid
<1> QED BY <1>1, LimiterInitInv, LimiterNextInv, PTL DEF LimiterSpec

(* A refused address that waits for the Retry-After it was told and sends  *)
(* nothing else meanwhile finds a token, also when the janitor took the    *)
(* bucket away (check, evict_idle).                                        *)
THEOREM RetryAfterSuffices == LimiterSpec => []RetryAfterIsEnough
<1>1. LimiterInv => RetryAfterIsEnough
  <2>1. SUFFICES ASSUME LimiterInv, NEW ip \in IPs, promise[ip] # NoPromise
                 PROVE  Refilled(Entry(ip, promise[ip]), promise[ip]) >= TokenCost
    BY DEF RetryAfterIsEnough
  <2>2. /\ bucket[ip].last_refill \in Nat /\ bucket[ip].tokens \in Nat /\ promise[ip] \in Nat
        /\ bucket[ip].present \in BOOLEAN /\ PromiseKept(ip)
    BY <2>1 DEF LimiterInv, LimiterTypeOK
  <2>3. CASE bucket[ip].present
    <3>1. /\ promise[ip] >= bucket[ip].last_refill
          /\ bucket[ip].tokens + (promise[ip] - bucket[ip].last_refill) >= TokenCost
      BY <2>1, <2>2, <2>3 DEF PromiseKept
    <3>2. Elapsed(promise[ip], bucket[ip].last_refill) = promise[ip] - bucket[ip].last_refill
      BY <2>2, <3>1 DEF Elapsed, Most
    <3>3. Refilled(bucket[ip], promise[ip]) >= TokenCost
      BY <2>2, <3>1, <3>2 DEF Refilled, Least
    <3> QED BY <2>3, <3>3 DEF Entry
  <2>4. CASE ~bucket[ip].present
    <3> DEFINE full == [present |-> TRUE, tokens |-> Capacity, last_refill |-> promise[ip]]
    <3>1. Elapsed(promise[ip], full.last_refill) = 0
      BY <2>2 DEF Elapsed, Most
    <3>2. Refilled(full, promise[ip]) >= TokenCost
      BY <3>1 DEF Refilled, Least
    <3> QED BY <2>4, <3>2 DEF Entry
  <2> QED BY <2>3, <2>4
<1> QED BY <1>1, LimiterInitInv, LimiterNextInv, PTL DEF LimiterSpec

----------------------------------------------------------------------------
(* Every part of the front door keeps its types and what goes with them,   *)
(* whatever the other parts do meanwhile.                                  *)
THEOREM FrontDoorTypeCorrect == FrontDoorSpec => []FrontDoorTypeOK
<1>1. LimiterTypeOK /\ AccountTypeOK /\ BulkTypeOK /\ PublicTypeOK => FrontDoorTypeOK
  BY DEF FrontDoorTypeOK
<1> QED BY <1>1, LimiterTypeCorrect, AccountTypeCorrect, BulkTypeCorrect, PublicTypeCorrect, PTL DEF FrontDoorSpec
=============================================================================
