------------------------------ MODULE Accounts ------------------------------
(***************************************************************************)
(* Sign-in: the first-user bootstrap, magic links, browser sessions, and   *)
(* the sweep that purges them (auth/service.rs, auth/routes.rs,            *)
(* auth/middleware.rs, cleanup.rs and the account tables of duckdb.rs).    *)
(*                                                                         *)
(* A handler is a task that may be interleaved with any other, or dropped  *)
(* by the HTTP server when its client disconnects, wherever it awaits      *)
(* storage.  The storage call it was waiting for runs on the blocking pool *)
(* and still takes effect.  A user is identified with the address it signs *)
(* in with (users.email is UNIQUE and no code deletes a user).             *)
(***************************************************************************)
EXTENDS Integers, FiniteSets

CONSTANTS
    Emails,            \* addresses a user may have
    Handlers,          \* request tasks; each serves one request
    Sessions,          \* identifiers (cookie hashes) sessions are created with
    Links,             \* identifiers magic links are created with
    AbsoluteTimeout,   \* session.absolute_timeout_days
    IdleTimeout,       \* session.idle_timeout_days
    LinkExpiry,        \* magic_link.expiry_minutes
    Debounce,          \* TOUCH_DEBOUNCE_SECS
    MaxNow,            \* bound: the clock stops here
    MaxFaults,         \* bound: storage errors
    MaxDrops,          \* bound: clients that disconnect
    Nobody, NoLink     \* no user, no link

(* Timeouts are unsigned (u32), TOUCH_DEBOUNCE_SECS is not zero, and the   *)
(* table of users is finite.                                               *)
ASSUME AccountAssumption ==
    /\ NoLink \notin Links /\ Nobody \notin Emails
    /\ IsFiniteSet(Emails)
    /\ {AbsoluteTimeout, IdleTimeout, LinkExpiry, MaxNow, MaxFaults, MaxDrops} \subseteq Nat
    /\ Debounce \in Nat \ {0}

VARIABLES
    users,         \* table users
    sessions,      \* table sessions; a row is absent before and after its life
    links,         \* table magic_link_tokens
    lock,          \* BOOTSTRAP_LOCK
    task,          \* task[h]: where a request task stands and what it holds
    spawned,       \* fire-and-forget tasks: touches and deletes of sessions
    now,
    faults, drops,
    mailed,        \* links whose token was sent by mail
    owners,        \* history: handlers that created the bootstrap owner
    redeemed,      \* history: sessions opened, with the link that opened them
    lastActive,    \* history: last time a session was accepted
    behind         \* history: sessions whose idle clock a touch left behind

accountVars == <<users, sessions, links, lock, task, spawned, now, faults, drops,
                 mailed, owners, redeemed, lastActive, behind>>
accountHistory == <<owners, redeemed, lastActive, behind>>

NewRow == [state |-> "new"]
GoneRow == [state |-> "gone"]
Stopped == [pc |-> "stopped", user |-> Nobody, link |-> NoLink, known |-> FALSE, gone |-> FALSE]
NewTask == [Stopped EXCEPT !.pc = "new"]
Live(table, id) == table[id].state = "live"

(* The service may have run before: accounts may exist, and links that     *)
(* were requested for them may lie unread in a mailbox.                    *)
AccountInit ==
    /\ users \in SUBSET Emails
    /\ sessions = [s \in Sessions |-> NewRow]
    /\ mailed \in SUBSET (IF users = {} THEN {} ELSE Links)
    /\ \E owner \in IF users = {} THEN {Nobody} ELSE users :
         links = [l \in Links |-> IF l \in mailed
             THEN [state |-> "live", email |-> owner, expires_at |-> LinkExpiry, used |-> FALSE]
             ELSE NewRow]
    /\ lock = FALSE
    /\ task = [h \in Handlers |-> NewTask]
    /\ spawned = {}
    /\ now = 0
    /\ faults = 0
    /\ drops = 0
    /\ owners = {}
    /\ redeemed = {}
    /\ lastActive = [s \in Sessions |-> -1]
    /\ behind = {}

----------------------------------------------------------------------------
(* The account tables.                                                     *)
count_users == Cardinality(users)

(* users.email is UNIQUE: a second insert of an address is a conflict.     *)
create_user(e) == users' = users \cup {e}

create_session(s, u) ==
    /\ sessions[s] = NewRow
    /\ sessions' = [sessions EXCEPT ![s] = [state |-> "live", user |-> u,
                       expires_at |-> now + AbsoluteTimeout, last_used_at |-> now]]

delete_session(s) ==
    sessions' = [sessions EXCEPT ![s] = IF Live(sessions, s) THEN GoneRow ELSE @]

\* mutant: the touch is an upsert
touch_sessionUpsert(s, at) ==
    sessions' = [sessions EXCEPT ![s] = [state |-> "live", user |-> CHOOSE u \in users : TRUE,
                    expires_at |-> at + AbsoluteTimeout, last_used_at |-> at]]
(* UPDATE ... WHERE id_hash = ?: a row that is gone stays gone, and a time *)
(* older than the row's is written all the same.                           *)
touch_session(s, at) ==
    sessions' = [sessions EXCEPT ![s] = IF Live(sessions, s) THEN [@ EXCEPT !.last_used_at = at] ELSE @]

create_magic_link(l, e) ==
    /\ links[l] = NewRow
    /\ links' = [links EXCEPT ![l] = [state |-> "live", email |-> e,
                    expires_at |-> now + LinkExpiry, used |-> FALSE]]

find_magic_link(l) == Live(links, l) /\ ~links[l].used

(* UPDATE ... WHERE id = ? AND used_at IS NULL: the row count decides who  *)
(* redeemed the link.  The expiry is not looked at.                        *)
consume_magic_link(l) == links' = [links EXCEPT ![l].used = TRUE]

delete_expired_sessions ==
    sessions' = [s \in Sessions |->
        IF Live(sessions, s) /\ sessions[s].expires_at < now THEN GoneRow ELSE sessions[s]]

delete_expired_magic_links ==
    links' = [l \in Links |->
        IF Live(links, l) /\ links[l].expires_at < now /\ ~links[l].used THEN GoneRow ELSE links[l]]

----------------------------------------------------------------------------
Step(h, pc) == task[h].pc = pc

(* The task goes on to pc, unless its client is gone: then what it was     *)
(* waiting for was the last thing it did.                                  *)
Goto(h, t) == task' = [task EXCEPT ![h] = IF task[h].gone THEN Stopped ELSE t]
Finish(h) == task' = [task EXCEPT ![h] = Stopped]

(* Only a task that is still polled runs the code after its await.         *)
Release(h) == lock' = IF task[h].gone THEN lock ELSE FALSE

(* A storage call may fail.                                                *)
Fault == faults < MaxFaults /\ faults' = faults + 1

\* mutant: no lock
BootstrapClaimUnlocked(h, e) ==
    /\ Step(h, "new")
    /\ task' = [task EXCEPT ![h] = [@ EXCEPT !.pc = "count", !.user = e]]
    /\ UNCHANGED <<users, sessions, links, lock, spawned, now, faults, drops, mailed, accountHistory>>
(* POST /bootstrap: claim the lock or answer 409 at once.                  *)
BootstrapClaim(h, e) ==
    /\ Step(h, "new")
    /\ \/ /\ ~lock
          /\ lock' = TRUE
          /\ task' = [task EXCEPT ![h] = [@ EXCEPT !.pc = "count", !.user = e]]
       \/ /\ lock
          /\ Finish(h)
          /\ UNCHANGED lock
    /\ UNCHANGED <<users, sessions, links, spawned, now, faults, drops, mailed, accountHistory>>

(* bootstrap_needed() inside the lock: an error or a user already there    *)
(* releases the lock and answers.                                          *)
BootstrapCheck(h) ==
    /\ Step(h, "count")
    /\ \/ /\ count_users = 0
          /\ Goto(h, [task[h] EXCEPT !.pc = "create"])
          /\ UNCHANGED <<lock, faults>>
       \/ /\ count_users > 0
          /\ Finish(h)
          /\ Release(h)
          /\ UNCHANGED faults
       \/ /\ Fault
          /\ Finish(h)
          /\ Release(h)
    /\ UNCHANGED <<users, sessions, links, spawned, now, drops, mailed, accountHistory>>

(* create_user, then the lock is released whatever came of it.             *)
BootstrapCreate(h) ==
    /\ Step(h, "create")
    /\ Release(h)
    /\ \/ /\ create_user(task[h].user)
          /\ owners' = IF task[h].user \in users THEN owners ELSE owners \cup {h}
          /\ Goto(h, IF task[h].user \in users THEN Stopped ELSE [task[h] EXCEPT !.pc = "session"])
          /\ UNCHANGED faults
       \/ /\ Fault
          /\ Finish(h)
          /\ UNCHANGED <<users, owners>>
    /\ UNCHANGED <<sessions, links, spawned, now, drops, mailed, redeemed, lastActive, behind>>

(* create_session_for: the last storage call of a bootstrap or a sign-in.  *)
OpenSession(h, s) ==
    /\ Step(h, "session")
    /\ create_session(s, task[h].user)
    /\ redeemed' = redeemed \cup {<<task[h].link, s>>}
    /\ lastActive' = [lastActive EXCEPT ![s] = now]
    /\ Finish(h)
    /\ UNCHANGED <<users, links, lock, spawned, now, faults, drops, mailed, owners, behind>>

(* POST /magic-link/request: whether the address is known is read first,   *)
(* the row is written in any case, and only a known address gets mail.     *)
LinkLookup(h, e) ==
    /\ Step(h, "new")
    /\ task' = [task EXCEPT ![h] = [@ EXCEPT !.pc = "link", !.user = e, !.known = e \in users]]
    /\ UNCHANGED <<users, sessions, links, lock, spawned, now, faults, drops, mailed, accountHistory>>

LinkCreate(h, l) ==
    /\ Step(h, "link")
    /\ create_magic_link(l, task[h].user)
    /\ Goto(h, IF task[h].known THEN [task[h] EXCEPT !.pc = "mail", !.link = l] ELSE Stopped)
    /\ UNCHANGED <<users, sessions, lock, spawned, now, faults, drops, mailed, accountHistory>>

LinkMail(h) ==
    /\ Step(h, "mail")
    /\ ~task[h].gone
    /\ mailed' = mailed \cup {task[h].link}
    /\ Finish(h)
    /\ UNCHANGED <<users, sessions, links, lock, spawned, now, faults, drops, accountHistory>>

(* POST /magic-link/verify, with a token from a mail: the unused rows with *)
(* its prefix, then the atomic consume, then find-or-create the user.      *)
VerifyFind(h, l) ==
    /\ Step(h, "new")
    /\ l \in mailed
    /\ task' = [task EXCEPT ![h] = IF find_magic_link(l)
                    THEN [@ EXCEPT !.pc = "consume", !.link = l] ELSE Stopped]
    /\ UNCHANGED <<users, sessions, links, lock, spawned, now, faults, drops, mailed, accountHistory>>

\* mutant: the row count of the UPDATE is ignored
VerifyConsumeBlind(h) ==
    /\ Step(h, "consume")
    /\ Live(links, task[h].link)
    /\ consume_magic_link(task[h].link)
    /\ Goto(h, [task[h] EXCEPT !.pc = "user", !.user = links[task[h].link].email])
    /\ UNCHANGED <<users, sessions, lock, spawned, now, faults, drops, mailed, accountHistory>>
VerifyConsume(h) ==
    LET l == task[h].link
    IN  /\ Step(h, "consume")
        /\ \/ /\ find_magic_link(l)
              /\ consume_magic_link(l)
              /\ Goto(h, [task[h] EXCEPT !.pc = "user", !.user = links[l].email])
           \/ /\ ~find_magic_link(l)
              /\ Finish(h)
              /\ UNCHANGED links
        /\ UNCHANGED <<users, sessions, lock, spawned, now, faults, drops, mailed, accountHistory>>

VerifyUser(h) ==
    /\ Step(h, "user")
    /\ create_user(task[h].user)
    /\ Goto(h, [task[h] EXCEPT !.pc = "session"])
    /\ UNCHANGED <<sessions, links, lock, spawned, now, faults, drops, mailed, accountHistory>>

(* The client disconnects and the handler's future is dropped where it     *)
(* awaits.                                                                 *)
Disconnect(h) ==
    /\ drops < MaxDrops
    /\ task[h].pc \notin {"new", "stopped"}
    /\ ~task[h].gone
    /\ task' = [task EXCEPT ![h].gone = TRUE]
    /\ drops' = drops + 1
    /\ UNCHANGED <<users, sessions, links, lock, spawned, now, faults, mailed, accountHistory>>

----------------------------------------------------------------------------
(* lookup_session: absolute timeout, then idle timeout.                    *)
SessionActive(s) ==
    /\ Live(sessions, s)
    /\ now <= sessions[s].expires_at
    /\ now <= sessions[s].last_used_at + IdleTimeout

Spawn(kind, s) ==
    spawned' = spawned \cup {[kind |-> kind, sid |-> s, at |-> sessions[s].last_used_at]}

(* resolve_identity with a session cookie: an active session spawns a      *)
(* touch, an expired one a delete.                                         *)
Resolve(s) ==
    /\ Live(sessions, s)
    /\ \/ /\ SessionActive(s)
          /\ Spawn("touch", s)
          /\ lastActive' = [lastActive EXCEPT ![s] = now]
       \/ /\ ~SessionActive(s)
          /\ Spawn("delete", s)
          /\ UNCHANGED lastActive
    /\ UNCHANGED <<users, sessions, links, lock, task, now, faults, drops, mailed, owners, redeemed, behind>>

(* DELETE /session and DELETE /sessions/{id}: the caller's session is      *)
(* active and the session to go is its own or one of the same user; the    *)
(* delete is a later storage call.                                         *)
Revoke(s, t) ==
    /\ SessionActive(s)
    /\ Live(sessions, t)
    /\ sessions[t].user = sessions[s].user
    /\ Spawn("delete", t)
    /\ UNCHANGED <<users, sessions, links, lock, task, now, faults, drops, mailed, accountHistory>>

\* mutant: the debounce window includes its end
DebounceTouchLate(t) ==
    /\ t.kind = "touch"
    /\ spawned' = (spawned \ {t}) \cup
                     (IF now - t.at <= Debounce THEN {} ELSE {[t EXCEPT !.kind = "write", !.at = now]})
    /\ UNCHANGED <<users, sessions, links, lock, task, now, faults, drops, mailed, accountHistory>>
(* touch_session reads its own clock and compares it with the row that was *)
(* read when the request came in; the storage call it then awaits writes   *)
(* that time.                                                              *)
DebounceTouch(t) ==
    /\ t.kind = "touch"
    /\ spawned' = (spawned \ {t}) \cup
                     (IF now - t.at < Debounce THEN {} ELSE {[t EXCEPT !.kind = "write", !.at = now]})
    /\ UNCHANGED <<users, sessions, links, lock, task, now, faults, drops, mailed, accountHistory>>

\* A touch that read the clock since the last request makes up for others;
\* an older one that is written after a newer one puts the idle clock back.
WriteTouch(t) ==
    /\ t.kind = "write"
    /\ touch_session(t.sid, t.at)
    /\ spawned' = spawned \ {t}
    /\ behind' = CASE t.at >= lastActive[t.sid] -> behind \ {t.sid}
                   [] t.at < lastActive[t.sid] /\ Live(sessions, t.sid) /\ t.at < sessions[t.sid].last_used_at ->
                          behind \cup {t.sid}
                   [] OTHER -> behind
    /\ UNCHANGED <<users, links, lock, task, now, faults, drops, mailed, owners, redeemed, lastActive>>

(* A spawned task whose storage call fails logs it and ends.               *)
SpawnedFails(t) ==
    /\ t.kind \in {"write", "delete"}
    /\ Fault
    /\ spawned' = spawned \ {t}
    /\ behind' = IF t.kind = "write" THEN behind \cup {t.sid} ELSE behind
    /\ UNCHANGED <<users, sessions, links, lock, task, now, drops, mailed, owners, redeemed, lastActive>>

RunDelete(t) ==
    /\ t.kind = "delete"
    /\ delete_session(t.sid)
    /\ spawned' = spawned \ {t}
    /\ UNCHANGED <<users, links, lock, task, now, faults, drops, mailed, accountHistory>>

RunSpawned(t) == DebounceTouch(t) \/ WriteTouch(t) \/ SpawnedFails(t) \/ RunDelete(t)

(* The account part of a cleanup sweep.                                    *)
SweepAccounts ==
    /\ delete_expired_sessions
    /\ delete_expired_magic_links
    /\ UNCHANGED <<users, lock, task, spawned, now, faults, drops, mailed, accountHistory>>

TimePasses ==
    /\ now < MaxNow
    /\ now' = now + 1
    /\ UNCHANGED <<users, sessions, links, lock, task, spawned, faults, drops, mailed, accountHistory>>

HandlerStep(h) ==
    \/ \E e \in Emails : BootstrapClaim(h, e) \/ LinkLookup(h, e)
    \/ BootstrapCheck(h) \/ BootstrapCreate(h)
    \/ \E s \in Sessions : OpenSession(h, s)
    \/ \E l \in Links : LinkCreate(h, l) \/ VerifyFind(h, l)
    \/ LinkMail(h) \/ VerifyConsume(h) \/ VerifyUser(h)

AccountNext ==
    \/ \E h \in Handlers : HandlerStep(h) \/ Disconnect(h)
    \/ \E s \in Sessions : Resolve(s) \/ \E t \in Sessions : Revoke(s, t)
    \/ \E t \in spawned : RunSpawned(t)
    \/ SweepAccounts
    \/ TimePasses

AccountSpec == AccountInit /\ [][AccountNext]_accountVars

----------------------------------------------------------------------------
(* The shape of the tables and of the tasks.                               *)
AccountTypeOK ==
    /\ users \subseteq Emails
    /\ \A s \in Sessions : Live(sessions, s) => sessions[s].user \in users
    /\ \A l \in Links : Live(links, l) => links[l].email \in Emails
    /\ lock \in BOOLEAN
    /\ \A h \in Handlers : task[h].user \in Emails \cup {Nobody}
    /\ \A t \in spawned : t.sid \in Sessions /\ t.kind \in {"touch", "write", "delete"}
    /\ now \in 0 .. MaxNow /\ faults \in 0 .. MaxFaults /\ drops \in 0 .. MaxDrops

(* Of any number of concurrent POST /bootstrap requests, with storage      *)
(* errors and disconnects among them, at most one creates the owner.       *)
OneBootstrapOwner == Cardinality(owners) <= 1

(* A magic link opens at most one session, however many requests present   *)
(* its token at once.                                                      *)
LinkOpensOneSession ==
    \A p, q \in redeemed : (p[1] # NoLink /\ p[1] = q[1]) => p = q

(* Once a session is gone (logout, revocation, expiry or sweep) no late    *)
(* touch brings it back.                                                   *)
GoneStaysGone ==
    [][\A s \in Sessions : sessions[s] = GoneRow => sessions'[s] = GoneRow]_accountVars

(* The debounced touches keep up with the use of a session: when none is   *)
(* outstanding its idle clock is less than the debounce window behind the  *)
(* last request it was accepted for, unless a touch failed or was written  *)
(* after a newer one and none has made up for it since.  So a session in   *)
(* use does not idle out because requests raced one another, and one       *)
(* request ends what a storage error did.                                  *)
IdleClockKeepsUp ==
    \A s \in Sessions :
        (Live(sessions, s) /\ s \notin behind /\ \A t \in spawned : t.sid = s => t.kind = "delete") =>
            lastActive[s] - sessions[s].last_used_at < Debounce
=============================================================================
