----------------------------- MODULE MCFrontDoor -----------------------------
(***************************************************************************)
(* The parts of the server a request meets before and around its handler,  *)
(* for TLC: the rate limiter, sign-in, bulk requests with an idempotency   *)
(* key and the public status page.  They share no state, so each behaviour *)
(* is one part's, chosen at the start.  The public page has four parts:    *)
(* requests against one write, a visitor who returns, any tables without   *)
(* requests, and operators without requests.                               *)
(***************************************************************************)
EXTENDS FrontDoor

CONSTANTS Parts,              \* the parts of a run
          Watched, Operator,  \* the target that changes, and who changes it, while requests are served
          Regular             \* the reader who asks first, and the one who comes back
VARIABLE part

\* Bodies of bulk requests: k1 has two items, the others one.
TwoAndOne == [k \in Keys |-> IF k = "k1" THEN <<1, 2>> ELSE <<1>>]

vars == <<part, limiterVars, accountVars, bulkVars, publicVars>>

EmptyTables ==
    [page |-> [p \in Pages |-> "enabled"], bound |-> [p \in Pages |-> Targets],
     incident |-> [i \in Incidents |-> Nothing], postmortem |-> [i \in Incidents |-> "none"],
     window |-> [w \in Windows |-> Nothing], latest |-> [t \in Targets |-> Nothing],
     logo |-> [p \in Pages |-> 0]]

\* Tables the console can bring about.
AnyTables ==
    {[EmptyTables EXCEPT !.incident = inc, !.window = win, !.latest = latest] :
        inc \in [Incidents -> IncidentRows \cup {Nothing}],
        win \in [Windows -> {w \in WindowRows : w.starts < w.ends} \cup {Nothing}],
        latest \in [Targets -> Statuses \cup {Nothing}]}

\* Something for every handler to work on.
SomeTables ==
    [EmptyTables EXCEPT
        !.incident = [i \in Incidents |-> IF \A j \in Incidents : i <= j
            THEN [target |-> Watched, severity |-> "minor", open |-> TRUE, titled |-> TRUE] ELSE Nothing],
        !.window = [w \in Windows |-> [starts |-> 0, ends |-> MaxHour + 1, covers |-> {Watched}]]]

\* A page of one component, with nothing on it but its latest result and a logo.
PlainTables == [EmptyTables EXCEPT !.bound = [p \in Pages |-> {Watched}]]

\* Tables that differ only in what they say about Watched.
SmallTables(tabs) ==
    /\ \A t \in Targets, p \in Pages :
          IF t = Watched THEN tabs.latest[t] \in {Nothing, "down"}
          ELSE tabs.latest[t] = Nothing /\ t \in tabs.bound[p]
    /\ \A i \in Rows(tabs.incident) : /\ tabs.incident[i].target = Watched
                                      /\ tabs.incident[i].severity = "minor"
                                      /\ \A j \in Incidents : i <= j
    /\ \A w \in Rows(tabs.window) : /\ tabs.window[w].covers = {Watched}
                                    /\ tabs.window[w].ends = tabs.window[w].starts + 1

MCInit ==
    /\ part \in Parts
    /\ LimiterInit /\ BulkInit
    /\ AccountInit
    /\ CASE part = "signin" -> TRUE
         [] part = "sessions" -> users = {CHOOSE e \in Emails : TRUE} /\ mailed = Links
         [] OTHER -> users = {}
    /\ CASE part = "tables" -> PublicFrom(AnyTables)
         [] part = "console" -> PublicFrom({SomeTables})
         [] part = "visits" -> PublicFrom({PlainTables})
         [] part = "serve" -> PublicInit /\ SmallTables(db)
         [] OTHER -> PublicFrom({EmptyTables})

LimiterPart == LimiterNext /\ UNCHANGED <<accountVars, bulkVars, publicVars>>
\* Requests that race one another to an account or a session.
SignInPart ==
    /\ \/ \E h \in Handlers : HandlerStep(h) \/ Disconnect(h)
       \/ SweepAccounts \/ TimePasses
    /\ now' <= LinkExpiry + 1
    /\ UNCHANGED <<limiterVars, bulkVars, publicVars>>
\* A user with a link, and the session it opens in use.
SessionPart ==
    /\ \/ \E h \in Handlers :
             \/ \E l \in Links : VerifyFind(h, l)
             \/ VerifyConsume(h) \/ VerifyUser(h)
             \/ \E s \in Sessions : OpenSession(h, s)
       \/ \E s \in Sessions : Resolve(s) \/ \E t \in Sessions : Revoke(s, t)
       \/ \E t \in spawned : RunSpawned(t)
       \/ SweepAccounts \/ TimePasses
    /\ UNCHANGED <<limiterVars, bulkVars, publicVars>>
BulkPart == BulkNext /\ UNCHANGED <<limiterVars, accountVars, publicVars>>
\* One write, by one operator or in the background, and one failed read;
\* nobody leaves.  Readers are alike, so it does not matter who asks first.
ServePart ==
    /\ \/ PublicRequests /\ \A r \in Readers : reader[r].pc = "done" => reader'[r].pc = "done"
       \/ Rows(db.window) # {} /\ HourPasses
       \/ writes = 0 /\ (Console(Operator) \/ BackgroundWrite)
       \/ Invalidate(Operator) \/ Abandon(Operator)
    /\ leavers' = 0
    /\ reader'[Regular].pc = "new" => UNCHANGED reader
    /\ operator'[Operator].pc # "read"
    /\ SmallTables(db')
    /\ UNCHANGED <<limiterVars, accountVars, bulkVars>>
\* A visitor who comes back and one who does not, who may leave, and a failure,
\* while a result is recorded or the logo changes.
VisitPart ==
    /\ \/ PublicRequests
       \/ \E s \in Statuses : check_target_now(Operator, Watched, s)
       \/ \E p \in Pages : write_asset(Operator, p, 1)
       \/ BackgroundWrite
       \/ Invalidate(Operator) \/ Abandon(Operator)
    /\ \A r \in Readers \ {Regular} : reader[r].pc = "done" => reader'[r].pc = "done"
    /\ storageFaults' + leavers' <= 1
    /\ writes' <= 1
    /\ Rows(db'.incident) = {} /\ db'.latest[Watched] \in {Nothing, "down"}
    /\ \A t \in Targets \ {Watched} : db'.latest[t] = Nothing
    /\ UNCHANGED <<limiterVars, accountVars, bulkVars>>
\* Operators whose reads and writes of a row interleave.
ConsolePart ==
    /\ \E o \in Operators : Console(o)
    /\ leavers' = 0
    /\ UNCHANGED <<limiterVars, accountVars, bulkVars>>

MCNext ==
    /\ UNCHANGED part
    /\ \/ part = "limiter" /\ LimiterPart
       \/ part = "signin" /\ SignInPart
       \/ part = "sessions" /\ SessionPart
       \/ part = "bulk" /\ BulkPart
       \/ part = "serve" /\ ServePart
       \/ part = "visits" /\ VisitPart
       \/ part = "console" /\ ConsolePart

MCFairness == BulkFairness /\ PublicFairness
MCSpec == MCInit /\ [][MCNext]_vars /\ MCFairness
==============================================================================
