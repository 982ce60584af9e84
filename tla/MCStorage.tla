------------------------------ MODULE MCStorage ------------------------------
(***************************************************************************)
(* DuckdbStorage for TLC.  The tables of different areas do not meet, so   *)
(* each behaviour works on one area, chosen at the start: the states are   *)
(* a sum and not a product.  Areas with two-step methods keep one row and  *)
(* a still clock.                                                          *)
(***************************************************************************)
EXTENDS DuckdbStorage, TLC

CONSTANT Areas      \* the areas a run looks at
VARIABLE focus      \* the area of this behaviour

MCInit ==
    /\ focus \in Areas
    /\ call = <<"ping">> /\ reply = Ok(None) /\ clock = 0
    /\ inflight = [c \in Clients |-> None]
    /\ duck = [t \in Tables |->
                 IF focus = "results" /\ t = "targets"
                 THEN [i \in Ids |-> target_row([id |-> i, enabled |-> TRUE, created_at |-> 0])]
                 ELSE Empty]

Still == {"notes", "channels", "users", "on_call", "escalation", "components", "variables"}
OneRow(table) == Cardinality(DOMAIN duck'[table]) <= 1
MCNext ==
    /\ UNCHANGED focus
    /\ \/ focus = "targets" /\ TargetCalls
       \/ focus = "beats" /\ BeatCalls
       \/ focus = "results" /\ ResultCalls /\ duck'.targets[2].enabled
       \/ focus = "incidents" /\ IncidentCalls
       \/ focus = "notes" /\ (NoteCalls \/ IncidentCalls) /\ OneRow("incidents")
       \/ focus = "pages" /\ PageCalls
       \/ focus = "components" /\ ComponentCalls
       \/ focus = "assets" /\ AssetCalls
       \/ focus = "windows" /\ WindowCalls
       \/ focus = "silences" /\ SilenceCalls
       \/ focus = "subscribers" /\ SubscriberCalls
       \/ focus = "deliveries" /\ DeliveryCalls
       \/ focus = "variables" /\ VariableCalls
       \/ focus = "channels" /\ ChannelCalls /\ OneRow("channels")
       \/ focus = "bindings" /\ BindingCalls
       \/ focus = "tokens" /\ TokenCalls
       \/ focus = "users" /\ UserCalls /\ OneRow("users")
       \/ focus = "sessions" /\ SessionCalls
       \/ focus = "api_tokens" /\ ApiTokenCalls
       \/ focus = "links" /\ LinkCalls
       \/ focus = "escalation" /\ EscalationCalls
       \/ focus = "on_call" /\ OnCallCalls
       \/ focus = "postmortems" /\ PostmortemCalls
       \/ focus = "shares" /\ ShareCalls
       \/ focus \notin Still /\ TimePasses
AnyClient == Permutations(Clients)
MCSpec == MCInit /\ [][MCNext]_<<duckVars, focus>>

\* What tells states apart: the last answer is an output.
Stored == <<duck, clock, inflight, focus>>
==============================================================================
