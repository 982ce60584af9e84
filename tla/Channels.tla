------------------------------ MODULE Channels ------------------------------
(***************************************************************************)
(* Notification channels: their console API, the confirmation links of     *)
(* e-mail channels, silence rules, and the dispatch of an incident of one  *)
(* target to the channels the target names (channel_dispatch.rs).          *)
(*                                                                         *)
(* A dispatch reads the target, the active silences and then one channel   *)
(* after the other, and spawns a task per message, while the console and   *)
(* the recipients change what it reads.  The handlers that write a channel *)
(* read its row first and write the whole row back.                        *)
(***************************************************************************)
EXTENDS Naturals, Transports

CONSTANTS
    Channels,
    Kinds,        \* kinds the console creates
    Rules,        \* silence rules
    Tokens,       \* confirmation links
    Visitors,     \* recipients' requests to verify or decline
    Dispatches,
    MaxChanges,   \* bound: writes of the console
    MaxSetbacks,  \* bound: storage errors and dropped requests
    Nothing

ASSUME ChannelAssumption ==
    /\ Kinds \subseteq ALL
    /\ {MaxChanges, MaxSetbacks} \subseteq Nat

VARIABLES
    channel,      \* table notification_channels
    alerts,       \* the target's alerts, Nothing when it is deleted
    rule,         \* table silence_rules
    token,        \* table channel_verification_tokens
    editor,       \* the console request between its read and its write
    visitor,      \* the recipients' requests
    task,         \* the dispatches
    sends,        \* spawned messages
    heard,        \* messages that went out
    changes, setbacks,
    mute,         \* history: the channels mute since a dispatch began, and why
    declined      \* history: channels whose recipient declined last

channelRows == <<channel, alerts, rule>>
channelVars == <<channelRows, token, editor, visitor, task, sends, heard, changes, setbacks, mute, declined>>

Reasons == {"opened", "resolved"}
ChannelRow(kind, config, enabled) ==
    [kind |-> kind, config |-> config, enabled |-> enabled, verified |-> FALSE, reason |-> FALSE]
Exists(c) == channel[c] # Nothing

awaiting_verification(row) == row.kind = "email" /\ ~row.verified

----------------------------------------------------------------------------
(* Silence rules (silence.rs).  A filter of Nothing matches everything, an *)
(* empty set of reasons every reason; the window lies ahead, is open or is *)
(* over.                                                                   *)
RuleRows == [on : {"target", "other", Nothing}, channel : Channels \cup {Nothing},
             reasons : SUBSET Reasons, window : {"upcoming", "active", "past"}]

\* mutant: a rule for every channel is taken for a rule for none
matchesNamed(r, c, reason) == r.channel = c /\ (r.reasons = {} \/ reason \in r.reasons)
matches(r, c, reason) ==
    /\ r.on \in {"target", Nothing}
    /\ r.channel \in {c, Nothing}
    /\ r.reasons = {} \/ reason \in r.reasons

is_active_at(r) == r.window = "active"
list_active_silences_for_target == {r \in Rules : rule[r] # Nothing /\ is_active_at(rule[r])
                                                    /\ rule[r].on \in {"target", Nothing}}

----------------------------------------------------------------------------
NoEdit == [pc |-> "idle", channel |-> Nothing, row |-> Nothing]
NoVisit == [pc |-> "idle", accepts |-> FALSE, channel |-> Nothing, row |-> Nothing]
NoTask == [pc |-> "new", reason |-> "opened", queue |-> {}, silences |-> {}, blind |-> FALSE, refused |-> {}]

ChannelRows ==
    UNION {[kind : {k}, config : {f \in [Fields(k) -> FieldValues] : validate(k, f)},
            enabled : BOOLEAN, verified : BOOLEAN, reason : BOOLEAN] : k \in ALL}

ChannelsFrom(channels, rules) ==
    /\ channel \in channels
    /\ alerts \in SUBSET Channels
    /\ rule \in rules
    /\ token = [k \in Tokens |-> Nothing]
    /\ editor = NoEdit
    /\ visitor = [v \in Visitors |-> NoVisit]
    /\ task = [d \in Dispatches |-> NoTask]
    /\ sends = {}
    /\ heard = {}
    /\ changes = 0
    /\ setbacks = 0
    /\ mute = [d \in Dispatches |-> {}]
    /\ declined = {}

Write == changes < MaxChanges /\ changes' = changes + 1
Setback == setbacks < MaxSetbacks /\ setbacks' = setbacks + 1
NoDispatchStep == UNCHANGED <<task, sends, heard>>

----------------------------------------------------------------------------
(* /notification-channels.  A body that does not validate is refused.      *)
create_channel(c) ==
    /\ Write
    /\ ~Exists(c)
    /\ \E kind \in Kinds, enabled \in BOOLEAN :
          /\ validate(kind, Filled(kind))
          /\ channel' = [channel EXCEPT ![c] = ChannelRow(kind, Filled(kind), enabled)]
    /\ UNCHANGED <<alerts, rule, token, editor, visitor, setbacks, declined>>
    /\ NoDispatchStep

(* What a PATCH may send: the fields as the API showed them, another       *)
(* destination, another kind, or only a new enabled flag.                  *)
Patched(row) ==
    LET Reconfigured(kind, config) == [row EXCEPT !.kind = kind, !.config = config]
        Sent == {<<row.kind, redact_in_place(row.kind, row.config)>>,
                 <<row.kind, [f \in Fields(row.kind) |-> Moved]>>}
                \cup {<<kind, Filled(kind)>> : kind \in Kinds}
    IN  {Reconfigured(s[1], s[2]) : s \in {s \in Sent : validate(s[1], s[2])}}
        \cup {[row EXCEPT !.enabled = FALSE], [row EXCEPT !.enabled = TRUE, !.reason = FALSE]}

update_channel(c) ==
    /\ Write
    /\ editor = NoEdit
    /\ Exists(c)
    /\ \E row \in Patched(channel[c]) : editor' = [pc |-> "patch", channel |-> c, row |-> row]
    /\ UNCHANGED <<channelRows, token, visitor, setbacks, declined>>
    /\ NoDispatchStep

update_notification_channel ==
    /\ editor.pc = "patch"
    /\ channel' = IF Exists(editor.channel) THEN [channel EXCEPT ![editor.channel] = editor.row] ELSE channel
    /\ declined' = IF editor.row.reason THEN declined ELSE declined \ {editor.channel}
    /\ editor' = NoEdit
    /\ UNCHANGED <<alerts, rule, token, visitor, changes, setbacks>>
    /\ NoDispatchStep

(* The rows of target_channel_bindings it removes first are read nowhere.  *)
delete_channel(c) ==
    /\ Write
    /\ Exists(c)
    /\ channel' = [channel EXCEPT ![c] = Nothing]
    /\ declined' = declined \ {c}
    /\ UNCHANGED <<alerts, rule, token, editor, visitor, setbacks>>
    /\ NoDispatchStep

(* The row is read and judged, then the link is stored and mailed.  The    *)
(* link stays valid when the mail fails.                                   *)
request_verification(c) ==
    /\ Write
    /\ editor = NoEdit
    /\ Exists(c)
    /\ channel[c].kind = "email" /\ ~channel[c].verified /\ channel[c].enabled
    /\ editor' = [pc |-> "request", channel |-> c, row |-> Nothing]
    /\ UNCHANGED <<channelRows, token, visitor, setbacks, declined>>
    /\ NoDispatchStep

create_channel_verification_token ==
    /\ editor.pc = "request"
    /\ \E k \in Tokens : token[k] = Nothing /\ token' = [token EXCEPT ![k] = editor.channel]
    /\ editor' = NoEdit
    /\ UNCHANGED <<channelRows, visitor, changes, setbacks, declined>>
    /\ NoDispatchStep

----------------------------------------------------------------------------
(* GET .../verify and .../decline: the link is claimed, then the row is    *)
(* read, then it is written back.  A link that is used or over is gone.    *)
consume_channel_verification_token(v, k) ==
    /\ visitor[v].pc = "idle"
    /\ token[k] # Nothing
    /\ \E accepts \in BOOLEAN :
          visitor' = [visitor EXCEPT ![v] = [pc |-> "claimed", accepts |-> accepts, channel |-> token[k],
                                             row |-> Nothing]]
    /\ token' = [token EXCEPT ![k] = Nothing]
    /\ UNCHANGED <<channelRows, editor, changes, setbacks, declined>>
    /\ NoDispatchStep

ReadChannel(v) ==
    /\ visitor[v].pc = "claimed"
    /\ LET c == visitor[v].channel
       IN  visitor' = [visitor EXCEPT ![v] = IF Exists(c) THEN [visitor[v] EXCEPT !.pc = "read", !.row = channel[c]] ELSE NoVisit]
    /\ UNCHANGED <<channelRows, token, editor, changes, setbacks, declined>>
    /\ NoDispatchStep

(* verify_channel stamps the row; decline_channel notes the reason and     *)
(* leaves enabled as it is.                                                *)
WriteBack(v) ==
    /\ visitor[v].pc = "read"
    /\ LET c == visitor[v].channel
           row == IF visitor[v].accepts THEN [visitor[v].row EXCEPT !.verified = TRUE]
                                        ELSE [visitor[v].row EXCEPT !.reason = TRUE]
       IN  /\ channel' = IF Exists(c) THEN [channel EXCEPT ![c] = row] ELSE channel
           /\ declined' = IF visitor[v].accepts \/ ~Exists(c) THEN declined \ {c} ELSE declined \cup {c}
    /\ visitor' = [visitor EXCEPT ![v] = NoVisit]
    /\ UNCHANGED <<alerts, rule, token, editor, changes, setbacks>>
    /\ NoDispatchStep

(* A recipient leaves, or storage fails, with the link already used.       *)
GiveUp(v) ==
    /\ visitor[v].pc \in {"claimed", "read"}
    /\ Setback
    /\ visitor' = [visitor EXCEPT ![v] = NoVisit]
    /\ UNCHANGED <<channelRows, token, editor, changes, declined>>
    /\ NoDispatchStep

TokenExpires(k) ==
    /\ token[k] # Nothing
    /\ token' = [token EXCEPT ![k] = Nothing]
    /\ UNCHANGED <<channelRows, editor, visitor, changes, setbacks, declined>>
    /\ NoDispatchStep

----------------------------------------------------------------------------
(* /silence-rules, the target's alerts, and time.  A rule for all targets  *)
(* takes a browser session.                                                *)
create_silence_rule(r, session) ==
    /\ Write
    /\ rule[r] = Nothing
    /\ \E row \in RuleRows : /\ row.on # Nothing \/ session
                             /\ rule' = [rule EXCEPT ![r] = row]
    /\ UNCHANGED <<channel, alerts, token, editor, visitor, setbacks, declined>>
    /\ NoDispatchStep

update_silence_rule(r) ==
    /\ Write
    /\ rule[r] # Nothing
    /\ \E row \in RuleRows : rule' = [rule EXCEPT ![r] = row]
    /\ UNCHANGED <<channel, alerts, token, editor, visitor, setbacks, declined>>
    /\ NoDispatchStep

delete_silence_rule(r) ==
    /\ Write
    /\ rule[r] # Nothing
    /\ rule' = [rule EXCEPT ![r] = Nothing]
    /\ UNCHANGED <<channel, alerts, token, editor, visitor, setbacks, declined>>
    /\ NoDispatchStep

WindowMoves(r) ==
    /\ rule[r] # Nothing /\ rule[r].window # "past"
    /\ rule' = [rule EXCEPT ![r].window = IF @ = "upcoming" THEN "active" ELSE "past"]
    /\ UNCHANGED <<channel, alerts, token, editor, visitor, changes, setbacks, declined>>
    /\ NoDispatchStep

(* PATCH and DELETE of the target.                                         *)
SetAlerts ==
    /\ Write
    /\ alerts # Nothing
    /\ alerts' \in {Nothing} \cup SUBSET Channels
    /\ UNCHANGED <<channel, rule, token, editor, visitor, setbacks, declined>>
    /\ NoDispatchStep

----------------------------------------------------------------------------
(* dispatch_to_target_channels.                                            *)
NoConsoleStep == UNCHANGED <<channelRows, token, editor, visitor, changes, declined>>

(* A target that is gone or names no channel ends it at once.              *)
dispatch_to_target_channels(d, reason) ==
    /\ task[d].pc = "new"
    /\ alerts \notin {Nothing, {}}
    /\ task' = [task EXCEPT ![d] = [NoTask EXCEPT !.pc = "silences", !.reason = reason, !.queue = alerts,
                                                  !.refused = declined]]
    /\ UNCHANGED <<sends, heard, setbacks>>
    /\ NoConsoleStep

(* Silences that cannot be loaded do not hold the dispatch up.             *)
LoadSilences(d) ==
    /\ task[d].pc = "silences"
    /\ \/ /\ task' = [task EXCEPT ![d].pc = "visit",
                                  ![d].silences = {rule[r] : r \in list_active_silences_for_target}]
          /\ UNCHANGED setbacks
       \/ /\ Setback
          /\ task' = [task EXCEPT ![d].pc = "visit", ![d].blind = TRUE]
    /\ UNCHANGED <<sends, heard>>
    /\ NoConsoleStep

Skipped(d, row, c) ==
    \/ ~row.enabled
    \/ awaiting_verification(row)
    \/ \E r \in task[d].silences : matches(r, c, task[d].reason)

Message(d, c) == [by |-> d, channel |-> c, kind |-> channel[c].kind, config |-> channel[c].config,
                  refused |-> c \in task[d].refused \cap declined]

(* One binding: a channel that is missing or cannot be read is skipped.    *)
VisitChannel(d, c) ==
    /\ task[d].pc = "visit"
    /\ c \in task[d].queue
    /\ task' = [task EXCEPT ![d].queue = @ \ {c}]
    /\ \/ /\ sends' = IF Exists(c) /\ ~Skipped(d, channel[c], c) THEN sends \cup {Message(d, c)} ELSE sends
          /\ UNCHANGED setbacks
       \/ Setback /\ UNCHANGED sends
    /\ UNCHANGED heard
    /\ NoConsoleStep

EndDispatch(d) ==
    /\ task[d].pc = "visit"
    /\ task[d].queue = {}
    /\ task' = [task EXCEPT ![d] = [NoTask EXCEPT !.pc = "done"]]
    /\ UNCHANGED <<sends, heard, setbacks>>
    /\ NoConsoleStep

(* The spawned task: send_email_alert or notify_incident.  A failure is    *)
(* logged and the message is lost.                                         *)
Deliver(m) ==
    /\ m \in sends
    /\ sends' = sends \ {m}
    /\ \/ m.kind = "email" /\ heard' = heard \cup {m} /\ UNCHANGED setbacks
       \/ m.kind # "email" /\ send(m.kind, Complete(m.kind, m.config)) /\ heard' = heard \cup {m} /\ UNCHANGED setbacks
       \/ m.kind # "email" /\ ~send(m.kind, Complete(m.kind, m.config)) /\ UNCHANGED <<heard, setbacks>>
       \/ Setback /\ UNCHANGED heard
    /\ UNCHANGED task
    /\ NoConsoleStep

----------------------------------------------------------------------------
(* Why a channel must not hear of dispatch d, by the rows as they are now: *)
(* it cannot be sent to, the target does not name it, or a rule silences   *)
(* it and the dispatch could load the rules.                               *)
Suppressed(d, c) ==
    \E r \in Rules :
        /\ rule[r] # Nothing
        /\ rule[r].window = "active"
        /\ rule[r].on # "other"
        /\ rule[r].channel # Nothing => rule[r].channel = c
        /\ rule[r].reasons # {} => task[d].reason \in rule[r].reasons

Unreachable(c) == ~Exists(c) \/ ~channel[c].enabled \/ (channel[c].kind = "email" /\ ~channel[c].verified)

MuteNow(d) ==
    {<<"row", c>> : c \in {c \in Channels : Unreachable(c)}}
    \cup {<<"unbound", c>> : c \in {c \in Channels : alerts = Nothing \/ c \notin alerts}}
    \cup {<<"silenced", c>> : c \in {c \in Channels : ~task[d].blind /\ Suppressed(d, c)}}

Listen ==
    mute' = [d \in Dispatches |->
                CASE task[d].pc = "new" /\ task'[d].pc # "new" -> MuteNow(d)'
                  [] task[d].pc \in {"silences", "visit"} /\ task'[d].pc # "done" -> mute[d] \cap MuteNow(d)'
                  [] OTHER -> mute[d]]

Console ==
    \/ update_notification_channel \/ create_channel_verification_token \/ SetAlerts
    \/ \E c \in Channels : create_channel(c) \/ update_channel(c) \/ delete_channel(c) \/ request_verification(c)
    \/ \E r \in Rules : \/ \E session \in BOOLEAN : create_silence_rule(r, session)
                        \/ update_silence_rule(r) \/ delete_silence_rule(r)

Recipients ==
    \/ \E v \in Visitors : ReadChannel(v) \/ WriteBack(v) \/ GiveUp(v)
    \/ \E v \in Visitors, k \in Tokens : consume_channel_verification_token(v, k)
    \/ \E k \in Tokens : TokenExpires(k)

Dispatching ==
    \/ \E d \in Dispatches : \/ \E reason \in Reasons : dispatch_to_target_channels(d, reason)
                             \/ LoadSilences(d) \/ EndDispatch(d)
                             \/ \E c \in Channels : VisitChannel(d, c)
    \/ \E m \in sends : Deliver(m)
    \/ \E r \in Rules : WindowMoves(r)

ChannelNext == (Console \/ Recipients \/ Dispatching) /\ Listen

\* Any tables the console can have left behind.
ChannelInit == ChannelsFrom([Channels -> ChannelRows \cup {Nothing}], [Rules -> RuleRows \cup {Nothing}])
ChannelSpec == ChannelInit /\ [][ChannelNext]_channelVars

----------------------------------------------------------------------------
(* A channel that was unreachable, or unbound, or silenced, from the start *)
(* of a dispatch to its end gets no message from it, whatever else the     *)
(* console and the recipients did meanwhile (dispatch_to_target_channels). *)
MutedChannelsSilent == \A m \in sends \cup heard : \A pair \in mute[m.by] : pair[2] # m.channel

(* No answer of the API shows a value the transport of the channel uses as *)
(* a credential, after any change of kind and configuration: the masked    *)
(* fields of a kind cover the credentials of its notifier.                 *)
SecretsStayInside ==
    \A c \in Channels : Exists(c) =>
        LET kind == channel[c].kind
            shown == redact_in_place(kind, channel[c].config)
        IN  \A f \in build_notifier(kind).keys : shown[f] \in {MASK, None}

(* public_api.rs: a channel whose recipient declined is marked disabled    *)
(* and future dispatch skips it.                                           *)
DeclinedIsSilent == \A m \in sends \cup heard : ~m.refused
=============================================================================
