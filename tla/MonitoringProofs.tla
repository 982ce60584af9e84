--------------------------- MODULE MonitoringProofs ---------------------------
(***************************************************************************)
(* Proofs about notification channels, who a dispatch stays silent to and  *)
(* what the API shows of a channel's configuration; about probes, what a   *)
(* check is reported as; about on-call schedules, when a handoff takes     *)
(* place; and about the scheduler, what it leaves alone.                   *)
(***************************************************************************)
EXTENDS Scheduler, Channels, ProbeRequests, OnCall, TLAPS

----------------------------------------------------------------------------
(* The inductive invariant of a dispatch.                                  *)
TaskFields == {"pc", "reason", "queue", "silences", "blind", "refused"}

RuleInv == rule \in [Rules -> RuleRows \cup {Nothing}]

\* What is left to visit was bound when the dispatch began, and a channel
\* that has been silenced throughout is matched by a rule it has loaded.
TaskOK(d) ==
    /\ TaskFields \subseteq DOMAIN task[d]
    /\ task[d].pc \in {"silences", "visit"} => \A c \in task[d].queue : <<"unbound", c>> \notin mute[d]
    /\ task[d].pc = "visit" =>
          \A c \in Channels : <<"silenced", c>> \in mute[d] =>
              \E q \in task[d].silences : matches(q, c, task[d].reason)

MessageOK(m) ==
    /\ m.by \in Dispatches
    /\ task[m.by].pc # "new"
    /\ \A pair \in mute[m.by] : pair[2] # m.channel

MuteInv ==
    /\ RuleInv
    /\ DOMAIN task = Dispatches /\ DOMAIN mute = Dispatches
    /\ \A d \in Dispatches : TaskOK(d)
    /\ \A m \in sends \cup heard : MessageOK(m)

----------------------------------------------------------------------------
(* Mutes.                                                                  *)

(* A dispatch that runs only forgets mutes, and one that ended keeps them. *)
LEMMA MutesShrink ==
    ASSUME Listen, NEW d \in Dispatches, task[d].pc # "new"
    PROVE  mute'[d] \subseteq mute[d]
  BY DEF Listen

(* While it runs, it keeps a mute only as long as it holds. *)
LEMMA MutesHold ==
    ASSUME Listen, NEW d \in Dispatches, task[d].pc \in {"silences", "visit"}, task'[d].pc # "done"
    PROVE  mute'[d] \subseteq MuteNow(d)'
  BY DEF Listen

(* The reasons for a mute, one by one, after a step. *)
LEMMA MuteReasons ==
    ASSUME NEW d \in Dispatches, NEW c
    PROVE  /\ <<"row", c>> \in MuteNow(d)' => Unreachable(c)'
           /\ <<"unbound", c>> \in MuteNow(d)' => alerts' = Nothing \/ c \notin alerts'
           /\ <<"silenced", c>> \in MuteNow(d)' => ~task'[d].blind /\ Suppressed(d, c)'
  BY DEF MuteNow

LEMMA MutePairs ==
    ASSUME NEW d \in Dispatches, NEW pair \in MuteNow(d)'
    PROVE  pair[2] \in Channels /\ pair \in {<<"row", pair[2]>>, <<"unbound", pair[2]>>, <<"silenced", pair[2]>>}
  BY DEF MuteNow

(* A rule that suppresses a channel is active for the target and matches. *)
LEMMA SuppressedMatches ==
    ASSUME RuleInv, UNCHANGED rule, NEW d \in Dispatches, NEW c \in Channels, task'[d].reason = task[d].reason,
           Suppressed(d, c)'
    PROVE  \E r \in list_active_silences_for_target : matches(rule[r], c, task[d].reason)
<1>1. PICK r \in Rules :
          /\ rule[r] # Nothing
          /\ rule[r].window = "active"
          /\ rule[r].on # "other"
          /\ rule[r].channel # Nothing => rule[r].channel = c
          /\ rule[r].reasons # {} => task[d].reason \in rule[r].reasons
  BY DEF Suppressed
<1>2. rule[r] \in RuleRows
  BY <1>1 DEF RuleInv
<1>3. rule[r].on \in {"target", Nothing}
  BY <1>1, <1>2 DEF RuleRows
<1>4. r \in list_active_silences_for_target
  BY <1>1, <1>3 DEF list_active_silences_for_target, is_active_at
<1>5. matches(rule[r], c, task[d].reason)
  BY <1>1, <1>3 DEF matches
<1> QED BY <1>4, <1>5

----------------------------------------------------------------------------
(* Steps.                                                                  *)

(* A dispatch that a step leaves where it is keeps its part. *)
LEMMA TaskStays ==
    ASSUME MuteInv, Listen, NEW d \in Dispatches, task'[d] = task[d]
    PROVE  TaskOK(d)'
<1>1. TaskOK(d)
  BY DEF MuteInv
<1>2. CASE task[d].pc = "new"
  BY <1>1, <1>2 DEF TaskOK
<1>3. CASE task[d].pc # "new"
  <2>1. mute'[d] \subseteq mute[d]
    BY <1>3, MutesShrink
  <2> QED BY <1>1, <2>1 DEF TaskOK, matches
<1> QED BY <1>2, <1>3

(* A message stays a message nobody mute has heard. *)
LEMMA MessageStays ==
    ASSUME MuteInv, Listen, NEW m \in sends \cup heard, \A d \in Dispatches : task[d].pc # "new" => task'[d].pc # "new"
    PROVE  MessageOK(m)'
<1>1. MessageOK(m)
  BY DEF MuteInv
<1>2. mute'[m.by] \subseteq mute[m.by]
  BY <1>1, MutesShrink DEF MessageOK
<1> QED BY <1>1, <1>2 DEF MessageOK

(* The console, the recipients and time leave dispatches where they are. *)
LEMMA OthersKeep ==
    ASSUME MuteInv, Listen, UNCHANGED <<task, sends, heard>>, RuleInv'
    PROVE  MuteInv'
<1>1. \A d \in Dispatches : TaskOK(d)'
  BY TaskStays
<1>2. \A m \in sends' \cup heard' : MessageOK(m)'
  BY MessageStays
<1>3. (DOMAIN task = Dispatches /\ DOMAIN mute = Dispatches)'
  BY DEF MuteInv, Listen
<1> QED BY <1>1, <1>2, <1>3 DEF MuteInv

(* Only silence rules and time touch the table of silence rules. *)
LEMMA RulesKept ==
    ASSUME RuleInv, Console \/ Recipients \/ Dispatching
    PROVE  RuleInv'
<1>1. ASSUME NEW r \in Rules, NEW row \in RuleRows \cup {Nothing}, rule' = [rule EXCEPT ![r] = row]
      PROVE  RuleInv'
  BY <1>1 DEF RuleInv
<1>2. ASSUME UNCHANGED rule PROVE RuleInv'
  BY <1>2 DEF RuleInv
<1>3. CASE Console
  <2>1. ASSUME NEW r \in Rules,
               \/ \E session \in BOOLEAN : create_silence_rule(r, session)
               \/ update_silence_rule(r) \/ delete_silence_rule(r)
        PROVE  RuleInv'
    BY <2>1, <1>1 DEF create_silence_rule, update_silence_rule, delete_silence_rule
  <2>2. CASE update_notification_channel \/ create_channel_verification_token \/ SetAlerts
    BY <2>2, <1>2 DEF update_notification_channel, create_channel_verification_token, SetAlerts, channelRows
  <2>3. ASSUME NEW c \in Channels,
               create_channel(c) \/ update_channel(c) \/ delete_channel(c) \/ request_verification(c)
        PROVE  RuleInv'
    BY <2>3, <1>2 DEF create_channel, update_channel, delete_channel, request_verification, channelRows
  <2> QED BY <1>3, <2>1, <2>2, <2>3 DEF Console
<1>4. CASE Recipients
  BY <1>4, <1>2 DEF Recipients, ReadChannel, WriteBack, GiveUp, consume_channel_verification_token, TokenExpires, channelRows
<1>5. CASE Dispatching
  <2>1. ASSUME NEW r \in Rules, WindowMoves(r) PROVE RuleInv'
    <3>1. rule[r] \in RuleRows
      BY <2>1 DEF RuleInv, WindowMoves
    <3>2. PICK w \in {"upcoming", "active", "past"} : w = IF rule[r].window = "upcoming" THEN "active" ELSE "past"
      OBVIOUS
    <3>3. rule' = [rule EXCEPT ![r] = [rule[r] EXCEPT !.window = w]]
      BY <2>1, <3>1, <3>2 DEF WindowMoves
    <3>4. [rule[r] EXCEPT !.window = w] \in RuleRows
      BY <3>1 DEF RuleRows
    <3> QED BY <3>3, <3>4, <1>1
  <2>2. ASSUME NEW d \in Dispatches, \/ \E reason \in Reasons : dispatch_to_target_channels(d, reason)
                                     \/ LoadSilences(d) \/ EndDispatch(d)
                                     \/ \E c \in Channels : VisitChannel(d, c)
        PROVE  RuleInv'
    BY <2>2, <1>2 DEF dispatch_to_target_channels, LoadSilences, EndDispatch, VisitChannel, NoConsoleStep, channelRows
  <2>3. ASSUME NEW m \in sends, Deliver(m) PROVE RuleInv'
    BY <2>3, <1>2 DEF Deliver, NoConsoleStep, channelRows
  <2> QED BY <1>5, <2>1, <2>2, <2>3 DEF Dispatching
<1> QED BY <1>3, <1>4, <1>5

(* A step of one dispatch leaves the others where they are. *)
LEMMA DispatchKeeps ==
    ASSUME MuteInv, Listen, RuleInv', NEW d \in Dispatches, DOMAIN task' = Dispatches,
           \A e \in Dispatches \ {d} : task'[e] = task[e],
           task'[d].pc # "new", TaskOK(d)',
           \A m \in (sends' \cup heard') \ (sends \cup heard) : MessageOK(m)'
    PROVE  MuteInv'
<1>1. ASSUME NEW e \in Dispatches PROVE TaskOK(e)'
  BY TaskStays
<1>2. ASSUME NEW m \in sends' \cup heard' PROVE MessageOK(m)'
  BY MessageStays
<1>3. (DOMAIN mute = Dispatches)'
  BY DEF Listen
<1> QED BY <1>1, <1>2, <1>3 DEF MuteInv

LEMMA BeginKeeps ==
    ASSUME MuteInv, Listen, RuleInv', NEW d \in Dispatches, NEW reason, dispatch_to_target_channels(d, reason)
    PROVE  MuteInv'
<1>0. DOMAIN task = Dispatches
  BY DEF MuteInv
<1>1. /\ task[d].pc = "new" /\ alerts # Nothing /\ alerts' = alerts /\ UNCHANGED <<sends, heard>>
      /\ task' = [task EXCEPT ![d] = [NoTask EXCEPT !.pc = "silences", !.reason = reason, !.queue = alerts,
                                                    !.refused = declined]]
  BY DEF dispatch_to_target_channels, NoConsoleStep, channelRows
<1>2. DOMAIN task' = Dispatches /\ \A e \in Dispatches \ {d} : task'[e] = task[e]
  BY <1>0, <1>1
<1>3. TaskFields \subseteq DOMAIN task'[d] /\ task'[d].pc = "silences" /\ task'[d].queue = alerts
  BY <1>0, <1>1 DEF NoTask, TaskFields
<1>4. mute'[d] = MuteNow(d)'
  BY <1>1, <1>3 DEF Listen
<1>5. ASSUME NEW c \in alerts PROVE <<"unbound", c>> \notin mute'[d]
  BY <1>1, <1>4, MuteReasons
<1>6. TaskOK(d)'
  BY <1>3, <1>5 DEF TaskOK
<1> QED BY <1>1, <1>2, <1>3, <1>6, DispatchKeeps

(* A channel that is still silenced when the rules are loaded is silenced  *)
(* by one of them; a dispatch that cannot load them counts none.           *)
LEMMA LoadKeeps ==
    ASSUME MuteInv, Listen, RuleInv', NEW d \in Dispatches, LoadSilences(d)
    PROVE  MuteInv'
<1>0. DOMAIN task = Dispatches /\ RuleInv /\ TaskOK(d) /\ TaskFields \subseteq DOMAIN task[d]
  BY DEF MuteInv, TaskOK
<1>1. task[d].pc = "silences" /\ UNCHANGED <<sends, heard, rule>>
  BY DEF LoadSilences, NoConsoleStep, channelRows
<1> DEFINE loaded == {rule[r] : r \in list_active_silences_for_target}
           Moved_(x) == /\ task' = [task EXCEPT ![d] = x]
                        /\ TaskFields \subseteq DOMAIN x /\ x.pc = "visit"
                        /\ x.queue = task[d].queue /\ x.reason = task[d].reason
                        /\ x.silences = loaded \/ x.blind = TRUE
<1>2. PICK x : Moved_(x)
  <2>1. CASE task' = [task EXCEPT ![d].pc = "visit", ![d].silences = loaded]
    <3>1. PICK x : x = [task[d] EXCEPT !.pc = "visit", !.silences = loaded]
      OBVIOUS
    <3>2. task' = [task EXCEPT ![d] = x]
      BY <2>1, <3>1, <1>0
    <3>3. TaskFields \subseteq DOMAIN x /\ x.pc = "visit" /\ x.queue = task[d].queue /\ x.reason = task[d].reason
          /\ x.silences = loaded
      BY <3>1, <1>0 DEF TaskFields
    <3> QED BY <3>2, <3>3
  <2>2. CASE task' = [task EXCEPT ![d].pc = "visit", ![d].blind = TRUE]
    <3>1. PICK x : x = [task[d] EXCEPT !.pc = "visit", !.blind = TRUE]
      OBVIOUS
    <3>2. task' = [task EXCEPT ![d] = x]
      BY <2>2, <3>1, <1>0
    <3>3. TaskFields \subseteq DOMAIN x /\ x.pc = "visit" /\ x.queue = task[d].queue /\ x.reason = task[d].reason
          /\ x.blind = TRUE
      BY <3>1, <1>0 DEF TaskFields
    <3> QED BY <3>2, <3>3
  <2> QED BY <2>1, <2>2 DEF LoadSilences
<1> HIDE DEF loaded
<1>3. DOMAIN task' = Dispatches /\ task'[d] = x /\ \A e \in Dispatches \ {d} : task'[e] = task[e]
  BY <1>0, <1>2
<1>4. mute'[d] \subseteq mute[d] /\ mute'[d] \subseteq MuteNow(d)'
  BY <1>1, <1>2, <1>3, MutesShrink, MutesHold
<1>5. ASSUME NEW c \in task'[d].queue PROVE <<"unbound", c>> \notin mute'[d]
  BY <1>0, <1>1, <1>2, <1>3, <1>4 DEF TaskOK
<1>6. ASSUME NEW c \in Channels, <<"silenced", c>> \in mute'[d]
      PROVE  \E q \in task'[d].silences : matches(q, c, task'[d].reason)
  <2>1. ~task'[d].blind /\ Suppressed(d, c)'
    BY <1>4, <1>6, MuteReasons
  <2>2. x.silences = loaded /\ task'[d].reason = task[d].reason
    BY <1>2, <1>3, <2>1
  <2>3. \E r \in list_active_silences_for_target : matches(rule[r], c, task[d].reason)
    BY <1>0, <1>1, <2>1, <2>2, SuppressedMatches
  <2> QED BY <1>3, <2>2, <2>3 DEF loaded
<1>7. TaskOK(d)'
  <2>1. ASSUME NEW c \in Channels, <<"silenced", c>> \in mute'[d]
        PROVE  \E q \in task'[d].silences : matches(q, c, task[d].reason)'
    BY <1>6, <2>1 DEF matches
  <2> QED BY <1>2, <1>3, <1>5, <1>6 DEF TaskOK, matches
<1> QED BY <1>1, <1>2, <1>3, <1>7, DispatchKeeps

(* A message goes to a channel that can be reached, that was bound when    *)
(* the dispatch began and that no loaded rule matches.                     *)
LEMMA VisitKeeps ==
    ASSUME MuteInv, Listen, RuleInv', NEW d \in Dispatches, NEW c \in Channels, VisitChannel(d, c)
    PROVE  MuteInv'
<1>0. DOMAIN task = Dispatches /\ TaskOK(d) /\ TaskFields \subseteq DOMAIN task[d]
  BY DEF MuteInv, TaskOK
<1>1. /\ task[d].pc = "visit" /\ c \in task[d].queue /\ UNCHANGED <<heard, channel>>
      /\ \/ sends' = sends
         \/ Exists(c) /\ ~Skipped(d, channel[c], c) /\ sends' = sends \cup {Message(d, c)}
  BY DEF VisitChannel, NoConsoleStep, channelRows
<1>2. PICK x : x = [task[d] EXCEPT !.queue = task[d].queue \ {c}]
  OBVIOUS
<1>3. task' = [task EXCEPT ![d] = x]
  BY <1>0, <1>2 DEF VisitChannel
<1>4. /\ DOMAIN task' = Dispatches /\ task'[d] = x /\ \A e \in Dispatches \ {d} : task'[e] = task[e]
  BY <1>0, <1>3
<1>5. /\ TaskFields \subseteq DOMAIN x /\ x.pc = "visit" /\ x.queue = task[d].queue \ {c}
      /\ x.reason = task[d].reason /\ x.silences = task[d].silences
  BY <1>0, <1>1, <1>2 DEF TaskFields
<1>6. mute'[d] \subseteq mute[d] /\ mute'[d] \subseteq MuteNow(d)'
  BY <1>1, <1>4, <1>5, MutesShrink, MutesHold
<1>7. TaskOK(d)'
  BY <1>0, <1>1, <1>4, <1>5, <1>6 DEF TaskOK, matches
<1>8. ASSUME Exists(c), ~Skipped(d, channel[c], c), NEW pair \in mute'[d], pair[2] = c PROVE FALSE
  <2>1. pair \in {<<"row", c>>, <<"unbound", c>>, <<"silenced", c>>}
    BY <1>6, <1>8, MutePairs
  <2>2. pair # <<"unbound", c>>
    BY <1>0, <1>1, <1>6, <1>8 DEF TaskOK
  <2>3. pair # <<"row", c>>
    <3>1. ~Unreachable(c)'
      BY <1>1, <1>8 DEF Unreachable, Exists, Skipped, awaiting_verification
    <3> QED BY <1>6, <3>1, MuteReasons
  <2>4. pair # <<"silenced", c>>
    BY <1>0, <1>1, <1>6, <1>8 DEF TaskOK, Skipped
  <2> QED BY <2>1, <2>2, <2>3, <2>4
<1>9. ASSUME NEW m \in (sends' \cup heard') \ (sends \cup heard) PROVE MessageOK(m)'
  <2>1. Exists(c) /\ ~Skipped(d, channel[c], c) /\ m = Message(d, c)
    BY <1>1
  <2>2. m.by = d /\ m.channel = c
    BY <2>1 DEF Message
  <2>3. \A pair \in mute'[d] : pair[2] # c
    BY <1>8, <2>1
  <2> QED BY <1>4, <1>5, <2>2, <2>3 DEF MessageOK
<1> QED BY <1>4, <1>5, <1>7, <1>9, DispatchKeeps

LEMMA EndKeeps ==
    ASSUME MuteInv, Listen, RuleInv', NEW d \in Dispatches, EndDispatch(d)
    PROVE  MuteInv'
<1>0. DOMAIN task = Dispatches
  BY DEF MuteInv
<1>1. task' = [task EXCEPT ![d] = [NoTask EXCEPT !.pc = "done"]] /\ UNCHANGED <<sends, heard>>
  BY DEF EndDispatch
<1>2. DOMAIN task' = Dispatches /\ \A e \in Dispatches \ {d} : task'[e] = task[e]
  BY <1>0, <1>1
<1>3. TaskFields \subseteq DOMAIN task'[d] /\ task'[d].pc = "done"
  BY <1>0, <1>1 DEF NoTask, TaskFields
<1>4. TaskOK(d)'
  BY <1>3 DEF TaskOK
<1> QED BY <1>1, <1>2, <1>3, <1>4, DispatchKeeps

LEMMA DeliverKeeps ==
    ASSUME MuteInv, Listen, RuleInv', NEW m \in sends, Deliver(m)
    PROVE  MuteInv'
<1>1. UNCHANGED task /\ sends' \subseteq sends /\ heard' \subseteq heard \cup {m}
  BY DEF Deliver
<1>2. \A d \in Dispatches : TaskOK(d)'
  BY <1>1, TaskStays
<1>3. \A n \in sends' \cup heard' : MessageOK(n)'
  BY <1>1, MessageStays
<1>4. (DOMAIN task = Dispatches /\ DOMAIN mute = Dispatches)'
  BY <1>1 DEF MuteInv, Listen
<1> QED BY <1>2, <1>3, <1>4 DEF MuteInv

(* A channel that was unreachable, or unbound, or silenced, from the start *)
(* of a dispatch to its end gets no message from it, whatever the console, *)
(* the recipients, time and other dispatches did meanwhile.                *)
THEOREM MutedStaySilent == ChannelSpec => []MutedChannelsSilent
<1>1. ChannelInit => MuteInv
  <2> SUFFICES ASSUME ChannelInit PROVE MuteInv
    OBVIOUS
  <2>1. /\ RuleInv /\ task = [d \in Dispatches |-> NoTask] /\ mute = [d \in Dispatches |-> {}]
        /\ sends = {} /\ heard = {}
    BY DEF ChannelInit, ChannelsFrom, RuleInv
  <2>2. ASSUME NEW d \in Dispatches PROVE TaskOK(d)
    BY <2>1 DEF TaskOK, NoTask, TaskFields
  <2> QED BY <2>1, <2>2 DEF MuteInv
<1>2. MuteInv /\ [ChannelNext]_channelVars => MuteInv'
  <2> SUFFICES ASSUME MuteInv, [ChannelNext]_channelVars PROVE MuteInv'
    OBVIOUS
  <2>1. ASSUME ChannelNext PROVE Listen /\ RuleInv'
    BY <2>1, RulesKept DEF ChannelNext, MuteInv
  <2>2. ASSUME ChannelNext, Console PROVE MuteInv'
    <3>1. NoDispatchStep
      BY <2>2 DEF Console, update_notification_channel, create_channel_verification_token, SetAlerts,
         create_channel, update_channel, delete_channel, request_verification, create_silence_rule,
         update_silence_rule, delete_silence_rule
    <3> QED BY <2>1, <2>2, <3>1, OthersKeep DEF NoDispatchStep
  <2>3. ASSUME ChannelNext, Recipients PROVE MuteInv'
    <3>1. NoDispatchStep
      BY <2>3 DEF Recipients, ReadChannel, WriteBack, GiveUp, consume_channel_verification_token, TokenExpires
    <3> QED BY <2>1, <2>3, <3>1, OthersKeep DEF NoDispatchStep
  <2>4. ASSUME ChannelNext, Dispatching PROVE MuteInv'
    <3>1. ASSUME NEW r \in Rules, WindowMoves(r) PROVE MuteInv'
      BY <2>1, <2>4, <3>1, OthersKeep DEF WindowMoves, NoDispatchStep
    <3>2. ASSUME NEW d \in Dispatches, \/ \E reason \in Reasons : dispatch_to_target_channels(d, reason)
                                       \/ LoadSilences(d) \/ EndDispatch(d)
                                       \/ \E c \in Channels : VisitChannel(d, c)
          PROVE  MuteInv'
      BY <2>1, <2>4, <3>2, BeginKeeps, LoadKeeps, EndKeeps, VisitKeeps
    <3>3. ASSUME NEW m \in sends, Deliver(m) PROVE MuteInv'
      BY <2>1, <2>4, <3>3, DeliverKeeps
    <3> QED BY <2>4, <3>1, <3>2, <3>3 DEF Dispatching
  <2>5. CASE UNCHANGED channelVars
    <3>1. UNCHANGED <<rule, task, sends, heard, mute>>
      BY <2>5 DEF channelVars, channelRows
    <3>2. ASSUME NEW d \in Dispatches PROVE TaskOK(d)'
      BY <3>1 DEF MuteInv, TaskOK, matches
    <3>3. ASSUME NEW m \in sends \cup heard PROVE MessageOK(m)'
      BY <3>1 DEF MuteInv, MessageOK
    <3> QED BY <3>1, <3>2, <3>3 DEF MuteInv, RuleInv
  <2> QED BY <2>2, <2>3, <2>4, <2>5 DEF ChannelNext
<1>3. MuteInv => MutedChannelsSilent
  BY DEF MuteInv, MessageOK, MutedChannelsSilent
<1> QED BY <1>1, <1>2, <1>3, PTL DEF ChannelSpec

----------------------------------------------------------------------------
(* The kinds of channel.                                                   *)
LEMMA AllKinds ==
    ALL = {"webhook", "slack", "telegram", "telegram_app", "whatsapp", "whatsapp_app", "discord", "msteams",
           "google_chat", "email", "pagerduty", "ntfy", "pushover", "twilio", "telnyx", "vonage", "plivo",
           "sinch", "opsgenie", "gotify", "matrix", "mattermost", "rocketchat", "webex", "zulip", "github",
           "gitlab", "gitea", "ilert", "incidentio", "squadcast", "signl4", "datadog", "newrelic", "splunk",
           "line", "signal", "clickup", "ifttt", "zapier", "n8n", "homeassistant", "awsses", "sendgrid"}
  BY DEF ALL, with_transport

(* The gateways of sms channels. *)
LEMMA SmsKinds == Sms = {"twilio", "telnyx", "vonage", "plivo", "sinch"}
  BY DEF Sms, SmsConfig

(* The credentials of every transport are among the masked fields of its   *)
(* configuration: the two are kept in step by hand, in different crates.   *)
LEMMA KeysAreMasked ==
    ASSUME NEW k \in ALL
    PROVE  build_notifier(k).keys \subseteq Fields(k) \cap with_transport[k].masked
<1> DEFINE Masked(kind) == build_notifier(kind).keys \subseteq Fields(kind) \cap with_transport[kind].masked
<1>1. ASSUME NEW kind \in {"telegram_app", "whatsapp_app", "email"} PROVE Masked(kind)
  <2>1. build_notifier(kind) = LogNotifier
    BY SmsKinds DEF build_notifier
  <2> QED BY <2>1 DEF LogNotifier, Transport
<1>2. ASSUME NEW kind \in {"telnyx", "vonage", "plivo", "sinch"} PROVE Masked(kind)
  <2>1. build_notifier(kind) = LogNotifier
    BY SmsKinds DEF build_notifier, SmsNotifier
  <2> QED BY <2>1 DEF LogNotifier, Transport
<1>3. Masked("twilio")
  <2>1. with_transport["twilio"] = SmsConfig.twilio /\ build_notifier("twilio") = SmsNotifier("twilio")
    BY SmsKinds DEF with_transport, build_notifier
  <2>2. SmsNotifier("twilio").keys \subseteq (DOMAIN SmsConfig.twilio.tests) \cap SmsConfig.twilio.masked
    BY DEF SmsConfig, Config, SmsNotifier, Transport
  <2> QED BY <2>1, <2>2 DEF Fields
<1>4. Masked("slack") /\ Masked("discord") /\ Masked("msteams") /\ Masked("google_chat")
  BY SmsKinds DEF Fields, with_transport, build_notifier, Hook, Config, post_json, Transport,
     SlackConfig, SlackNotifier, DiscordConfig, DiscordNotifier, MsTeamsConfig, MsTeamsNotifier,
     GoogleChatConfig, GoogleChatNotifier
<1>5. Masked("mattermost") /\ Masked("rocketchat") /\ Masked("webex") /\ Masked("squadcast")
  BY SmsKinds DEF Fields, with_transport, build_notifier, Hook, Config, post_json, Transport,
     MattermostConfig, MattermostNotifier, RocketchatConfig, RocketchatNotifier, WebexConfig,
     WebexNotifier, SquadcastConfig, SquadcastNotifier
<1>6. Masked("clickup") /\ Masked("zapier") /\ Masked("n8n") /\ Masked("homeassistant")
  BY SmsKinds DEF Fields, with_transport, build_notifier, Hook, Config, post_json, Transport,
     ClickUpConfig, ClickUpNotifier, ZapierConfig, ZapierNotifier, N8nConfig, N8nNotifier,
     HomeAssistantConfig, HomeAssistantNotifier
<1>7. Masked("webhook") /\ Masked("telegram") /\ Masked("whatsapp") /\ Masked("pagerduty")
  BY SmsKinds DEF Fields, with_transport, build_notifier, Hook, Config, post_json, Transport,
     WebhookConfig, WebhookNotifier, TelegramConfig, TelegramNotifier, WhatsAppConfig, WhatsAppNotifier,
     PagerDutyConfig, PagerDutyNotifier
<1>8. Masked("ntfy") /\ Masked("pushover") /\ Masked("opsgenie") /\ Masked("gotify")
  BY SmsKinds DEF Fields, with_transport, build_notifier, Hook, Config, post_json, Transport,
     NtfyConfig, NtfyNotifier, PushoverConfig, PushoverNotifier, OpsgenieConfig, OpsgenieNotifier,
     GotifyConfig, GotifyNotifier
<1>9. Masked("matrix") /\ Masked("zulip") /\ Masked("github") /\ Masked("gitlab")
  BY SmsKinds DEF Fields, with_transport, build_notifier, Hook, Config, post_json, Transport,
     MatrixConfig, MatrixNotifier, ZulipConfig, ZulipNotifier, GitHubConfig, GitHubNotifier,
     GitLabConfig, GitLabNotifier
<1>10. Masked("gitea") /\ Masked("ilert") /\ Masked("incidentio") /\ Masked("signl4")
  BY SmsKinds DEF Fields, with_transport, build_notifier, Hook, Config, post_json, Transport,
     GiteaConfig, GiteaNotifier, IlertConfig, IlertNotifier, IncidentioConfig, IncidentioNotifier,
     SIGNL4Config, SIGNL4Notifier
<1>11. Masked("datadog") /\ Masked("newrelic") /\ Masked("splunk") /\ Masked("line")
  BY SmsKinds DEF Fields, with_transport, build_notifier, Hook, Config, post_json, Transport,
     DatadogConfig, DatadogNotifier, NewRelicConfig, NewRelicNotifier, SplunkConfig, SplunkNotifier,
     LineConfig, LineNotifier
<1>12. Masked("signal") /\ Masked("ifttt") /\ Masked("awsses") /\ Masked("sendgrid")
  BY SmsKinds DEF Fields, with_transport, build_notifier, Hook, Config, post_json, Transport,
     SignalConfig, SignalNotifier, IFTTTConfig, IFTTTNotifier, AwsSesConfig, AwsSesNotifier,
     SendGridConfig, SendGridNotifier
<1> HIDE DEF Masked
<1> SUFFICES Masked(k)
  BY DEF Masked
<1> QED BY <1>1, <1>2, <1>3, <1>4, <1>5, <1>6, <1>7, <1>8, <1>9, <1>10, <1>11, <1>12, AllKinds

----------------------------------------------------------------------------
(* What the API shows.  The row of a channel travels through the requests  *)
(* that read it and write it back.                                         *)
RowOK(row) == {"kind", "config", "enabled", "verified", "reason"} \subseteq DOMAIN row /\ row.kind \in ALL

KindInv ==
    /\ DOMAIN channel = Channels /\ DOMAIN visitor = Visitors
    /\ \A c \in Channels : Exists(c) => RowOK(channel[c])
    /\ editor.pc = "patch" => RowOK(editor.row)
    /\ editor.pc = "request" => editor.channel \in Channels
    /\ DOMAIN token = Tokens /\ \A k \in Tokens : token[k] # Nothing => token[k] \in Channels
    /\ \A v \in Visitors : /\ {"pc", "accepts", "channel", "row"} \subseteq DOMAIN visitor[v]
                           /\ visitor[v].pc = "claimed" => visitor[v].channel \in Channels
                           /\ visitor[v].pc = "read" => RowOK(visitor[v].row)

(* A body that is patched into a row leaves a row of some kind. *)
LEMMA PatchedRows ==
    ASSUME NEW old, RowOK(old), NEW row \in Patched(old)
    PROVE  RowOK(row)
<1>1. ASSUME NEW kind \in ALL, NEW config, row = [old EXCEPT !.kind = kind, !.config = config] PROVE RowOK(row)
  BY <1>1 DEF RowOK
<1>2. ASSUME NEW flag, row = [old EXCEPT !.enabled = flag] PROVE RowOK(row)
  BY <1>2 DEF RowOK
<1>3. ASSUME NEW flag, NEW reason, row = [old EXCEPT !.enabled = flag, !.reason = reason] PROVE RowOK(row)
  BY <1>3 DEF RowOK
<1> DEFINE Sent == {<<old.kind, redact_in_place(old.kind, old.config)>>,
                    <<old.kind, [f \in Fields(old.kind) |-> Moved]>>}
                   \cup {<<kind, Filled(kind)>> : kind \in Kinds}
<1>4. ASSUME NEW s \in Sent PROVE s[1] \in ALL
  BY ChannelAssumption DEF RowOK
<1>5. \/ \E s \in Sent : row = [old EXCEPT !.kind = s[1], !.config = s[2]]
      \/ row = [old EXCEPT !.enabled = FALSE]
      \/ row = [old EXCEPT !.enabled = TRUE, !.reason = FALSE]
  BY DEF Patched
<1> HIDE DEF Sent
<1> QED BY <1>1, <1>2, <1>3, <1>4, <1>5

(* A stored row is replaced by a row, or removed. *)
LEMMA StoreKeeps ==
    ASSUME KindInv, NEW c, NEW row, RowOK(row) \/ row = Nothing, channel' = [channel EXCEPT ![c] = row]
    PROVE  (DOMAIN channel = Channels /\ \A q \in Channels : Exists(q) => RowOK(channel[q]))'
<1>1. DOMAIN channel' = Channels
  BY DEF KindInv
<1>2. ASSUME NEW q \in Channels, channel'[q] # Nothing PROVE RowOK(channel'[q])
  <2>1. CASE q = c
    BY <1>2, <2>1 DEF KindInv
  <2>2. CASE q # c
    BY <1>2, <2>2 DEF KindInv, Exists
  <2> QED BY <2>1, <2>2
<1> QED BY <1>1, <1>2 DEF Exists, RowOK

\* The parts of the invariant, for steps that touch one of them.
ChannelsKept == (DOMAIN channel = Channels /\ \A c \in Channels : Exists(c) => RowOK(channel[c]))'
EditorKept == (editor.pc = "patch" => RowOK(editor.row))' /\ (editor.pc = "request" => editor.channel \in Channels)'
TokensKept == (DOMAIN token = Tokens /\ \A k \in Tokens : token[k] # Nothing => token[k] \in Channels)'
VisitorsKept ==
    (/\ DOMAIN visitor = Visitors
     /\ \A v \in Visitors : /\ {"pc", "accepts", "channel", "row"} \subseteq DOMAIN visitor[v]
                            /\ visitor[v].pc = "claimed" => visitor[v].channel \in Channels
                            /\ visitor[v].pc = "read" => RowOK(visitor[v].row))'

LEMMA PartsKept ==
    ASSUME KindInv
    PROVE  /\ UNCHANGED channel => ChannelsKept
           /\ UNCHANGED editor => EditorKept
           /\ UNCHANGED visitor => VisitorsKept
           /\ UNCHANGED token => TokensKept
           /\ editor' = NoEdit => EditorKept
           /\ ChannelsKept /\ EditorKept /\ TokensKept /\ VisitorsKept => KindInv'
<1>1. UNCHANGED channel => ChannelsKept
  BY DEF KindInv, ChannelsKept, Exists, RowOK
<1>2. UNCHANGED editor => EditorKept
  BY DEF KindInv, EditorKept, RowOK
<1>3. UNCHANGED visitor => VisitorsKept
  BY DEF KindInv, VisitorsKept, RowOK
<1>4. editor' = NoEdit => EditorKept
  BY DEF EditorKept, NoEdit
<1>5. UNCHANGED token => TokensKept
  BY DEF KindInv, TokensKept
<1>6. ChannelsKept /\ EditorKept /\ TokensKept /\ VisitorsKept => KindInv'
  BY DEF ChannelsKept, EditorKept, TokensKept, VisitorsKept, KindInv
<1> QED BY <1>1, <1>2, <1>3, <1>4, <1>5, <1>6

LEMMA VisitStep ==
    ASSUME KindInv, NEW v \in Visitors, NEW x, visitor' = [visitor EXCEPT ![v] = x],
           {"pc", "accepts", "channel", "row"} \subseteq DOMAIN x, x.pc = "read" => RowOK(x.row),
           x.pc = "claimed" => x.channel \in Channels
    PROVE  VisitorsKept
<1>1. DOMAIN visitor' = Visitors /\ visitor'[v] = x /\ \A w \in Visitors \ {v} : visitor'[w] = visitor[w]
  BY DEF KindInv
<1>2. ASSUME NEW w \in Visitors
      PROVE  /\ {"pc", "accepts", "channel", "row"} \subseteq DOMAIN visitor'[w]
             /\ visitor'[w].pc = "claimed" => visitor'[w].channel \in Channels
             /\ visitor'[w].pc = "read" => RowOK(visitor'[w].row)
  BY <1>1 DEF KindInv
<1> QED BY <1>1, <1>2 DEF VisitorsKept, RowOK

LEMMA ConsoleKeepsKinds ==
    ASSUME KindInv, Console
    PROVE  KindInv'
<1>1. ASSUME NEW c \in Channels, create_channel(c) PROVE KindInv'
  <2>1. PICK kind \in Kinds, enabled \in BOOLEAN :
            channel' = [channel EXCEPT ![c] = ChannelRow(kind, Filled(kind), enabled)]
    BY <1>1 DEF create_channel
  <2>2. RowOK(ChannelRow(kind, Filled(kind), enabled))
    BY ChannelAssumption DEF RowOK, ChannelRow
  <2>3. ChannelsKept
    BY <2>1, <2>2, StoreKeeps DEF ChannelsKept
  <2> QED BY <1>1, <2>3, PartsKept DEF create_channel
<1>2. ASSUME NEW c \in Channels, update_channel(c) PROVE KindInv'
  <2>1. PICK row \in Patched(channel[c]) : editor' = [pc |-> "patch", channel |-> c, row |-> row]
    BY <1>2 DEF update_channel
  <2>2. RowOK(channel[c])
    BY <1>2 DEF update_channel, KindInv
  <2>3. RowOK(row)
    BY <2>2, PatchedRows
  <2>4. EditorKept
    BY <2>1, <2>3 DEF EditorKept, RowOK
  <2> QED BY <1>2, <2>4, PartsKept DEF update_channel, channelRows
<1>3. CASE update_notification_channel
  <2>1. RowOK(editor.row)
    BY <1>3 DEF update_notification_channel, KindInv
  <2>2. ChannelsKept
    BY <1>3, <2>1, StoreKeeps, PartsKept DEF update_notification_channel, ChannelsKept
  <2> QED BY <1>3, <2>2, PartsKept DEF update_notification_channel
<1>4. ASSUME NEW c \in Channels, delete_channel(c) PROVE KindInv'
  <2>1. ChannelsKept
    BY <1>4, StoreKeeps DEF delete_channel, ChannelsKept
  <2> QED BY <1>4, <2>1, PartsKept DEF delete_channel
<1>5. ASSUME NEW c \in Channels, request_verification(c) PROVE KindInv'
  <2>1. EditorKept
    BY <1>5 DEF request_verification, EditorKept
  <2> QED BY <1>5, <2>1, PartsKept DEF request_verification, channelRows
<1>6. CASE create_channel_verification_token
  <2>1. PICK k \in Tokens : token' = [token EXCEPT ![k] = editor.channel]
    BY <1>6 DEF create_channel_verification_token
  <2>2. TokensKept
    BY <1>6, <2>1 DEF create_channel_verification_token, KindInv, TokensKept
  <2> QED BY <1>6, <2>2, PartsKept DEF create_channel_verification_token, channelRows
<1>7. CASE SetAlerts
  BY <1>7, PartsKept DEF SetAlerts
<1>8. ASSUME NEW r \in Rules,
             \/ \E session \in BOOLEAN : create_silence_rule(r, session)
             \/ update_silence_rule(r) \/ delete_silence_rule(r)
      PROVE  KindInv'
  BY <1>8, PartsKept DEF create_silence_rule, update_silence_rule, delete_silence_rule
<1> QED BY <1>1, <1>2, <1>3, <1>4, <1>5, <1>6, <1>7, <1>8 DEF Console

LEMMA RecipientsKeepKinds ==
    ASSUME KindInv, Recipients
    PROVE  KindInv'
<1>0. /\ {"pc", "accepts", "channel", "row"} \subseteq DOMAIN NoVisit /\ NoVisit.pc = "idle"
  BY DEF NoVisit
<1>1. ASSUME NEW v \in Visitors, ReadChannel(v) PROVE KindInv'
  <2>1. PICK c : c = visitor[v].channel
    OBVIOUS
  <2>2. visitor' = [visitor EXCEPT ![v] = IF Exists(c) THEN [visitor[v] EXCEPT !.pc = "read", !.row = channel[c]]
                                                        ELSE NoVisit]
    BY <1>1, <2>1 DEF ReadChannel
  <2>a. c \in Channels
    BY <1>1, <2>1 DEF ReadChannel, KindInv
  <2>3. CASE Exists(c)
    <3>1. PICK x : x = [visitor[v] EXCEPT !.pc = "read", !.row = channel[c]]
      OBVIOUS
    <3>2. {"pc", "accepts", "channel", "row"} \subseteq DOMAIN x /\ x.row = channel[c] /\ x.pc = "read"
      BY <3>1 DEF KindInv
    <3>3. RowOK(x.row)
      BY <2>a, <2>3, <3>2 DEF KindInv
    <3>4. VisitorsKept
      BY <2>2, <2>3, <3>1, <3>2, <3>3, VisitStep
    <3> QED BY <1>1, <3>4, PartsKept DEF ReadChannel, channelRows
  <2>4. CASE ~Exists(c)
    <3>1. VisitorsKept
      BY <1>0, <2>2, <2>4, VisitStep
    <3> QED BY <1>1, <3>1, PartsKept DEF ReadChannel, channelRows
  <2> QED BY <2>3, <2>4
<1>2. ASSUME NEW v \in Visitors, WriteBack(v) PROVE KindInv'
  <2>1. RowOK(visitor[v].row)
    BY <1>2 DEF WriteBack, KindInv
  <2>2. PICK row : /\ row = IF visitor[v].accepts THEN [visitor[v].row EXCEPT !.verified = TRUE]
                                                  ELSE [visitor[v].row EXCEPT !.reason = TRUE]
    OBVIOUS
  <2>3. RowOK(row)
    BY <2>1, <2>2 DEF RowOK
  <2>4. UNCHANGED channel \/ channel' = [channel EXCEPT ![visitor[v].channel] = row]
    BY <1>2, <2>2 DEF WriteBack
  <2>5. ChannelsKept
    BY <2>3, <2>4, StoreKeeps, PartsKept DEF ChannelsKept
  <2>6. VisitorsKept
    BY <1>0, <1>2, VisitStep DEF WriteBack
  <2> QED BY <1>2, <2>5, <2>6, PartsKept DEF WriteBack
<1>3. ASSUME NEW v \in Visitors, GiveUp(v) PROVE KindInv'
  <2>1. VisitorsKept
    BY <1>0, <1>3, VisitStep DEF GiveUp
  <2> QED BY <1>3, <2>1, PartsKept DEF GiveUp, channelRows
<1>4. ASSUME NEW v \in Visitors, NEW k \in Tokens, consume_channel_verification_token(v, k) PROVE KindInv'
  <2>1. PICK accepts \in BOOLEAN :
            visitor' = [visitor EXCEPT ![v] = [pc |-> "claimed", accepts |-> accepts, channel |-> token[k],
                                               row |-> Nothing]]
    BY <1>4 DEF consume_channel_verification_token
  <2>2. PICK x : x = [pc |-> "claimed", accepts |-> accepts, channel |-> token[k], row |-> Nothing]
    OBVIOUS
  <2>3. {"pc", "accepts", "channel", "row"} \subseteq DOMAIN x /\ x.pc = "claimed" /\ x.channel \in Channels
    BY <1>4, <2>2 DEF consume_channel_verification_token, KindInv
  <2>a. TokensKept
    BY <1>4 DEF consume_channel_verification_token, KindInv, TokensKept
  <2>4. VisitorsKept
    BY <2>1, <2>2, <2>3, VisitStep
  <2> QED BY <1>4, <2>a, <2>4, PartsKept DEF consume_channel_verification_token, channelRows
<1>5. ASSUME NEW k \in Tokens, TokenExpires(k) PROVE KindInv'
  <2>1. TokensKept
    BY <1>5 DEF TokenExpires, KindInv, TokensKept
  <2> QED BY <1>5, <2>1, PartsKept DEF TokenExpires, channelRows
<1> QED BY <1>1, <1>2, <1>3, <1>4, <1>5 DEF Recipients

(* No answer of the API shows a credential of a channel's transport, after *)
(* any sequence of creations, patches, changes of kind, confirmations and  *)
(* refusals, interleaved between their reads and writes.                   *)
THEOREM SecretsNeverShown == ChannelSpec => []SecretsStayInside
<1>1. ChannelInit => KindInv
  <2> SUFFICES ASSUME ChannelInit PROVE KindInv
    OBVIOUS
  <2>1. /\ channel \in [Channels -> ChannelRows \cup {Nothing}]
        /\ editor = NoEdit /\ visitor = [v \in Visitors |-> NoVisit]
        /\ token = [k \in Tokens |-> Nothing]
    BY DEF ChannelInit, ChannelsFrom
  <2>2. ASSUME NEW row \in ChannelRows PROVE RowOK(row)
    <3>1. PICK k \in ALL : row \in [kind : {k}, config : {f \in [Fields(k) -> FieldValues] : validate(k, f)},
                                    enabled : BOOLEAN, verified : BOOLEAN, reason : BOOLEAN]
      BY DEF ChannelRows
    <3> QED BY <3>1 DEF RowOK
  <2>3. ASSUME NEW v \in Visitors
        PROVE  {"pc", "accepts", "channel", "row"} \subseteq DOMAIN visitor[v] /\ visitor[v].pc = "idle"
    BY <2>1 DEF NoVisit
  <2> QED BY <2>1, <2>2, <2>3 DEF KindInv, Exists, NoEdit
<1>2. KindInv /\ [ChannelNext]_channelVars => KindInv'
  <2> SUFFICES ASSUME KindInv, [ChannelNext]_channelVars PROVE KindInv'
    OBVIOUS
  <2>1. CASE Dispatching
    <3>1. UNCHANGED <<channel, editor, token, visitor>>
      BY <2>1 DEF Dispatching, dispatch_to_target_channels, LoadSilences, EndDispatch, VisitChannel, Deliver,
         WindowMoves, NoConsoleStep, channelRows
    <3> QED BY <3>1, PartsKept
  <2>2. CASE UNCHANGED channelVars
    BY <2>2, PartsKept DEF channelVars, channelRows
  <2> QED BY <2>1, <2>2, ConsoleKeepsKinds, RecipientsKeepKinds DEF ChannelNext
<1>3. KindInv => SecretsStayInside
  <2> SUFFICES ASSUME KindInv, NEW c \in Channels, Exists(c),
                      NEW f \in build_notifier(channel[c].kind).keys
               PROVE  redact_in_place(channel[c].kind, channel[c].config)[f] \in {MASK, None}
    BY DEF SecretsStayInside
  <2>1. channel[c].kind \in ALL
    BY DEF KindInv, RowOK
  <2>2. f \in Fields(channel[c].kind) /\ f \in with_transport[channel[c].kind].masked
    BY <2>1, KeysAreMasked
  <2> QED BY <2>2 DEF redact_in_place
<1> QED BY <1>1, <1>2, <1>3, PTL DEF ChannelSpec
----------------------------------------------------------------------------
(* Verdicts.                                                               *)

(* The guard lets an address pass exactly when it is public, in whatever   *)
(* form it is written.                                                     *)
LEMMA BlockedOrPublic ==
    ASSUME NEW ip \in Addresses
    PROVE  is_blocked_ip(ip) <=> ~PublicAddress(ip)
<1>1. CASE \E r \in AnyV4 : ip = V4(r)
  BY <1>1 DEF AnyV4, V4, BlockedV4, Carriers, is_blocked_ip, is_blocked_v4, PublicAddress
<1>2. CASE \E r \in BlockedV6 \cup {"public"} : ip = V6(r, r)
  BY <1>2 DEF V6, BlockedV6, Carriers, is_blocked_ip, is_blocked_v6, PublicAddress
<1>3. CASE \E r \in Carriers, v4 \in AnyV4 : ip = V6(r, v4)
  BY <1>3 DEF AnyV4, V6, BlockedV4, BlockedV6, Carriers, is_blocked_ip, is_blocked_v4, is_blocked_v6, PublicAddress
<1> QED BY <1>1, <1>2, <1>3 DEF Addresses

Reachable(net) == \E ip \in net.host.ips : PublicAddress(ip)

LEMMA GuardPasses ==
    ASSUME NEW case, IsRequest(case)
    PROVE  ssrf_check_host(case.net.host) <=> Reachable(case.net)
  BY BlockedOrPublic DEF IsRequest, ssrf_check_host, filter, Reachable

(* A verdict gives reasons exactly when it is not up.                      *)
Explained(v) == v.status = "up" <=> v.errors = {}

LEMMA UpExplained == Explained(Up)
  BY DEF Explained, Up

LEMMA ReportExplained ==
    ASSUME NEW why
    PROVE  Explained(Report("down", why)) /\ Explained(Report("degraded", why)) /\ Explained(Report("error", why))
  BY DEF Explained, Report

LEMMA GuardExplained ==
    ASSUME NEW net, NEW v, Explained(v)
    PROVE  Explained(Guarded(net, v)) /\ (~ssrf_check_host(net.host) => Guarded(net, v).status = "error")
  BY ReportExplained DEF Guarded, Report

LEMMA Statuses == Up.status = "up" /\ \A status, why : Report(status, why).status = status
  BY DEF Up, Report

(* A certificate is up for at least the days to warn of, and down once a   *)
(* whole day has gone since it expired.                                    *)
LEMMA CertByHours ==
    ASSUME NEW hours \in Int, NEW warn \in Nat, NEW v, v = CertVerdict(WholeDays(hours), warn)
    PROVE  /\ Explained(v)
           /\ v.status = "down" <=> hours <= -HoursPerDay
           /\ warn > 0 => (v.status = "up" <=> hours >= HoursPerDay * warn)
           /\ warn = 0 => v.status # "degraded"
<1>1. PICK days \in Int : days = WholeDays(hours)
  BY DEF WholeDays, HoursPerDay
<1>2. /\ days < 0 <=> hours <= -24
      /\ warn > 0 => (days >= warn <=> hours >= 24 * warn)
  <2>1. CASE hours >= 0
    <3>1. days = hours \div 24
      BY <1>1, <2>1 DEF WholeDays, HoursPerDay
    <3>2. 24 * days <= hours /\ hours < 24 * days + 24
      BY <2>1, <3>1
    <3> QED BY <2>1, <3>2
  <2>2. CASE hours < 0
    <3>1. days = -((-hours) \div 24)
      BY <1>1, <2>2 DEF WholeDays, HoursPerDay
    <3>2. PICK m \in Nat : m = (-hours) \div 24
      BY <2>2
    <3>3. 24 * m <= -hours /\ -hours < 24 * m + 24
      BY <2>2, <3>2
    <3> QED BY <2>2, <3>1, <3>2, <3>3
  <2> QED BY <2>1, <2>2
<1>3. /\ days < 0 <=> hours <= -HoursPerDay
      /\ warn > 0 => (days >= warn <=> hours >= HoursPerDay * warn)
  BY <1>2 DEF HoursPerDay
<1>4. v = CertVerdict(days, warn)
  BY <1>1
<1> DEFINE Right ==
                   /\ Explained(v)
                   /\ v.status = "down" <=> hours <= -HoursPerDay
                   /\ warn > 0 => (v.status = "up" <=> hours >= HoursPerDay * warn)
                   /\ warn = 0 => v.status # "degraded"
<1>5. ASSUME days < 0 PROVE Right
  <2>1. v = Report("down", "cert expired")
    <3>1. ~(days >= 0 /\ days < warn) /\ ~(days >= warn /\ days >= 0)
      BY <1>5
    <3> QED BY <1>5, <3>1, <1>4, Zenon DEF CertVerdict
  <2>2. v.status = "down"
    BY <2>1, Statuses, Zenon
  <2>3. Explained(v)
    BY <2>1, ReportExplained, UpExplained
  <2> QED BY <1>3, <1>5, <2>2, <2>3
<1>6. ASSUME days >= 0 /\ days < warn PROVE Right
  <2>1. v = Report("degraded", "cert expiring")
    <3>1. ~(days < 0) /\ ~(days >= warn /\ days >= 0)
      BY <1>6
    <3> QED BY <1>6, <3>1, <1>4, Zenon DEF CertVerdict
  <2>2. v.status = "degraded"
    BY <2>1, Statuses, Zenon
  <2>3. Explained(v)
    BY <2>1, ReportExplained, UpExplained
  <2> QED BY <1>3, <1>6, <2>2, <2>3
<1>7. ASSUME days >= warn /\ days >= 0 PROVE Right
  <2>1. v = Up
    <3>1. ~(days < 0) /\ ~(days >= 0 /\ days < warn)
      BY <1>7
    <3> QED BY <1>7, <3>1, <1>4, Zenon DEF CertVerdict
  <2>2. v.status = "up"
    BY <2>1, Statuses, Zenon
  <2>3. Explained(v)
    BY <2>1, ReportExplained, UpExplained
  <2> QED BY <1>3, <1>7, <2>2, <2>3
<1>8. Right
  <2>1. days < 0 \/ (days >= 0 /\ days < warn) \/ (days >= warn /\ days >= 0)
    BY <1>1
  <2> QED BY <2>1, <1>5, <1>6, <1>7, Zenon
<1> QED BY <1>8

(* The probe a kind of check runs.                                         *)
LEMMA ProbeOf ==
    ASSUME NEW spec, NEW net
    PROVE  /\ spec.kind \in {"flow", "suite"} => probe_target(spec, net) = Report("error", "not supported")
           /\ spec.kind = "http" => probe_target(spec, net) = probe_http(spec, net)
           /\ spec.kind = "tcp" => probe_target(spec, net) = probe_tcp(net)
           /\ spec.kind = "ping" => probe_target(spec, net) = probe_ping(net)
           /\ spec.kind = "websocket" => probe_target(spec, net) = probe_websocket(net)
           /\ spec.kind = "grpc" => probe_target(spec, net) = probe_grpc(net)
           /\ spec.kind = "ssh" => probe_target(spec, net) = probe_ssh(net)
           /\ spec.kind = "udp" => probe_target(spec, net) = probe_udp(spec, net)
           /\ spec.kind = "starttls" => probe_target(spec, net) = probe_starttls(net)
           /\ spec.kind = "dns" /\ net.agent => probe_target(spec, net) = probe_dns(spec, net)
           /\ spec.kind = "tls_cert" /\ net.agent => probe_target(spec, net) = probe_tls_cert(spec, net)
           /\ spec.kind \in {"dns", "tls_cert"} /\ ~net.agent => probe_target(spec, net) = Report("error", "build")
  BY DEF probe_target, supported_on_control_plane, ALL_KINDS

LEMMA DialledExplained ==
    ASSUME NEW spec, NEW net
    PROVE  /\ Explained(probe_tcp(net)) /\ Explained(probe_websocket(net)) /\ Explained(probe_grpc(net))
           /\ Explained(probe_ssh(net)) /\ Explained(probe_udp(spec, net)) /\ Explained(probe_starttls(net))
           /\ net.stage \in StagesOf("ping") => Explained(probe_ping(net))
<1>1. Explained(probe_tcp(net))
  BY UpExplained, ReportExplained, GuardExplained DEF probe_tcp
<1>2. Explained(probe_websocket(net))
  BY UpExplained, ReportExplained, GuardExplained DEF probe_websocket
<1>3. Explained(probe_grpc(net))
  BY UpExplained, ReportExplained, GuardExplained DEF probe_grpc
<1>4. Explained(probe_ssh(net))
  BY UpExplained, ReportExplained, GuardExplained DEF probe_ssh
<1>5. Explained(probe_udp(spec, net))
  BY UpExplained, ReportExplained, GuardExplained DEF probe_udp
<1>6. Explained(probe_starttls(net))
  BY UpExplained, ReportExplained, GuardExplained DEF probe_starttls
<1>7. ASSUME net.stage \in StagesOf("ping") PROVE Explained(probe_ping(net))
  BY <1>7, UpExplained, ReportExplained, GuardExplained DEF probe_ping, StagesOf
<1> QED BY <1>1, <1>2, <1>3, <1>4, <1>5, <1>6, <1>7

LEMMA DnsExplained ==
    ASSUME NEW spec, NEW net
    PROVE  Explained(probe_dns(spec, net))
  BY UpExplained, ReportExplained DEF probe_dns

(* A host that may not be contacted is an error to every probe that dials. *)
LEMMA RefusedIsError ==
    ASSUME NEW spec, NEW net, ~ssrf_check_host(net.host)
    PROVE  /\ probe_http(spec, net).status = "error" /\ probe_tcp(net).status = "error"
           /\ probe_ping(net).status = "error" /\ probe_websocket(net).status = "error"
           /\ probe_grpc(net).status = "error" /\ probe_ssh(net).status = "error"
           /\ probe_udp(spec, net).status = "error" /\ probe_starttls(net).status = "error"
           /\ probe_tls_cert(spec, net).status = "error"
<1>1. probe_http(spec, net).status = "error"
  BY Statuses, Zenon DEF Guarded, probe_http
<1>2. probe_tcp(net).status = "error"
  BY Statuses, Zenon DEF Guarded, probe_tcp
<1>3. probe_ping(net).status = "error"
  BY Statuses, Zenon DEF Guarded, probe_ping
<1>4. probe_websocket(net).status = "error"
  BY Statuses, Zenon DEF Guarded, probe_websocket
<1>5. probe_grpc(net).status = "error"
  BY Statuses, Zenon DEF Guarded, probe_grpc
<1>6. probe_ssh(net).status = "error"
  BY Statuses, Zenon DEF Guarded, probe_ssh
<1>7. probe_udp(spec, net).status = "error"
  BY Statuses, Zenon DEF Guarded, probe_udp
<1>8. probe_starttls(net).status = "error"
  BY Statuses, Zenon DEF Guarded, probe_starttls
<1>9. probe_tls_cert(spec, net).status = "error"
  BY Statuses, Zenon DEF Guarded, probe_tls_cert
<1> QED BY <1>1, <1>2, <1>3, <1>4, <1>5, <1>6, <1>7, <1>8, <1>9

(* An answer is judged by the worst of what it misses.                     *)
LEMMA WorstWins ==
    ASSUME NEW spec, NEW net
    PROVE  LET judged == JudgeResponse(spec, net).status
               bad == StatusMissed(spec, net) \/ TextMissed(spec, net) \/ BodyMissed(spec, net)
           IN  /\ bad => judged = "down"
               /\ ~bad /\ TooSlow(spec, net) => judged = "degraded"
               /\ ~bad /\ ~TooSlow(spec, net) => judged = "up"
<1> DEFINE s1 == IF StatusMissed(spec, net) THEN "down" ELSE "up"
           s2 == IF TextMissed(spec, net) THEN merge_status(s1, "down") ELSE s1
           s3 == IF BodyMissed(spec, net) THEN merge_status(s2, "down") ELSE s2
           s4 == IF TooSlow(spec, net) THEN merge_status(s3, "degraded") ELSE s3
<1>1. merge_status("up", "down") = "down" /\ merge_status("down", "down") = "down"
      /\ merge_status("up", "degraded") = "degraded" /\ merge_status("down", "degraded") = "down"
  BY DEF merge_status
<1>2. JudgeResponse(spec, net).status = s4
  BY DEF JudgeResponse
<1>3. s2 = IF StatusMissed(spec, net) \/ TextMissed(spec, net) THEN "down" ELSE "up"
  BY <1>1
<1> HIDE DEF s2
<1>4. s3 = IF StatusMissed(spec, net) \/ TextMissed(spec, net) \/ BodyMissed(spec, net) THEN "down" ELSE "up"
  BY <1>1, <1>3
<1> HIDE DEF s3
<1> QED BY <1>1, <1>2, <1>4

LEMMA MissesReported ==
    ASSUME NEW spec, NEW net
    PROVE  JudgeResponse(spec, net).errors = {m[1] : m \in Missed(spec, net)}
<1> DEFINE all == {<<"status", 2>>, <<"text", 2>>, <<"body", 2>>, <<"slow", 1>>}
           Misses(why) == \/ why = "status" /\ StatusMissed(spec, net)
                          \/ why = "text" /\ TextMissed(spec, net)
                          \/ why = "body" /\ BodyMissed(spec, net)
                          \/ why = "slow" /\ TooSlow(spec, net)
<1>1. JudgeResponse(spec, net).errors = {why \in {"status", "text", "body", "slow"} : Misses(why)}
  BY DEF JudgeResponse
<1>2. Missed(spec, net) = {m \in all : Misses(m[1])}
  BY DEF Missed
<1>3. {m[1] : m \in all} = {"status", "text", "body", "slow"}
  OBVIOUS
<1> HIDE DEF Misses, all
<1> QED BY <1>1, <1>2, <1>3

LEMMA RanksMatch ==
    ASSUME NEW spec, NEW net
    PROVE  LET judged == JudgeResponse(spec, net)
               missed == Missed(spec, net)
           IN  /\ Explained(judged)
               /\ \A m \in missed : Rank(judged.status) >= m[2]
               /\ missed # {} => \E m \in missed : Rank(judged.status) = m[2]
<1> DEFINE bad == StatusMissed(spec, net) \/ TextMissed(spec, net) \/ BodyMissed(spec, net)
           judged == JudgeResponse(spec, net)
           missed == Missed(spec, net)
<1>1. \A m \in missed : m[2] \in {1, 2} /\ (m[2] = 2 => bad) /\ (m[2] = 1 => TooSlow(spec, net))
  BY DEF Missed
<1>2. /\ StatusMissed(spec, net) => <<"status", 2>> \in missed
      /\ TextMissed(spec, net) => <<"text", 2>> \in missed
      /\ BodyMissed(spec, net) => <<"body", 2>> \in missed
      /\ TooSlow(spec, net) => <<"slow", 1>> \in missed
  BY DEF Missed
<1>3. judged.errors = {} <=> missed = {}
  <2>1. PICK S : S = missed
    OBVIOUS
  <2>2. {m[1] : m \in S} = {} <=> S = {}
    BY Zenon
  <2> QED BY <2>1, <2>2, MissesReported, Zenon
<1>4. CASE bad
  <2>1. judged.status = "down"
    BY <1>4, WorstWins
  <2>2. PICK m \in missed : m[2] = 2
    BY <1>4, <1>2
  <2>3. Rank(judged.status) = 2
    BY <2>1 DEF Rank
  <2> QED BY <1>1, <1>3, <2>1, <2>2, <2>3 DEF Explained
<1>5. CASE ~bad /\ TooSlow(spec, net)
  <2>1. judged.status = "degraded"
    BY <1>5, WorstWins
  <2>2. PICK m \in missed : m[2] = 1
    BY <1>5, <1>2
  <2>3. Rank(judged.status) = 1
    BY <2>1 DEF Rank
  <2> QED BY <1>1, <1>3, <1>5, <2>1, <2>2, <2>3 DEF Explained
<1>6. CASE ~bad /\ ~TooSlow(spec, net)
  <2>1. judged.status = "up"
    BY <1>6, WorstWins
  <2>2. missed = {}
    BY <1>6, <1>1
  <2> QED BY <1>3, <2>1, <2>2 DEF Explained
<1> QED BY <1>4, <1>5, <1>6

LEMMA CertExplained ==
    ASSUME NEW net, net.hours \in Int, NEW warn \in Nat
    PROVE  /\ Explained(check_tls_cert_expiry(net, warn))
           /\ Explained(CertVerdict(cert_days_remaining(net), warn))
<1>1. PICK v : v = CertVerdict(WholeDays(net.hours), warn)
  OBVIOUS
<1>2. Explained(v)
  BY <1>1, CertByHours
<1> QED BY <1>1, <1>2, UpExplained, Zenon DEF check_tls_cert_expiry, cert_days_remaining

LEMMA HttpExplained ==
    ASSUME NEW spec, NEW net, net.hours \in Int, spec.cert_expiry_warn_days \in Nat
    PROVE  /\ Explained(probe_http(spec, net))
           /\ ssrf_check_host(net.host) /\ net.answered /\ spec.cert_expiry_warn_days = 0
                  => probe_http(spec, net) = JudgeResponse(spec, net)
<1>1. Explained(check_tls_cert_expiry(net, spec.cert_expiry_warn_days))
  BY CertExplained
<1>2. Explained(JudgeResponse(spec, net))
  BY RanksMatch
<1>3. Explained(probe_http(spec, net))
  BY <1>1, <1>2, ReportExplained, Zenon DEF probe_http, Guarded
<1>4. spec.cert_expiry_warn_days = 0 => ~CertVetoes(spec, net)
  BY DEF CertVetoes
<1>5. ASSUME ssrf_check_host(net.host) /\ net.answered /\ spec.cert_expiry_warn_days = 0
      PROVE  probe_http(spec, net) = JudgeResponse(spec, net)
  BY <1>4, <1>5, Zenon DEF probe_http, Guarded
<1> QED BY <1>3, <1>5

LEMMA TlsCertExplained ==
    ASSUME NEW spec, NEW net, net.hours \in Int, spec.warn_days \in Nat
    PROVE  /\ Explained(probe_tls_cert(spec, net))
           /\ net.sni /\ ssrf_check_host(net.host) /\ net.stage = "handshake" /\ net.cert = "readable"
                  => probe_tls_cert(spec, net) = CertVerdict(WholeDays(net.hours), spec.warn_days)
<1>1. Explained(CertVerdict(cert_days_remaining(net), spec.warn_days))
  BY CertExplained
<1>2. Explained(probe_tls_cert(spec, net))
  BY <1>1, ReportExplained, Zenon DEF probe_tls_cert, Guarded
<1>3. ASSUME net.sni, ssrf_check_host(net.host), net.stage = "handshake", net.cert = "readable"
      PROVE  probe_tls_cert(spec, net) = CertVerdict(WholeDays(net.hours), spec.warn_days)
  BY <1>3, Zenon DEF probe_tls_cert, Guarded, tls_handshake, cert_days_remaining
<1> QED BY <1>2, <1>3, Zenon

(* Every answer to a request meets the reference.                          *)
LEMMA RequestExplained ==
    ASSUME NEW case, IsRequest(case), case.spec.kind \notin Untestable
    PROVE  Explained(probe_target(case.spec, case.net))
<1>1. PICK spec, net : spec = case.spec /\ net = case.net
  OBVIOUS
<1>2. net.hours \in Int /\ spec.warn_days \in Nat /\ spec.cert_expiry_warn_days \in Nat
      /\ net.stage \in StagesOf(spec.kind) /\ spec.kind \in ALL_KINDS
  BY <1>1 DEF IsRequest
<1>3. CASE spec.kind \in {"flow", "suite"}
  <2>1. probe_target(spec, net) = Report("error", "not supported")
    BY <1>3, ProbeOf
  <2> QED BY <1>1, <2>1, ReportExplained, Zenon
<1>4. CASE spec.kind = "http"
  <2>1. probe_target(spec, net) = probe_http(spec, net)
    BY <1>4, ProbeOf
  <2>2. Explained(probe_http(spec, net))
    BY <1>2, HttpExplained
  <2> QED BY <1>1, <2>1, <2>2, Zenon
<1>5. CASE spec.kind \in {"tcp", "websocket", "grpc", "ssh", "udp", "starttls"}
  BY <1>1, <1>5, ProbeOf, DialledExplained
<1>6. CASE spec.kind = "ping"
  <2>1. probe_target(spec, net) = probe_ping(net)
    BY <1>6, ProbeOf
  <2>2. Explained(probe_ping(net))
    BY <1>2, <1>6, DialledExplained
  <2> QED BY <1>1, <2>1, <2>2, Zenon
<1>7. CASE spec.kind \in {"dns", "tls_cert"}
  <2>1. \/ probe_target(spec, net) = Report("error", "build")
        \/ probe_target(spec, net) = probe_dns(spec, net)
        \/ probe_target(spec, net) = probe_tls_cert(spec, net)
    BY <1>7, ProbeOf
  <2>2. Explained(probe_dns(spec, net)) /\ Explained(Report("error", "build"))
    BY DnsExplained, ReportExplained, Zenon
  <2>3. Explained(probe_tls_cert(spec, net))
    BY <1>2, TlsCertExplained
  <2> QED BY <1>1, <2>1, <2>2, <2>3, Zenon
<1>8. case.spec.kind = spec.kind
  BY <1>1
<1> QED BY <1>2, <1>3, <1>4, <1>5, <1>6, <1>7, <1>8 DEF ALL_KINDS, Untestable

LEMMA RequestRefused ==
    ASSUME NEW case, IsRequest(case), case.spec.kind \in Dialled, ~Reachable(case.net)
    PROVE  probe_target(case.spec, case.net).status = "error"
<1>1. ~ssrf_check_host(case.net.host)
  BY GuardPasses
<1>2. PICK spec, net : spec = case.spec /\ net = case.net
  OBVIOUS
<1>3. ~ssrf_check_host(net.host)
  BY <1>1, <1>2
<1>4. /\ probe_http(spec, net).status = "error" /\ probe_tcp(net).status = "error"
      /\ probe_ping(net).status = "error" /\ probe_websocket(net).status = "error"
      /\ probe_grpc(net).status = "error" /\ probe_ssh(net).status = "error"
      /\ probe_udp(spec, net).status = "error" /\ probe_starttls(net).status = "error"
      /\ probe_tls_cert(spec, net).status = "error"
  BY <1>3, RefusedIsError, Zenon
<1>5. CASE spec.kind = "tls_cert"
  <2>1. probe_target(spec, net) \in {probe_tls_cert(spec, net), Report("error", "build")}
    BY <1>5, ProbeOf
  <2>2. Report("error", "build").status = "error"
    BY Statuses, Zenon
  <2> QED BY <1>2, <1>4, <2>1, <2>2, Zenon
<1>6. CASE spec.kind \in {"http", "tcp", "ping"}
  <2>1. probe_target(spec, net) \in {probe_http(spec, net), probe_tcp(net), probe_ping(net)}
    BY <1>6, ProbeOf
  <2> QED BY <1>2, <1>4, <2>1, Zenon
<1>7. CASE spec.kind \in {"websocket", "grpc", "ssh"}
  <2>1. probe_target(spec, net) \in {probe_websocket(net), probe_grpc(net), probe_ssh(net)}
    BY <1>7, ProbeOf
  <2> QED BY <1>2, <1>4, <2>1, Zenon
<1>8. CASE spec.kind \in {"udp", "starttls"}
  <2>1. probe_target(spec, net) \in {probe_udp(spec, net), probe_starttls(net)}
    BY <1>8, ProbeOf
  <2> QED BY <1>2, <1>4, <2>1, Zenon
<1> QED BY <1>2, <1>5, <1>6, <1>7, <1>8 DEF Dialled

(* The answers given.                                                      *)
AnswerInv ==
    \/ answer = NoAnswer
    \/ \E case \in Requests :
          /\ case.spec.kind \notin Untestable
          /\ answer = [asked |-> TRUE, spec |-> case.spec, net |-> case.net,
                       verdict |-> probe_target(case.spec, case.net)]

LEMMA AnswerMatches == AnswerInv => VerdictsMatch
<1> SUFFICES ASSUME AnswerInv, answer # NoAnswer PROVE VerdictsMatch
  BY DEF VerdictsMatch
<1>1. PICK case \in Requests :
          /\ case.spec.kind \notin Untestable
          /\ answer = [asked |-> TRUE, spec |-> case.spec, net |-> case.net,
                       verdict |-> probe_target(case.spec, case.net)]
  BY DEF AnswerInv
<1>2. IsRequest(case)
  BY ProbeAssumption
<1>3. PICK spec, net, v : spec = case.spec /\ net = case.net /\ v = probe_target(case.spec, case.net)
  OBVIOUS
<1>4. answer = [asked |-> TRUE, spec |-> spec, net |-> net, verdict |-> v]
  BY <1>1, <1>3
<1>5. answer.spec = spec /\ answer.net = net /\ answer.verdict = v
  BY <1>4
<1>6. Explained(v)
  BY <1>1, <1>2, <1>3, RequestExplained
<1>7. spec.kind \in Dialled /\ ~Reachable(net) => v.status = "error"
  BY <1>2, <1>3, RequestRefused
<1>8. ASSUME spec.kind = "http", Reachable(net), net.answered, spec.cert_expiry_warn_days = 0
      PROVE  v = JudgeResponse(spec, net)
  <2>1. net.hours \in Int /\ spec.cert_expiry_warn_days \in Nat
    BY <1>2, <1>3 DEF IsRequest
  <2>2. ssrf_check_host(net.host)
    BY <1>2, <1>3, <1>8, GuardPasses
  <2>3. v = probe_http(spec, net)
    BY <1>3, <1>8, ProbeOf
  <2>4. probe_http(spec, net) = JudgeResponse(spec, net)
    BY <2>1, <2>2, <1>8, HttpExplained, Zenon
  <2> QED BY <2>3, <2>4
<1>9. ASSUME spec.kind = "tls_cert", net.agent, net.sni, Reachable(net), net.stage = "handshake",
             net.cert = "readable"
      PROVE  /\ v.status = "down" <=> net.hours <= -HoursPerDay
             /\ spec.warn_days > 0 => (v.status = "up" <=> net.hours >= HoursPerDay * spec.warn_days)
             /\ spec.warn_days = 0 => v.status # "degraded"
             /\ net.hours >= 0 \/ net.hours <= -HoursPerDay =>
                   (net.hours <= -HoursPerDay <=> net.hours < 0)
  <2>1. net.hours \in Int /\ spec.warn_days \in Nat
    BY <1>2, <1>3 DEF IsRequest
  <2>2. ssrf_check_host(net.host)
    BY <1>2, <1>3, <1>9, GuardPasses
  <2>3. v = probe_tls_cert(spec, net)
    BY <1>3, <1>9, ProbeOf
  <2>4. PICK hours \in Int, warn \in Nat : hours = net.hours /\ warn = spec.warn_days
    BY <2>1
  <2>5. v = CertVerdict(WholeDays(hours), warn)
    BY <2>1, <2>2, <2>3, <2>4, <1>9, TlsCertExplained, Zenon
  <2>6. /\ v.status = "down" <=> hours <= -HoursPerDay
        /\ warn > 0 => (v.status = "up" <=> hours >= HoursPerDay * warn)
        /\ warn = 0 => v.status # "degraded"
    BY <2>5, CertByHours
  <2>7. hours >= 0 \/ hours <= -HoursPerDay => (hours <= -HoursPerDay <=> hours < 0)
    BY DEF HoursPerDay
  <2> QED BY <2>4, <2>6, <2>7, Zenon
<1>10. ASSUME spec.kind = "http", Reachable(net), net.answered, spec.cert_expiry_warn_days = 0
       PROVE  /\ v.errors = {m[1] : m \in Missed(spec, net)}
              /\ \A m \in Missed(spec, net) : Rank(v.status) >= m[2]
              /\ Missed(spec, net) # {} => \E m \in Missed(spec, net) : Rank(v.status) = m[2]
  <2>1. v = JudgeResponse(spec, net)
    BY <1>8, <1>10
  <2>2. v.errors = {m[1] : m \in Missed(spec, net)}
    BY <2>1, MissesReported, Zenon
  <2>3. PICK S : S = Missed(spec, net)
    OBVIOUS
  <2>4. /\ \A m \in S : Rank(v.status) >= m[2]
        /\ S # {} => \E m \in S : Rank(v.status) = m[2]
    BY <2>1, <2>3, RanksMatch, Zenon
  <2> QED BY <2>2, <2>3, <2>4, Zenon
<1> QED BY <1>5, <1>6, <1>7, <1>9, <1>10, Zenon DEF VerdictsMatch, Explained, Reachable, Read

(* POST /targets/test answers what the check's settings and what the       *)
(* network showed call for, whatever the request: VerdictsMatch.           *)
THEOREM VerdictsAlwaysMatch == ProbeSpec => []VerdictsMatch
<1>1. ProbeInit => AnswerInv
  BY DEF ProbeInit, AnswerInv
<1>2. AnswerInv /\ [ProbeNext]_answer => AnswerInv'
  <2> SUFFICES ASSUME AnswerInv, [ProbeNext]_answer PROVE AnswerInv'
    OBVIOUS
  <2>1. CASE ProbeNext
    BY <2>1, Zenon DEF ProbeNext, test_target_spec, AnswerInv
  <2>2. CASE UNCHANGED answer
    BY <2>2, Zenon DEF AnswerInv
  <2> QED BY <2>1, <2>2
<1> QED BY <1>1, <1>2, AnswerMatches, PTL DEF ProbeSpec
----------------------------------------------------------------------------
(* Handoffs.                                                               *)

(* A wall-clock time is its date and its time of day.                      *)
LEMMA DateAndTime ==
    ASSUME NEW n \in Int
    PROVE  /\ date_naive(n) \in Int /\ time(n) \in Int
           /\ n = date_naive(n) * Day + time(n)
           /\ 0 <= time(n) /\ time(n) < Day
  BY OnCallConstants DEF date_naive, time

LEMMA MoreDays ==
    ASSUME NEW j \in Int, NEW k \in Int, NEW c \in Nat, j <= k
    PROVE  j * c \in Int /\ k * c \in Int /\ j * c <= k * c
<1>1. PICK d \in Nat : k = j + d
  BY SMT
<1>2. k * c = j * c + d * c
  BY <1>1
<1>3. d * c \in Nat /\ j * c \in Int
  OBVIOUS
<1> QED BY <1>2, <1>3

LEMMA OneMoreDay ==
    ASSUME NEW j \in Int, NEW c \in Int
    PROVE  j * c \in Int /\ (j + 1) * c = j * c + c /\ (j - 1) * c = j * c - c
  OBVIOUS

(* A later date is at least a day later.                                   *)
LEMMA LaterDate ==
    ASSUME NEW n \in Int, NEW d \in Int
    PROVE  n < (d + 1) * Day <=> date_naive(n) <= d
<1> Day \in Nat /\ Day > 0
  BY OnCallConstants
<1>1. PICK e \in Int, t \in Int : e = date_naive(n) /\ t = time(n) /\ n = e * Day + t /\ 0 <= t /\ t < Day
  BY DateAndTime
<1>2. ASSUME e <= d PROVE n < (d + 1) * Day
  <2>1. (e + 1) * Day <= (d + 1) * Day
    BY <1>2, MoreDays
  <2> QED BY <1>1, <2>1, OneMoreDay
<1>3. ASSUME d + 1 <= e PROVE n >= (d + 1) * Day
  BY <1>1, <1>3, MoreDays
<1> QED BY <1>1, <1>2, <1>3, MoreDays

LEMMA ZoneTypes ==
    ASSUME NEW z, IsZone(z)
    PROVE  /\ z.at \in Int /\ z.before \in Int /\ z.after \in Int
           /\ -Day <= z.before /\ z.before <= Day /\ -Day <= z.after /\ z.after <= Day
           /\ \A t \in Int : Local(z, t) \in Int
           /\ \A t \in Int : Local(z, t) = IF t < z.at THEN t + z.before ELSE t + z.after
<1> Day \in Nat
  BY OnCallConstants
<1> QED BY DEF IsZone, Local, Offset

(* The wall clock has reached what it shows and what it showed before it   *)
(* was put back.                                                           *)
LEMMA ReachedBy ==
    ASSUME NEW z, IsZone(z), NEW n \in Int, NEW at \in Int
    PROVE  /\ n <= Local(z, at) => Reached(z, n, at)
           /\ Reached(z, n, at) => \/ n <= Local(z, at)
                                   \/ z.before > z.after /\ z.at <= at /\ n <= z.at - 1 + z.before
<1> Day \in Nat /\ Day > 0
  BY OnCallConstants
<1>1. PICK A \in Int, B \in Int, C \in Int : A = z.at /\ B = z.before /\ C = z.after
  BY ZoneTypes
<1>2. \A t \in Int : Local(z, t) = IF t < A THEN t + B ELSE t + C
  BY <1>1, ZoneTypes
<1>3. ASSUME n <= Local(z, at) PROVE Reached(z, n, at)
  <2>1. at \in (at - 2 * Day) .. at /\ Local(z, at) >= n
    BY <1>3, <1>2
  <2> QED BY <2>1, Zenon DEF Reached
<1>4. ASSUME NEW t \in (at - 2 * Day) .. at, Local(z, t) >= n
      PROVE  n <= Local(z, at) \/ (B > C /\ A <= at /\ n <= A - 1 + B)
  BY <1>2, <1>4
<1> QED BY <1>1, <1>3, <1>4 DEF Reached

LEMMA ReachedLess ==
    ASSUME NEW z, NEW n \in Int, NEW m \in Int, NEW at \in Int, IsZone(z), m <= n, Reached(z, n, at)
    PROVE  Reached(z, m, at)
<1> Day \in Nat
  BY OnCallConstants
<1>1. PICK t \in (at - 2 * Day) .. at : Local(z, t) >= n
  BY DEF Reached
<1>2. Local(z, t) \in Int
  BY ZoneTypes
<1> QED BY <1>1, <1>2 DEF Reached

(* No date is reached before it has come: clocks are put back within one.  *)
LEMMA ReachedToday ==
    ASSUME NEW z, IsZone(z), NEW n \in Int, NEW at \in Int, Reached(z, n, at)
    PROVE  n < (date_naive(Local(z, at)) + 1) * Day
<1> Day \in Nat /\ Day > 0
  BY OnCallConstants
<1>1. PICK A \in Int, B \in Int, C \in Int : A = z.at /\ B = z.before /\ C = z.after
  BY ZoneTypes
<1>2. PICK now \in Int : now = Local(z, at)
  BY ZoneTypes
<1>3. PICK d \in Int : d = date_naive(now)
  BY <1>2, DateAndTime
<1>4. now < (d + 1) * Day
  BY <1>2, <1>3, LaterDate
<1>5. (d + 1) * Day \in Int
  OBVIOUS
<1>6. CASE n <= now
  BY <1>2, <1>3, <1>4, <1>5, <1>6
<1>7. CASE B > C /\ A <= at /\ n <= A - 1 + B
  <2>1. date_naive(A - 1 + B) = date_naive(A + C)
    BY <1>1, <1>7 DEF IsZone, date_naive
  <2>2. A + C <= now
    BY <1>1, <1>2, <1>7, ZoneTypes
  <2>3. A + C < (d + 1) * Day
    BY <1>4, <1>5, <2>2
  <2>4. date_naive(A + C) <= d
    <3>1. PICK m \in Int : m = A + C
      OBVIOUS
    <3> QED BY <2>3, <3>1, LaterDate
  <2>5. A - 1 + B < (d + 1) * Day
    <3>1. PICK m \in Int : m = A - 1 + B
      OBVIOUS
    <3>2. date_naive(m) <= d
      BY <2>1, <2>4, <3>1
    <3> QED BY <3>1, <3>2, LaterDate
  <2> QED BY <1>2, <1>3, <1>5, <1>7, <2>5
<1> QED BY <1>1, <1>2, <1>6, <1>7, ReachedBy

(* What the wall clock has reached stays reached.                          *)
LEMMA ReachedEver ==
    ASSUME NEW z, IsZone(z), NEW n \in Int, NEW at \in Int, NEW t \in Int, t <= at, Local(z, t) >= n
    PROVE  Reached(z, n, at)
<1> Day \in Nat /\ Day > 0
  BY OnCallConstants
<1>1. CASE t >= at - 2 * Day
  <2>1. t \in (at - 2 * Day) .. at
    BY <1>1
  <2> QED BY <2>1, Zenon DEF Reached
<1>2. CASE t < at - 2 * Day
  <2>1. PICK A \in Int, B \in Int, C \in Int : A = z.at /\ B = z.before /\ C = z.after
    BY ZoneTypes
  <2>2. -Day <= B /\ B <= Day /\ -Day <= C /\ C <= Day
    BY <2>1, ZoneTypes
  <2>3. Local(z, t) = (IF t < A THEN t + B ELSE t + C) /\ Local(z, at) = (IF at < A THEN at + B ELSE at + C)
    BY <2>1, ZoneTypes
  <2>4. n <= Local(z, at)
    BY <1>2, <2>2, <2>3
  <2> QED BY <2>4, ReachedBy
<1> QED BY <1>1, <1>2

(* The instants that show a wall-clock time.                               *)
LEMMA Shown ==
    ASSUME NEW z, IsZone(z), NEW n \in Int
    PROVE  /\ from_local_datetime(z, n) \subseteq {n - z.before, n - z.after}
           /\ \A t \in from_local_datetime(z, n) : t \in Int /\ Local(z, t) = n
           /\ n - z.before < z.at => n - z.before \in from_local_datetime(z, n)
           /\ n - z.after >= z.at => n - z.after \in from_local_datetime(z, n)
           /\ \A t \in from_local_datetime(z, n) : (t < z.at /\ t = n - z.before) \/ (t >= z.at /\ t = n - z.after)
<1>1. PICK A \in Int, B \in Int, C \in Int : A = z.at /\ B = z.before /\ C = z.after
  BY ZoneTypes
<1>2. \A t \in Int : Local(z, t) = IF t < A THEN t + B ELSE t + C
  BY <1>1, ZoneTypes
<1>3. from_local_datetime(z, n) = {t \in {n - B, n - C} : Local(z, t) = n}
  BY <1>1 DEF from_local_datetime
<1>4. /\ n - B < A => n - B \in from_local_datetime(z, n)
      /\ n - C >= A => n - C \in from_local_datetime(z, n)
  BY <1>2, <1>3
<1>5. \A t \in from_local_datetime(z, n) : (t < A /\ t = n - B) \/ (t >= A /\ t = n - C)
  BY <1>2, <1>3
<1> QED BY <1>1, <1>3, <1>4, <1>5

LEMMA MinOfTwo ==
    ASSUME NEW p \in Int, NEW q \in Int, NEW S, S \subseteq {p, q}, S # {}
    PROVE  Min(S) \in S /\ \A y \in S : Min(S) <= y
<1>1. \E x \in S : \A y \in S : x <= y
  <2>1. CASE p \in S /\ (q \notin S \/ p <= q)
    BY <2>1
  <2>2. CASE q \in S /\ (p \notin S \/ q <= p)
    BY <2>2
  <2>3. p \in S \/ q \in S
    BY Zenon
  <2>4. p <= q \/ q <= p
    OBVIOUS
  <2> QED BY <2>1, <2>2, <2>3, <2>4, Zenon
<1> QED BY <1>1, Zenon DEF Min

LEMMA MinOfFour ==
    ASSUME NEW S, S \subseteq 1 .. 4, S # {}
    PROVE  Min(S) \in S /\ \A y \in S : Min(S) <= y
<1>1. \E x \in S : \A y \in S : x <= y
  <2>1. CASE 1 \in S
    BY <2>1
  <2>2. CASE 1 \notin S /\ 2 \in S
    BY <2>2
  <2>3. CASE 1 \notin S /\ 2 \notin S /\ 3 \in S
    BY <2>3
  <2>4. CASE 1 \notin S /\ 2 \notin S /\ 3 \notin S
    <3>1. S = {4}
      <4>1. \A x \in 1 .. 4 : x \in {1, 2, 3, 4}
        OBVIOUS
      <4> QED BY <2>4, <4>1, Zenon
    <3> QED BY <3>1
  <2> QED BY <2>1, <2>2, <2>3, <2>4
<1> QED BY <1>1, Zenon DEF Min

(* A wall-clock time that is shown is resolved to the instant it is first  *)
(* reached.                                                                *)
LEMMA ShownInstant ==
    ASSUME NEW z, IsZone(z), NEW n \in Int, from_local_datetime(z, n) # {}
    PROVE  /\ local_to_utc(z, n) \in Int
           /\ \A at \in Int : at >= local_to_utc(z, n) <=> Reached(z, n, at)
<1>1. PICK A \in Int, B \in Int, C \in Int : A = z.at /\ B = z.before /\ C = z.after
  BY ZoneTypes
<1>2. PICK S : S = from_local_datetime(z, n)
  OBVIOUS
<1>3. PICK H : H = Min(S)
  OBVIOUS
<1>4. local_to_utc(z, n) = H
  BY <1>2, <1>3, Zenon DEF local_to_utc
<1>5. S \subseteq {n - B, n - C}
  BY <1>1, <1>2, Shown
<1>6. H \in S /\ \A y \in S : H <= y
  <2>1. PICK p \in Int, q \in Int : p = n - B /\ q = n - C
    OBVIOUS
  <2> QED BY <1>2, <1>3, <1>5, <2>1, MinOfTwo
<1>7. H \in Int /\ Local(z, H) = n /\ ((H < A /\ H = n - B) \/ (H >= A /\ H = n - C))
  BY <1>1, <1>2, <1>6, Shown
<1>8. n - B < A => H <= n - B
  BY <1>1, <1>2, <1>6, Shown
<1>9. ASSUME NEW at \in Int, at >= H PROVE Reached(z, n, at)
  BY <1>7, <1>9, ReachedEver
<1>10. ASSUME NEW at \in Int, Reached(z, n, at) PROVE at >= H
  <2>1. PICK now \in Int : now = Local(z, at) /\ now = IF at < A THEN at + B ELSE at + C
    BY <1>1, ZoneTypes
  <2>2. n <= now \/ (B > C /\ A <= at /\ n <= A - 1 + B)
    BY <1>1, <1>10, <2>1, ReachedBy
  <2> QED BY <1>7, <1>8, <2>1, <2>2
<1> QED BY <1>4, <1>7, <1>9, <1>10

(* One that is left out is resolved to an instant at which it is past.     *)
LEMMA SkippedInstant ==
    ASSUME NEW z, IsZone(z), NEW n \in Int, from_local_datetime(z, n) = {}
    PROVE  /\ local_to_utc(z, n) \in Int
           /\ \A at \in Int : at >= local_to_utc(z, n) => Reached(z, n, at)
<1> Hour \in Nat /\ Hour > 0
  BY OnCallConstants
<1>1. PICK A \in Int, B \in Int, C \in Int : A = z.at /\ B = z.before /\ C = z.after
  BY ZoneTypes
<1>2. n - B >= A /\ n - C < A
  BY <1>1, Shown
<1>3. C - B <= 4 * Hour
  BY <1>1 DEF IsZone
<1>4. \A k \in 1 .. 4 : k * Hour \in Nat
  OBVIOUS
<1>5. ASSUME NEW k \in 1 .. 4
      PROVE  /\ from_local_datetime(z, n + k * Hour) # {} <=> n + k * Hour - C >= A
             /\ \A t \in from_local_datetime(z, n + k * Hour) : t = n + k * Hour - C
  <2>1. PICK m \in Int : m = n + k * Hour /\ m >= n
    BY <1>4
  <2>2. m - B >= A
    BY <1>2, <2>1
  <2>3. \A t \in from_local_datetime(z, m) : t >= A /\ t = m - C
    BY <1>1, <2>1, <2>2, Shown
  <2>4. m - C >= A => m - C \in from_local_datetime(z, m)
    BY <1>1, <2>1, Shown
  <2> QED BY <2>1, <2>3, <2>4
<1>6. PICK later : later = {k \in 1 .. 4 : from_local_datetime(z, n + k * Hour) # {}}
  OBVIOUS
<1>7. 4 \in later
  BY <1>2, <1>3, <1>5, <1>6
<1>8. PICK k : k = Min(later) /\ k \in later /\ \A j \in later : k <= j
  BY <1>6, <1>7, MinOfFour
<1>9. k \in 1 .. 4 /\ k * Hour \in Nat
  BY <1>6, <1>8
<1>10. PICK H \in Int : H = n + k * Hour - C
  BY <1>9
<1>11. H >= A
  BY <1>5, <1>6, <1>8, <1>9, <1>10
<1>13. local_to_utc(z, n) = H
  <2>1. PICK S : S = from_local_datetime(z, n + k * Hour)
    OBVIOUS
  <2>2. S # {} /\ \A t \in S : t = H
    BY <1>5, <1>6, <1>8, <1>9, <1>10, <2>1
  <2>3. S = {H}
    BY <2>2
  <2>4. Min(S) = H
    BY <2>3, MinOfTwo
  <2>5. later # {}
    BY <1>7
  <2>6. local_to_utc(z, n) = Min(from_local_datetime(z, n + Min(later) * Hour))
    BY <1>6, <2>5, Zenon DEF local_to_utc
  <2> QED BY <1>8, <2>1, <2>4, <2>6, Zenon
<1>14. ASSUME NEW at \in Int, at >= H PROVE Reached(z, n, at)
  <2>1. Local(z, H) = H + C
    BY <1>1, <1>11, ZoneTypes
  <2>2. Local(z, H) >= n
    BY <1>9, <1>10, <2>1
  <2> QED BY <1>14, <2>2, ReachedEver
<1> QED BY <1>13, <1>14

LEMMA DaysApart ==
    ASSUME NEW j \in Int, NEW k \in Int, NEW c \in Int
    PROVE  (j - k) * c = j * c - k * c
  OBVIOUS

(* Today's handoff, and the days counted.                                  *)
Today(a, z, at) == date_naive(Local(z, at)) * Day + time(a)
DaysPast(a, z, at) ==
    IF date_naive(Local(z, at)) < date_naive(a) THEN 0
    ELSE AtLeast(date_naive(Local(z, at)) - date_naive(a)
                     - (IF at < local_to_utc(z, Today(a, z, at)) THEN 1 ELSE 0), 0)

(* As many handoffs as days counted have been reached, and one more not,   *)
(* unless that is today's and its time is left out.                        *)
LEMMA DaysCounted ==
    ASSUME NEW z, IsZone(z), NEW a \in Int, NEW at \in Int
    PROVE  /\ DaysPast(a, z, at) \in Nat
           /\ DaysPast(a, z, at) = 0 \/ Reached(z, a + DaysPast(a, z, at) * Day, at)
           /\ ~Reached(z, a + (DaysPast(a, z, at) + 2) * Day, at)
           /\ from_local_datetime(z, Today(a, z, at)) # {} => ~Reached(z, a + (DaysPast(a, z, at) + 1) * Day, at)
<1>1. PICK nd, n, m : nd = date_naive(Local(z, at)) /\ n = Today(a, z, at) /\ m = DaysPast(a, z, at)
  OBVIOUS
<1>2. n = nd * Day + time(a)
  BY <1>1 DEF Today
<1>3. m = (IF nd < date_naive(a) THEN 0
           ELSE AtLeast(nd - date_naive(a) - (IF at < local_to_utc(z, n) THEN 1 ELSE 0), 0))
  BY <1>1, Zenon DEF DaysPast
<1>4. SUFFICES /\ m \in Nat
               /\ m = 0 \/ Reached(z, a + m * Day, at)
               /\ ~Reached(z, a + (m + 2) * Day, at)
               /\ from_local_datetime(z, n) # {} => ~Reached(z, a + (m + 1) * Day, at)
  BY <1>1, Zenon
<1> USE <1>1, <1>2, <1>3
<1> Day \in Nat /\ Day > 0 /\ Hour \in Nat /\ Hour > 0
  BY OnCallConstants
<1>5. PICK now \in Int : now = Local(z, at)
  BY ZoneTypes
<1>6. nd \in Int
  BY <1>5, DateAndTime
<1>7. PICK d0 \in Int, ta \in Int : d0 = date_naive(a) /\ ta = time(a) /\ a = d0 * Day + ta /\ 0 <= ta /\ ta < Day
  BY DateAndTime
<1>8. PICK X \in Int, Y \in Int : X = nd * Day /\ Y = d0 * Day
  BY <1>6, <1>7
<1>9. n \in Int /\ n = X + ta /\ a = Y + ta
  <2>1. n = X + ta
    BY <1>7, <1>8, Zenon
  <2>2. a = Y + ta
    BY <1>7, <1>8, Zenon
  <2> QED BY <1>7, <1>8, <2>1, <2>2
<1>10. X <= now /\ now < X + Day
  <2>1. PICK tn \in Int : now = X + tn /\ 0 <= tn /\ tn < Day
    BY <1>5, <1>8, DateAndTime, Zenon
  <2> QED BY <1>8, <2>1
<1>11. PICK H \in Int : H = local_to_utc(z, n)
  BY <1>9, ShownInstant, SkippedInstant
<1>12. at >= H => Reached(z, n, at)
  BY <1>9, <1>11, ShownInstant, SkippedInstant
<1>13. from_local_datetime(z, n) # {} /\ at < H => ~Reached(z, n, at)
  BY <1>9, <1>11, ShownInstant
<1>14. ASSUME NEW p \in Int, p >= X + Day PROVE ~Reached(z, p, at)
  <2>1. (nd + 1) * Day = X + Day
    BY <1>6, <1>8, OneMoreDay
  <2> QED BY <1>5, <1>14, <2>1, ReachedToday
<1>15. Reached(z, n - Day, at)
  BY <1>5, <1>7, <1>9, <1>10, ReachedBy
<1>16. (nd - d0) * Day = X - Y
  <2>1. (nd - d0) * Day = nd * Day - d0 * Day
    BY <1>6, DaysApart
  <2> QED BY <1>8, <2>1, Zenon
<1>17. m \in Nat => (m + 1) * Day = m * Day + Day /\ (m + 2) * Day = m * Day + Day + Day /\ m * Day \in Int
  <2> SUFFICES ASSUME m \in Nat PROVE (m + 2) * Day = (m + 1) * Day + Day
    BY OneMoreDay
  <2>1. PICK j \in Int : j = m + 1
    OBVIOUS
  <2>2. m + 2 = j + 1
    BY <2>1
  <2> QED BY <2>1, <2>2, OneMoreDay
<1>18. CASE nd < d0
  <2>1. m = 0
    BY <1>7, <1>18
  <2>2. X + Day <= Y
    <3>1. PICK j \in Int : j = nd + 1 /\ j <= d0
      BY <1>6, <1>7, <1>18
    <3>2. j * Day <= d0 * Day
      BY <1>7, <3>1, MoreDays
    <3>3. (nd + 1) * Day = X + Day
      BY <1>6, <1>8, OneMoreDay
    <3> QED BY <1>8, <3>1, <3>2, <3>3, Zenon
  <2>3. a + (m + 1) * Day >= X + Day /\ a + (m + 1) * Day \in Int
    BY <1>7, <1>9, <2>1, <2>2
  <2>4. a + (m + 2) * Day >= X + Day /\ a + (m + 2) * Day \in Int
    BY <1>17, <2>1, <2>3
  <2> QED BY <1>14, <2>1, <2>3, <2>4
<1>19. CASE nd >= d0 /\ at >= H
  <2>1. m = AtLeast(nd - d0 - 0, 0)
    <3>1. ~(at < H) /\ ~(nd < d0)
      BY <1>6, <1>7, <1>11, <1>19
    <3> QED BY <1>7, <1>11, <3>1, Zenon
  <2>2. m = nd - d0 /\ m \in Nat
    BY <1>6, <1>7, <1>19, <2>1 DEF AtLeast
  <2>3. m * Day = X - Y
    BY <1>16, <2>2, Zenon
  <2>4. (m + 1) * Day = X - Y + Day
    BY <2>2, <2>3, OneMoreDay
  <2>5. a + m * Day = n /\ a + (m + 1) * Day = n + Day
    <3>1. PICK p, q : p = m * Day /\ q = (m + 1) * Day /\ p = X - Y /\ q = X - Y + Day
      BY <2>3, <2>4, Zenon
    <3>2. a + p = n /\ a + q = n + Day
      BY <1>8, <1>9, <3>1
    <3> QED BY <3>1, <3>2, Zenon
  <2>6. n + Day >= X + Day /\ n + Day + Day >= X + Day
    BY <1>7, <1>9
  <2>7. a + (m + 2) * Day = n + Day + Day
    <3>1. (m + 2) * Day = X - Y + Day + Day
      BY <1>17, <2>2, <2>3, Zenon
    <3> QED BY <1>8, <1>9, <3>1
  <2> QED BY <1>9, <1>12, <1>14, <1>19, <2>2, <2>5, <2>6, <2>7
<1>20. CASE nd > d0 /\ at < H
  <2>1. m = AtLeast(nd - d0 - 1, 0)
    <3>1. ~(nd < d0)
      BY <1>6, <1>7, <1>20
    <3> QED BY <1>7, <1>11, <1>20, <3>1, Zenon
  <2>2. m = nd - d0 - 1 /\ m \in Nat
    BY <1>6, <1>7, <1>20, <2>1 DEF AtLeast
  <2>3. (m + 1) * Day = X - Y
    <3>1. m + 1 = nd - d0
      BY <1>6, <1>7, <2>2
    <3> QED BY <1>16, <3>1, Zenon
  <2>4. m * Day = X - Y - Day
    BY <2>2, <2>3, OneMoreDay
  <2>5. a + (m + 1) * Day = n /\ a + m * Day = n - Day
    BY <1>9, <2>3, <2>4
  <2>6. a + (m + 2) * Day = n + Day /\ n + Day >= X + Day
    BY <1>7, <1>9, <1>17, <2>2, <2>5
  <2> QED BY <1>9, <1>13, <1>14, <1>15, <1>20, <2>2, <2>5, <2>6
<1>21. CASE nd = d0 /\ at < H
  <2>1. m = AtLeast(nd - d0 - 1, 0)
    <3>1. ~(nd < d0)
      BY <1>6, <1>7, <1>21
    <3> QED BY <1>7, <1>11, <1>21, <3>1, Zenon
  <2>2. m = 0
    BY <1>6, <1>7, <1>21, <2>1 DEF AtLeast
  <2>3. n = a /\ a + (m + 1) * Day = n + Day /\ a + (m + 2) * Day = n + Day + Day
    BY <1>8, <1>9, <1>21, <1>17, <2>2
  <2>4. ~Reached(z, n + Day, at) /\ ~Reached(z, n + Day + Day, at)
    BY <1>7, <1>9, <1>14
  <2> QED BY <2>2, <2>3, <2>4
<1> QED BY <1>6, <1>7, <1>11, <1>18, <1>19, <1>20, <1>21

LEMMA Quotient ==
    ASSUME NEW x \in Nat, NEW l \in Nat, l > 0
    PROVE  LET q == x \div l
           IN  q \in Nat /\ q * l \in Nat /\ (q + 1) * l \in Nat /\ q * l <= x /\ x < (q + 1) * l
<1>1. x = (x \div l) * l + (x % l) /\ 0 <= (x % l) /\ (x % l) < l
  OBVIOUS
<1>2. PICK q \in Nat, y \in Nat : q = x \div l /\ y = x % l
  OBVIOUS
<1>3. PICK p \in Nat : p = q * l
  OBVIOUS
<1>4. (q + 1) * l = p + l
  BY <1>3, OneMoreDay
<1>5. x = p + y /\ y < l
  BY <1>1, <1>2, <1>3, Zenon
<1>6. p <= x /\ x < p + l /\ p + l \in Nat
  BY <1>5
<1> QED BY <1>2, <1>3, <1>4, <1>6, Zenon

LEMMA CustomOnTurn ==
    ASSUME NEW layer, layer.handoff_at \in Int, layer.length \in Int, layer.length > 0,
           layer.rotation_type = "custom", NEW z, NEW at \in Int, NEW r, r = rotation_index(layer, z, at)
    PROVE  r \in Nat /\ OnTurn(layer, z, at, r)
<1>1. PICK h \in Int, l \in Nat : h = layer.handoff_at /\ l = layer.length /\ l > 0
  OBVIOUS
<1>2. AtLeast(layer.length, 1) = l
  BY <1>1 DEF AtLeast
<1>3. r = IF at < h THEN 0 ELSE (at - h) \div l
  BY <1>1, <1>2, Zenon DEF rotation_index
<1>4. r \in Nat /\ (r = 0 \/ h + r * l <= at) /\ at < h + (r + 1) * l
  <2>1. CASE at < h
    <3>1. r = 0
      BY <1>3, <2>1
    <3> QED BY <1>1, <2>1, <3>1
  <2>2. CASE at >= h
    <3>1. PICK x \in Nat : x = at - h
      BY <2>2
    <3>2. r = x \div l
      BY <1>3, <2>2, <3>1
    <3>3. PICK lo \in Nat, hi \in Nat : lo = r * l /\ hi = (r + 1) * l /\ lo <= x /\ x < hi /\ r \in Nat
      BY <1>1, <3>2, Quotient
    <3>4. h + lo <= at /\ at < h + hi
      BY <3>1, <3>3
    <3> QED BY <3>3, <3>4
  <2> QED BY <2>1, <2>2
<1> QED BY <1>1, <1>4, Zenon DEF OnTurn

LEMMA DailyOnTurn ==
    ASSUME NEW layer, layer.handoff_at \in Int, layer.length \in Int, layer.length > 0,
           layer.rotation_type # "custom", NEW z, IsZone(z), NEW at \in Int,
           NEW r, r = rotation_index(layer, z, at)
    PROVE  r \in Nat /\ OnTurn(layer, z, at, r)
<1> Day \in Nat /\ Day > 0
  BY OnCallConstants
<1>1. PICK a \in Int : a = Anchor(layer, z)
  BY ZoneTypes DEF Anchor
<1>2. PICK L \in Nat : L = TurnDays(layer) /\ L > 0
  <2>1. PICK w \in Int : w = layer.length \div Day
    OBVIOUS
  <2>2. PICK v \in Nat : v = AtLeast(w, 1) /\ v > 0
    BY DEF AtLeast
  <2> QED BY <2>1, <2>2, Zenon DEF TurnDays
<1>3. PICK nd, n : nd = date_naive(Local(z, at)) /\ n = Today(a, z, at)
  OBVIOUS
<1>4. n = nd * Day + time(a)
  BY <1>3 DEF Today
<1>5. PICK shown, m : shown = from_local_datetime(z, n) /\ m = DaysPast(a, z, at)
  OBVIOUS
<1>6. m = (IF nd < date_naive(a) THEN 0
           ELSE AtLeast(nd - date_naive(a) - (IF at < local_to_utc(z, n) THEN 1 ELSE 0), 0))
  BY <1>3, <1>5, Zenon DEF DaysPast
<1>7. /\ m \in Nat
      /\ m = 0 \/ Reached(z, a + m * Day, at)
      /\ ~Reached(z, a + (m + 2) * Day, at)
      /\ shown # {} => ~Reached(z, a + (m + 1) * Day, at)
  BY <1>3, <1>5, DaysCounted
<1>8. TimeSkipped(layer, z, at) <=> shown = {}
  BY <1>1, <1>3, <1>4, <1>5, Zenon DEF TimeSkipped
<1>9. r = m \div L
  <2>1. 0 \div L = 0
    BY <1>2
  <2>2. CASE nd < date_naive(a)
    <3>1. m = 0
      BY <1>6, <2>2
    <3>2. r = 0
      BY <1>1, <1>3, <2>2, Zenon DEF rotation_index, Anchor
    <3> QED BY <2>1, <3>1, <3>2
  <2>3. CASE ~(nd < date_naive(a))
    <3>1. m = AtLeast(nd - date_naive(a) - (IF at < local_to_utc(z, n) THEN 1 ELSE 0), 0)
      BY <1>6, <2>3, Zenon
    <3> QED BY <1>1, <1>2, <1>3, <1>4, <2>3, <3>1, Zenon DEF rotation_index, Anchor, TurnDays
  <2> QED BY <2>2, <2>3
<1>10. PICK lo \in Nat, hi \in Nat : lo = r * L /\ hi = (r + 1) * L /\ lo <= m /\ m < hi /\ r \in Nat
  BY <1>2, <1>7, <1>9, Quotient
<1>11. r = 0 \/ Reached(z, a + r * L * Day, at)
  <2>1. CASE m = 0
    <3>1. r = 0
      BY <1>2, <1>9, <2>1
    <3> QED BY <3>1
  <2>2. CASE Reached(z, a + m * Day, at)
    <3>1. lo \in Int /\ m \in Int /\ lo <= m
      BY <1>7, <1>10
    <3>2. lo * Day \in Int /\ m * Day \in Int /\ lo * Day <= m * Day
      BY <3>1, MoreDays
    <3>3. PICK p \in Int, q \in Int : p = a + lo * Day /\ q = a + m * Day /\ p <= q
      BY <3>2
    <3>4. Reached(z, p, at)
      BY <2>2, <3>3, ReachedLess
    <3> QED BY <1>10, <3>3, <3>4, Zenon
  <2> QED BY <1>7, <2>1, <2>2
<1>12. ASSUME NEW i \in Nat, NEW k \in Nat, i <= k * L, ~Reached(z, a + i * Day, at)
       PROVE  ~Reached(z, a + k * L * Day, at)
  <2>1. PICK h \in Nat : h = k * L /\ i <= h
    BY <1>2, <1>12
  <2>2. i * Day \in Int /\ h * Day \in Int /\ i * Day <= h * Day
    BY <2>1, MoreDays
  <2>3. PICK p \in Int, q \in Int : p = a + i * Day /\ q = a + h * Day /\ p <= q
    BY <2>2
  <2>4. ~Reached(z, q, at)
    BY <1>12, <2>3, ReachedLess
  <2> QED BY <2>1, <2>3, <2>4, Zenon
<1>13. shown # {} => ~Overdue(layer, z, at, r)
  <2>1. m \in Nat
    BY <1>7, Zenon
  <2>2. m + 1 \in Nat /\ r + 1 \in Nat /\ m + 1 <= hi
    BY <1>10, <2>1
  <2>3. m + 1 <= (r + 1) * L
    BY <1>10, <2>2, Zenon
  <2>4. shown # {} => ~Reached(z, a + (r + 1) * L * Day, at)
    BY <1>7, <1>12, <2>2, <2>3, Zenon
  <2> QED BY <1>1, <1>2, <2>4, Zenon DEF Overdue
<1>14. ~Overdue(layer, z, at, r + 1)
  <2>1. (r + 2) * L = hi + L
    <3>1. PICK j \in Nat : j = r + 1 /\ r + 2 = j + 1
      BY <1>10
    <3> QED BY <1>2, <1>10, <3>1, OneMoreDay
  <2>2. m \in Nat
    BY <1>7, Zenon
  <2>3. m + 2 \in Nat /\ r + 2 \in Nat /\ m + 2 <= hi + L
    BY <1>2, <1>10, <2>2
  <2>4. m + 2 <= (r + 2) * L
    BY <2>1, <2>3, Zenon
  <2>5. ~Reached(z, a + (r + 2) * L * Day, at)
    BY <1>7, <1>12, <2>3, <2>4, Zenon
  <2>6. (r + 1) + 1 = r + 2
    BY <1>10
  <2> QED BY <1>1, <1>2, <2>5, <2>6, Zenon DEF Overdue
<1> QED BY <1>1, <1>2, <1>8, <1>10, <1>11, <1>13, <1>14, Zenon DEF OnTurn

(* Whoever covers the instant is on call, and so is somebody of a schedule *)
(* the API accepted.                                                       *)
LEMMA SomebodyOnCall ==
    ASSUME NEW rota, NEW swaps, NEW at
    PROVE  /\ \A o \in swaps : o.starts_at <= at /\ at < o.ends_at => o.user \in resolve_on_call(rota, swaps, at)
           /\ (\E k \in DOMAIN rota.layers : rota.layers[k].participants # <<>>)
                  => resolve_on_call(rota, swaps, at) # {}
<1>1. CASE Covering(swaps, at) # {}
  <2>1. resolve_on_call(rota, swaps, at) = {o.user : o \in Covering(swaps, at)}
    BY <1>1, Zenon DEF resolve_on_call
  <2>2. \A o \in Covering(swaps, at) : o.user \in resolve_on_call(rota, swaps, at)
    BY <2>1, Zenon
  <2>3. resolve_on_call(rota, swaps, at) # {}
    BY <1>1, <2>2, Zenon
  <2> QED BY <2>2, <2>3, Zenon DEF Covering
<1>2. CASE Covering(swaps, at) = {}
  <2>1. \A o \in swaps : ~(o.starts_at <= at /\ at < o.ends_at)
    BY <1>2, Zenon DEF Covering
  <2>2. ASSUME \E k \in DOMAIN rota.layers : rota.layers[k].participants # <<>>
        PROVE  resolve_on_call(rota, swaps, at) # {}
    <3> DEFINE staffed == {k \in DOMAIN rota.layers : rota.layers[k].participants # <<>>}
               ranked == {k \in staffed : \A j \in staffed : rota.layers[j].order <= rota.layers[k].order}
    <3>1. staffed # {}
      BY <2>2, Zenon
    <3>2. resolve_on_call(rota, swaps, at) = {layer_on_call(rota.layers[Min(ranked)], rota.zone, at)}
      BY <1>2, <3>1, Zenon DEF resolve_on_call
    <3> HIDE DEF ranked
    <3> QED BY <3>2, Zenon
  <2> QED BY <2>1, <2>2, Zenon
<1> QED BY <1>1, <1>2, Zenon

(* A schedule is one the API accepted.                                     *)
OnCallInv ==
    /\ clock \in Int
    /\ \/ schedule = NoSchedule
       \/ \E layers \in Plans, zone \in Zones :
             validate_new_schedule(layers) /\ schedule = [layers |-> layers, zone |-> zone]

LEMMA OnCallOnTime == OnCallInv => HandoffsOnTime
<1> SUFFICES ASSUME OnCallInv PROVE HandoffsOnTime
  OBVIOUS
<1>1. PICK layers, zone : layers = schedule.layers /\ zone = schedule.zone
  OBVIOUS
<1>2. \/ layers = <<>>
      \/ layers \in Plans /\ zone \in Zones /\ validate_new_schedule(layers)
  BY <1>1 DEF OnCallInv, NoSchedule
<1>3. ASSUME NEW k \in DOMAIN layers, NEW r, r = rotation_index(layers[k], zone, clock)
      PROVE  r \in Nat /\ OnTurn(layers[k], zone, clock, r)
  <2>1. layers \in Plans /\ zone \in Zones /\ validate_new_schedule(layers)
    BY <1>2, <1>3
  <2>2. PICK layer : layer = layers[k]
    OBVIOUS
  <2>3. layer.handoff_at \in Int /\ layer.length \in Int /\ layer.length > 0
    BY <2>1, <2>2, OnCallConstants DEF IsPlan, validate_new_schedule
  <2>4. IsZone(zone)
    BY <2>1, OnCallConstants
  <2>5. clock \in Int
    BY DEF OnCallInv
  <2>6. CASE layer.rotation_type = "custom"
    BY <1>3, <2>2, <2>3, <2>5, <2>6, CustomOnTurn, Zenon
  <2>7. CASE layer.rotation_type # "custom"
    BY <1>3, <2>2, <2>3, <2>4, <2>5, <2>7, DailyOnTurn, Zenon
  <2> QED BY <2>6, <2>7
<1>4. ASSUME layers # <<>> PROVE \E k \in DOMAIN layers : layers[k].participants # <<>>
  <2>1. layers \in Seq(Range(layers)) /\ validate_new_schedule(layers)
    BY <1>2, <1>4, OnCallConstants DEF IsPlan
  <2>2. 1 \in DOMAIN layers
    BY <1>4, <2>1
  <2> QED BY <2>1, <2>2 DEF validate_new_schedule
<1>5. /\ \A o \in overrides :
            o.starts_at <= clock /\ clock < o.ends_at => o.user \in resolve_on_call(schedule, overrides, clock)
      /\ layers # <<>> => resolve_on_call(schedule, overrides, clock) # {}
  BY <1>1, <1>4, SomebodyOnCall, Zenon
<1> QED BY <1>1, <1>3, <1>5, Zenon DEF HandoffsOnTime

(* Whatever is scheduled in whatever zone, a handoff takes place at the    *)
(* anchor's wall-clock time, once (HandoffsOnTime).                        *)
THEOREM HandoffsAlwaysOnTime == OnCallSpec => []HandoffsOnTime
<1>1. OnCallInit => OnCallInv
  BY OnCallConstants DEF OnCallInit, OnCallInv
<1>2. OnCallInv /\ [OnCallNext]_onCallVars => OnCallInv'
  <2> SUFFICES ASSUME OnCallInv, [OnCallNext]_onCallVars PROVE OnCallInv'
    OBVIOUS
  <2>1. CASE upsert_on_call_schedule
    <3>1. clock' = clock
      BY <2>1 DEF upsert_on_call_schedule
    <3>2. \E layers \in Plans, zone \in Zones :
             validate_new_schedule(layers) /\ schedule' = [layers |-> layers, zone |-> zone]
      BY <2>1, Zenon DEF upsert_on_call_schedule
    <3> QED BY <3>1, <3>2, Zenon DEF OnCallInv
  <2>2. CASE delete_on_call_schedule
    BY <2>2, Zenon DEF delete_on_call_schedule, OnCallInv
  <2>3. CASE ClockMoves
    <3>1. clock' \in Int /\ schedule' = schedule
      BY <2>3 DEF ClockMoves, OnCallInv
    <3> QED BY <3>1, Zenon DEF OnCallInv
  <2>4. ASSUME NEW o \in Swaps, create_override(o) \/ delete_override(o) PROVE OnCallInv'
    BY <2>4, Zenon DEF create_override, delete_override, OnCallInv
  <2>5. CASE UNCHANGED onCallVars
    BY <2>5, Zenon DEF onCallVars, OnCallInv
  <2> QED BY <2>1, <2>2, <2>3, <2>4, <2>5 DEF OnCallNext, OnCallSteps
<1> QED BY <1>1, <1>2, OnCallOnTime, PTL DEF OnCallSpec
----------------------------------------------------------------------------
(* The scheduler.                                                          *)

Ages == {NoPing} \cup 0 .. Deadline + 1
Verdicts == {"up", "down", "error"}

\* An id the console has not handed out is in no snapshot and in no PATCH.
SnapshotInv ==
    /\ table \in [Targets -> TargetRows \cup {Unborn, Deleted}]
    /\ known \in [Targets -> TargetRows \cup {Unborn}]
    /\ \A t \in Targets : Known(t) => table[t].state # "unborn"
DraftInv == \/ draft = NoDraft
            \/ /\ draft.target \in Targets /\ draft.row \in TargetRows
               /\ table[draft.target].state # "unborn"

TimerInv ==
    /\ next_due \in [Targets -> {0, 1}]
    /\ age \in [Targets -> Ages]
    /\ phase \in 0 .. RefreshEvery - 1
    /\ sweeps \in 0 .. MaxBehind /\ refreshes \in 0 .. MaxBehind
    /\ quiet \in [Targets -> 0 .. Interval]

Probing == {"probe", "judge", "record"}

\* A sweep visits rows of the snapshot and probes those that are enabled in
\* it; the snapshot does not change under it.  The ping a judgement rests on
\* is no younger than the last one, since both grow old together and only a
\* new ping makes the last one younger.
SweepInv ==
    /\ sched \in [pc : {"idle", "next"} \cup Probing, queue : SUBSET Targets,
                  target : Targets \cup {NoTarget}, seen : Ages, verdict : Verdicts]
    /\ sched.pc = "idle" => sched.queue = {}
    /\ \A t \in sched.queue : Known(t)
    /\ sched.pc \in Probing <=> sched.target # NoTarget
    /\ sched.target # NoTarget => Known(sched.target) /\ known[sched.target].enabled
    /\ sched.pc = "judge" /\ sched.seen # NoPing =>
          age[sched.target] # NoPing /\ age[sched.target] <= sched.seen

SchedulerInv ==
    /\ SnapshotInv /\ DraftInv /\ TimerInv /\ SweepInv
    /\ latest \in [Targets -> Verdicts \cup {"none"}]
    /\ pings \subseteq Targets /\ hasty \subseteq Targets
    /\ edits \in 0 .. MaxEdits /\ failures \in 0 .. MaxFailures

\* A target that is deleted and that neither the snapshot nor the sweep holds.
Forgotten(t) == /\ table[t].state = "deleted" /\ ~Known(t)
                /\ t \notin sched.queue /\ sched.target # t

(* A deleted target that the scheduler has evicted is never probed again,  *)
(* and no PATCH that read its row before the deletion brings it back       *)
(* (update_target finds no row; refresh_targets).                          *)
DeletedStayForgotten == [][\A t \in Targets : Forgotten(t) => Forgotten(t)']_schedulerVars

\* A target that is not to be probed, in the table and in the snapshot, and
\* that no handler is about to write.
Off(t) == /\ ~Wanted(t)
          /\ ~(Known(t) /\ known[t].enabled)
          /\ ~Probed(t) /\ draft.target # t

(* A target that is disabled or gone, and was so at the last refresh, is   *)
(* not probed until the console writes it, though it stays in the due      *)
(* table and in the queue of every sweep (probe_due_targets).              *)
OffAreLeftAlone ==
    [][\A t \in Targets :
          Off(t) /\ table'[t] = table[t] /\ draft'.target # t => Off(t)']_schedulerVars

(* A heartbeat target whose last ping is past the deadline is not judged   *)
(* up, whatever pings, ticks and writes came between the read of the last  *)
(* ping and the judgement, unless it had not pinged when it was read       *)
(* (probe_heartbeat).                                                      *)
JudgedUp == sched.pc = "judge" /\ sched'.pc = "record" /\ sched'.verdict = "up"
StaleAreNotUp ==
    [][JudgedUp /\ sched.seen # NoPing => age[sched.target] \in 0 .. Deadline]_schedulerVars

(* The verdicts of the two scheduled kinds. *)
LEMMA ScheduledVerdicts ==
    /\ \A net \in TcpNets : probe_tcp(net).status \in Verdicts
    /\ \A seen : HeartbeatVerdict(Deadline, seen).status \in Verdicts
    /\ Report("error", "last ping").status \in Verdicts
  BY DEF probe_tcp, Guarded, HeartbeatVerdict, Report, Up, Verdicts

(* What the actions of a sweep leave alone keeps the rest of the invariant.*)
LEMMA RestKept ==
    ASSUME SchedulerInv, UNCHANGED <<known, timers, next_due, console>>
    PROVE  /\ SnapshotInv' /\ DraftInv'
           /\ age' \in [Targets -> Ages] /\ quiet' \in [Targets -> 0 .. Interval] => TimerInv'
           /\ edits' \in 0 .. MaxEdits
  BY DEF SchedulerInv, SnapshotInv, DraftInv, TimerInv, timers, console, Known

LEMMA RefreshKeeps ==
    ASSUME SchedulerInv, refresh_targets
    PROVE  SchedulerInv'
<1>1. UNCHANGED <<age, latest, phase, sweeps, sched, table, draft, edits, pings, quiet, hasty>>
  BY DEF refresh_targets, console
<1>2. SnapshotInv' /\ next_due' \in [Targets -> {0, 1}]
  <2>1. CASE UNCHANGED <<known, next_due>>
    BY <1>1, <2>1 DEF SchedulerInv, SnapshotInv, TimerInv, Known
  <2>2. CASE ~UNCHANGED <<known, next_due>>
    <3>1. known' = [t \in Targets |-> IF Live(t) THEN table[t] ELSE Unborn]
      BY <2>2 DEF refresh_targets
    <3>2. \A t \in Targets : Live(t) => table[t] \in TargetRows
      BY DEF SchedulerInv, SnapshotInv, Live, Unborn, Deleted
    <3>3. SnapshotInv'
      BY <1>1, <3>1, <3>2 DEF SchedulerInv, SnapshotInv, Known, Live, Unborn
    <3>4. next_due' \in [Targets -> {0, 1}]
      BY <2>2 DEF refresh_targets, SchedulerInv, TimerInv
    <3> QED BY <3>3, <3>4
  <2> QED BY <2>1, <2>2
<1>3. refreshes' \in 0 .. MaxBehind /\ failures' \in 0 .. MaxFailures
  BY SchedulerConstants DEF refresh_targets, Fail, SchedulerInv, TimerInv
<1>4. sched.pc = "idle"
  BY DEF refresh_targets
<1>5. SweepInv'
  BY <1>1, <1>4 DEF SchedulerInv, SweepInv, Probing
<1> QED BY <1>1, <1>2, <1>3, <1>5 DEF SchedulerInv, DraftInv, TimerInv

LEMMA SweepKeeps ==
    ASSUME SchedulerInv, StartSweep
    PROVE  SchedulerInv'
<1>1. UNCHANGED <<known, next_due, age, latest, phase, refreshes, table, draft, edits, pings, quiet, hasty>>
  BY DEF StartSweep, console
<1>2. sched.pc = "idle" /\ sched.queue = {}
  BY DEF StartSweep, SchedulerInv, SweepInv
<1>3. sched' \in {sched, [Idle EXCEPT !.pc = "next", !.queue = Due]}
  BY DEF StartSweep
<1>4. SweepInv'
  <2>1. CASE sched' = sched
    BY <1>1, <1>2, <2>1 DEF SchedulerInv, SweepInv, Probing
  <2>2. CASE sched' = [Idle EXCEPT !.pc = "next", !.queue = Due]
    BY <1>1, <2>2 DEF SweepInv, Probing, Idle, Due, Ages, Verdicts, Known
  <2> QED BY <1>3, <2>1, <2>2
<1>5. sweeps' \in 0 .. MaxBehind /\ failures' \in 0 .. MaxFailures
  BY SchedulerConstants DEF StartSweep, Fail, SchedulerInv, TimerInv
<1> QED BY <1>1, <1>4, <1>5 DEF SchedulerInv, SnapshotInv, DraftInv, TimerInv, Known

LEMMA StepKeepsSweep ==
    ASSUME SchedulerInv, SchedulerStep
    PROVE  SchedulerInv'
<1>1. CASE EndSweep
  <2>1. UNCHANGED <<known, next_due, age, latest, timers, console, pings, failures, quiet, hasty>> /\ sched' = Idle
    BY <1>1 DEF EndSweep
  <2>2. SweepInv'
    BY <2>1 DEF SweepInv, Probing, Idle, Ages, Verdicts
  <2> QED BY <2>1, <2>2, RestKept DEF SchedulerInv, TimerInv
<1>2. ASSUME NEW t \in Targets, StartProbe(t) PROVE SchedulerInv'
  <2>1. UNCHANGED <<known, next_due, age, latest, timers, console, pings, failures>>
    BY <1>2 DEF StartProbe
  <2>2. quiet' \in [Targets -> 0 .. Interval] /\ hasty' \subseteq Targets
    BY <1>2, SchedulerConstants DEF StartProbe, SchedulerInv, TimerInv
  <2>3. SweepInv'
    BY <1>2, <2>1, SchedulerConstants DEF StartProbe, SchedulerInv, SweepInv, Probing, Known
  <2> QED BY <2>1, <2>2, <2>3, RestKept DEF SchedulerInv, TimerInv
<1>3. ASSUME sched.pc \in {"probe", "judge"},
             UNCHANGED <<known, next_due, age, latest, timers, console, pings, quiet, hasty>>,
             failures' \in 0 .. MaxFailures,
             \E verdict : verdict.status \in Verdicts /\ Judged(verdict)
      PROVE  SchedulerInv'
  <2>1. SweepInv'
    BY <1>3 DEF Judged, SchedulerInv, SweepInv, Probing, Known, Ages
  <2> QED BY <1>3, <2>1, RestKept DEF SchedulerInv, TimerInv
<1>4. CASE ProbeNetwork
  <2>1. failures' \in 0 .. MaxFailures BY <1>4 DEF ProbeNetwork, SchedulerInv
  <2> QED BY <1>3, <1>4, <2>1, ScheduledVerdicts DEF ProbeNetwork
<1>5. CASE ReadPing
  <2>1. UNCHANGED <<known, next_due, age, latest, timers, console, pings, quiet, hasty>>
    BY <1>5 DEF ReadPing
  <2>2. CASE Fail /\ Judged(Report("error", "last ping"))
    <3>1. Fail BY <2>2
    <3>2. failures' \in 0 .. MaxFailures
      BY <3>1, SchedulerConstants DEF Fail, SchedulerInv
    <3>3. \E verdict : verdict.status \in Verdicts /\ Judged(verdict)
      BY <2>2, ScheduledVerdicts, Zenon
    <3> QED BY <1>3, <1>5, <2>1, <3>2, <3>3 DEF ReadPing
  <2>3. CASE sched' = [sched EXCEPT !.pc = "judge", !.seen = age[sched.target]] /\ UNCHANGED failures
    <3>1. sched.target \in Targets
      BY <1>5 DEF ReadPing, SchedulerInv, SweepInv, Probing
    <3>2. age[sched.target] \in Ages
      BY <3>1 DEF SchedulerInv, TimerInv
    <3>3. age[sched.target] # NoPing => age[sched.target] \in 0 .. Deadline + 1
      BY <3>2 DEF Ages
    <3>4. sched' \in [pc : {"idle", "next"} \cup Probing, queue : SUBSET Targets,
                      target : Targets \cup {NoTarget}, seen : Ages, verdict : Verdicts]
      BY <2>3, <3>2 DEF SchedulerInv, SweepInv, Probing
    <3>5. /\ sched'.pc = "judge" /\ sched'.queue = sched.queue /\ sched'.target = sched.target
          /\ sched'.seen = age[sched.target] /\ UNCHANGED <<age, known>>
      BY <2>1, <2>3 DEF SchedulerInv, SweepInv
    <3>6. sched'.seen # NoPing => age'[sched'.target] # NoPing /\ age'[sched'.target] <= sched'.seen
      <4>1. age[sched.target] # NoPing => age[sched.target] <= age[sched.target]
        BY <3>3, SchedulerConstants
      <4> QED BY <3>5, <4>1
    <3>7. SweepInv'
      BY <1>5, <3>4, <3>5, <3>6 DEF ReadPing, SchedulerInv, SweepInv, Probing, Known
    <3> QED BY <2>1, <2>3, <3>7, RestKept DEF SchedulerInv, TimerInv
  <2> QED BY <1>5, <2>2, <2>3 DEF ReadPing
<1>6. CASE probe_heartbeat
  <2>1. failures' \in 0 .. MaxFailures BY <1>6 DEF probe_heartbeat, SchedulerInv
  <2> QED BY <1>3, <1>6, <2>1, ScheduledVerdicts DEF probe_heartbeat
<1>7. CASE RecordResult
  <2>1. UNCHANGED <<known, next_due, age, timers, console, pings, quiet, hasty>>
    BY <1>7 DEF RecordResult
  <2>2. latest' \in [Targets -> Verdicts \cup {"none"}] /\ failures' \in 0 .. MaxFailures
    BY <1>7, SchedulerConstants DEF RecordResult, Fail, SchedulerInv, SweepInv
  <2>3. SweepInv'
    BY <1>7, <2>1 DEF RecordResult, SchedulerInv, SweepInv, Probing, Known, Verdicts
  <2> QED BY <2>1, <2>2, <2>3, RestKept DEF SchedulerInv, TimerInv
<1> QED BY <1>1, <1>2, <1>4, <1>5, <1>6, <1>7 DEF SchedulerStep

(* The console and the ping handlers write rows and pings only. *)
LEMMA ConsoleKeeps ==
    ASSUME SchedulerInv, Rest, ConsoleEdit \/ UNCHANGED edits,
           table' \in [Targets -> TargetRows \cup {Unborn, Deleted}],
           \A t \in Targets : table[t].state # "unborn" => table'[t].state # "unborn",
           DraftInv'
    PROVE  SchedulerInv'
<1>1. edits' \in 0 .. MaxEdits
  BY SchedulerConstants DEF ConsoleEdit, SchedulerInv
<1>2. SnapshotInv'
  BY DEF Rest, SchedulerInv, SnapshotInv, Known
<1>3. TimerInv' /\ SweepInv'
  BY DEF Rest, timers, SchedulerInv, TimerInv, SweepInv, Known
<1> QED BY <1>1, <1>2, <1>3 DEF SchedulerInv, Rest

LEMMA RowStates ==
    ASSUME SchedulerInv, NEW t \in Targets
    PROVE  /\ table[t].state \in {"live", "unborn", "deleted"}
           /\ Live(t) => table[t] \in TargetRows
           /\ table[t].state = "unborn" => table[t] = Unborn
           /\ table[t].state = "deleted" => table[t] = Deleted
  BY DEF SchedulerInv, SnapshotInv, TargetRows, Live, Unborn, Deleted

LEMMA HandlersKeep ==
    ASSUME SchedulerInv, NEW t \in Targets,
           create_target(t) \/ delete_target(t) \/ ReadTarget(t) \/ update_target
    PROVE  SchedulerInv'
<1>1. /\ DOMAIN table = Targets
      /\ table \in [Targets -> TargetRows \cup {Unborn, Deleted}] /\ DraftInv
  BY DEF SchedulerInv, SnapshotInv
<1>2. \A row \in TargetRows : row.state = "live"
  BY DEF TargetRows
<1>3. Unborn.state = "unborn" /\ Deleted.state = "deleted"
  BY DEF Unborn, Deleted
<1>4. CASE create_target(t)
  <2>1. PICK row \in TargetRows : table' = [table EXCEPT ![t] = row]
    BY <1>4 DEF create_target
  <2>2. DraftInv'
    BY <1>1, <1>2, <1>4, <2>1 DEF create_target, DraftInv
  <2> QED BY <1>1, <1>2, <1>4, <2>1, <2>2, ConsoleKeeps DEF create_target
<1>5. CASE delete_target(t)
  <2>1. DraftInv'
    BY <1>1, <1>3, <1>5 DEF delete_target, DraftInv
  <2> QED BY <1>1, <1>3, <1>5, <2>1, ConsoleKeeps DEF delete_target
<1>6. CASE ReadTarget(t)
  <2>1. table[t] \in TargetRows /\ table[t].state = "live"
    BY <1>6, RowStates DEF ReadTarget, Live
  <2>2. \A kind \in ScheduledKinds \cup {"keep"}, enabled \in {"keep", "on", "off"} :
           apply_to(table[t], kind, enabled) \in TargetRows
    BY <2>1 DEF apply_to, TargetRows, ScheduledKinds
  <2>3. DraftInv'
    BY <1>6, <2>1, <2>2 DEF ReadTarget, DraftInv
  <2> QED BY <1>1, <1>6, <2>3, ConsoleKeeps DEF ReadTarget
<1>7. CASE update_target
  <2>1. draft.target \in Targets /\ draft.row \in TargetRows
    BY <1>1, <1>7 DEF update_target, DraftInv
  <2>2. DraftInv'
    BY <1>7 DEF update_target, DraftInv
  <2> QED BY <1>1, <1>2, <1>7, <2>1, <2>2, ConsoleKeeps DEF update_target
<1> QED BY <1>4, <1>5, <1>6, <1>7

LEMMA PingsKeep ==
    ASSUME SchedulerInv, NEW t \in Targets, AcceptPing(t) \/ record_heartbeat_ping(t)
    PROVE  SchedulerInv'
<1>1. /\ UNCHANGED <<known, next_due, latest, timers, sched, console, failures, quiet, hasty>>
      /\ pings' \subseteq Targets
  BY DEF AcceptPing, record_heartbeat_ping, SchedulerInv
<1>2. age' = age \/ age' = [age EXCEPT ![t] = 0]
  BY DEF AcceptPing, record_heartbeat_ping
<1>3. age' \in [Targets -> Ages]
  BY <1>2, SchedulerConstants DEF SchedulerInv, TimerInv, Ages
<1>4. \A s \in Targets : age'[s] = age[s] \/ age'[s] = 0
  BY <1>2 DEF SchedulerInv, TimerInv
<1>5. sched.seen # NoPing => sched.seen \in 0 .. Deadline + 1
  BY DEF SchedulerInv, SweepInv, Ages
<1>6. SweepInv'
  BY <1>1, <1>4, <1>5, SchedulerConstants DEF SchedulerInv, SweepInv, Known, NoPing, Probing
<1> QED BY <1>1, <1>3, <1>6, RestKept DEF SchedulerInv, TimerInv

LEMMA TicksKeep ==
    ASSUME SchedulerInv, TimePasses
    PROVE  SchedulerInv'
<1>1. \A n \in Ages : Older(n) \in Ages /\ (Older(n) = NoPing <=> n = NoPing)
  BY SchedulerConstants DEF Older, AtMost, Ages, NoPing
<1>2. \A n, m \in Ages : n # NoPing /\ m # NoPing /\ n <= m => Older(n) <= Older(m)
  BY SchedulerConstants DEF Older, AtMost, Ages, NoPing
<1>3. phase' \in 0 .. RefreshEvery - 1
  BY SchedulerConstants DEF TimePasses, SchedulerInv, TimerInv
<1>4. sweeps' \in 0 .. MaxBehind /\ refreshes' \in 0 .. MaxBehind
  BY SchedulerConstants DEF TimePasses, SchedulerInv, TimerInv, AtMost
<1>5. quiet' \in [Targets -> 0 .. Interval]
  BY SchedulerConstants DEF TimePasses, SchedulerInv, TimerInv, AtMost
<1>6. next_due' \in [Targets -> {0, 1}] /\ age' \in [Targets -> Ages]
  BY <1>1 DEF TimePasses, SchedulerInv, TimerInv
<1>7. SweepInv'
  <2>1. /\ UNCHANGED known /\ sched' = [sched EXCEPT !.seen = Older(@)]
        /\ age' = [t \in Targets |-> Older(age[t])]
    BY DEF TimePasses
  <2>2. /\ sched \in [pc : {"idle", "next"} \cup Probing, queue : SUBSET Targets,
                      target : Targets \cup {NoTarget}, seen : Ages, verdict : Verdicts]
        /\ sched.pc = "judge" => sched.target \in Targets
    BY DEF SchedulerInv, SweepInv, Probing
  <2>3. sched' \in [pc : {"idle", "next"} \cup Probing, queue : SUBSET Targets,
                    target : Targets \cup {NoTarget}, seen : Ages, verdict : Verdicts]
    BY <1>1, <2>1, <2>2
  <2>4. /\ sched'.pc = sched.pc /\ sched'.queue = sched.queue /\ sched'.target = sched.target
        /\ sched'.seen = Older(sched.seen)
    BY <2>1, <2>2
  <2>5. sched'.pc = "judge" /\ sched'.seen # NoPing =>
           age'[sched'.target] # NoPing /\ age'[sched'.target] <= sched'.seen
    <3> SUFFICES ASSUME sched.pc = "judge", Older(sched.seen) # NoPing
                 PROVE  age'[sched.target] # NoPing /\ age'[sched.target] <= Older(sched.seen)
      BY <2>4
    <3>1. sched.seen \in Ages /\ sched.seen # NoPing
      BY <1>1, <2>2
    <3>2. age[sched.target] \in Ages /\ age'[sched.target] = Older(age[sched.target])
      BY <2>1, <2>2 DEF SchedulerInv, TimerInv
    <3>3. age[sched.target] # NoPing /\ age[sched.target] <= sched.seen
      BY <3>1 DEF SchedulerInv, SweepInv
    <3> QED BY <1>1, <1>2, <3>1, <3>2, <3>3
  <2> QED BY <2>1, <2>3, <2>4, <2>5 DEF SchedulerInv, SweepInv, Known
<1> QED BY <1>3, <1>4, <1>5, <1>6, <1>7
       DEF TimePasses, console, SchedulerInv, SnapshotInv, DraftInv, TimerInv, Known

(* The shape of the scheduler's snapshot, timers and sweep, for any        *)
(* targets and intervals, storage errors included.                         *)
THEOREM SweepsStayInShape == SchedulerSpec => []SchedulerInv
<1>1. SchedulerInit => SchedulerInv
  BY SchedulerConstants DEF SchedulerInit, SchedulerInv, SnapshotInv, DraftInv, TimerInv, SweepInv, Idle, NoDraft,
     Ages, Verdicts, Probing, Known, Unborn
<1>2. SchedulerInv /\ [SchedulerNext]_schedulerVars => SchedulerInv'
  <2> SUFFICES ASSUME SchedulerInv, [SchedulerNext]_schedulerVars PROVE SchedulerInv'
    OBVIOUS
  <2>1. CASE update_target
    <3>1. draft.target \in Targets
      BY <2>1 DEF update_target, SchedulerInv, DraftInv
    <3> QED BY <2>1, <3>1, HandlersKeep
  <2>2. CASE UNCHANGED schedulerVars
    BY <2>2 DEF schedulerVars, SchedulerInv, SnapshotInv, DraftInv, TimerInv, SweepInv, Known
  <2> QED BY <2>1, <2>2, RefreshKeeps, SweepKeeps, StepKeepsSweep, HandlersKeep, PingsKeep, TicksKeep
         DEF SchedulerNext
<1> QED BY <1>1, <1>2, PTL DEF SchedulerSpec

(* Only a refresh changes the snapshot, and it reads the table. *)
LEMMA KnownRows ==
    ASSUME [SchedulerNext]_schedulerVars
    PROVE  known' = known \/ known' = [t \in Targets |-> IF Live(t) THEN table[t] ELSE Unborn]
<1>1. CASE refresh_targets BY <1>1 DEF refresh_targets
<1>2. CASE StartSweep BY <1>2 DEF StartSweep
<1>3. CASE SchedulerStep
  BY <1>3 DEF SchedulerStep, EndSweep, StartProbe, ProbeNetwork, ReadPing, probe_heartbeat, RecordResult
<1>4. CASE TimePasses BY <1>4 DEF TimePasses
<1>5. CASE UNCHANGED schedulerVars BY <1>5 DEF schedulerVars
<1>6. ASSUME NEW t \in Targets, AcceptPing(t) \/ record_heartbeat_ping(t) PROVE known' = known
  BY <1>6 DEF AcceptPing, record_heartbeat_ping
<1>7. ASSUME NEW t \in Targets, create_target(t) \/ delete_target(t) \/ ReadTarget(t)
      PROVE  known' = known
  BY <1>7 DEF create_target, delete_target, ReadTarget, Rest
<1>8. update_target => known' = known BY DEF update_target, Rest
<1> QED BY <1>1, <1>2, <1>3, <1>4, <1>5, <1>6, <1>7, <1>8 DEF SchedulerNext

(* A step of the sweep begins with rows of the snapshot only, and probes   *)
(* those that are enabled in it.                                           *)
LEMMA SweepsVisit ==
    ASSUME SchedulerInv, [SchedulerNext]_schedulerVars, NEW t \in Targets, sched.target # t
    PROVE  /\ t \in sched'.queue => t \in sched.queue \/ Known(t)
           /\ sched'.target = t => t \in sched.queue /\ known[t].enabled
<1>1. t # NoTarget /\ DOMAIN sched = {"pc", "queue", "target", "seen", "verdict"}
  BY SchedulerConstants DEF SchedulerInv, SweepInv
<1>2. CASE StartSweep
  BY <1>1, <1>2 DEF StartSweep, Idle, Due
<1>3. CASE EndSweep
  BY <1>1, <1>3 DEF EndSweep, Idle
<1>4. ASSUME NEW s \in Targets, StartProbe(s)
      PROVE  /\ t \in sched'.queue => t \in sched.queue
             /\ sched'.target = t => t \in sched.queue /\ known[t].enabled
  BY <1>1, <1>4 DEF StartProbe
<1>5. ASSUME sched'.queue = sched.queue, sched'.target \in {sched.target, NoTarget}
      PROVE  ~(sched'.target = t) /\ (t \in sched'.queue => t \in sched.queue)
  BY <1>1, <1>5
<1>6. CASE ProbeNetwork \/ probe_heartbeat \/ ReadPing \/ RecordResult \/ TimePasses
  BY <1>1, <1>5, <1>6 DEF ProbeNetwork, probe_heartbeat, ReadPing, RecordResult, TimePasses, Judged
<1>7. CASE sched' = sched BY <1>5, <1>7
<1>8. ASSUME NEW s \in Targets,
             create_target(s) \/ delete_target(s) \/ ReadTarget(s) \/ AcceptPing(s) \/ record_heartbeat_ping(s)
      PROVE  sched' = sched
  BY <1>8 DEF create_target, delete_target, ReadTarget, AcceptPing, record_heartbeat_ping, Rest
<1>9. update_target \/ refresh_targets \/ UNCHANGED schedulerVars => sched' = sched
  BY DEF update_target, Rest, refresh_targets, schedulerVars
<1> QED BY <1>2, <1>3, <1>4, <1>5, <1>6, <1>7, <1>8, <1>9 DEF SchedulerNext, SchedulerStep

(* Only the console writes the table. *)
LEMMA TableRows ==
    ASSUME [SchedulerNext]_schedulerVars
    PROVE  \/ UNCHANGED console
           \/ update_target
           \/ \E t \in Targets : create_target(t) \/ delete_target(t) \/ ReadTarget(t)
<1>1. CASE refresh_targets \/ StartSweep \/ TimePasses \/ UNCHANGED schedulerVars
  BY <1>1 DEF refresh_targets, StartSweep, TimePasses, schedulerVars, console
<1>2. CASE SchedulerStep
  BY <1>2 DEF SchedulerStep, EndSweep, StartProbe, ProbeNetwork, ReadPing, probe_heartbeat, RecordResult, console
<1>3. ASSUME NEW t \in Targets, AcceptPing(t) \/ record_heartbeat_ping(t) PROVE UNCHANGED console
  BY <1>3 DEF AcceptPing, record_heartbeat_ping, console
<1> QED BY <1>1, <1>2, <1>3 DEF SchedulerNext

(* The console cannot bring back a target that is deleted and forgotten,   *)
(* and neither can a PATCH in flight.                                      *)
LEMMA StepsForget ==
    ASSUME SchedulerInv, [SchedulerNext]_schedulerVars, NEW t \in Targets, Forgotten(t)
    PROVE  Forgotten(t)'
<1>1. table[t].state = "deleted" /\ ~Live(t) /\ table[t] # Unborn /\ table \in [Targets -> TargetRows \cup {Unborn, Deleted}]
  BY DEF Forgotten, Live, SchedulerInv, SnapshotInv, Unborn
<1>2. known[t].state # "live" /\ known \in [Targets -> TargetRows \cup {Unborn}] /\ t \notin sched.queue /\ sched.target # t
  BY DEF Forgotten, Known, SchedulerInv, SnapshotInv
<1>3. table'[t] = table[t]
  <2>1. ASSUME NEW s \in Targets, create_target(s) PROVE table'[t] = table[t]
    BY <1>1, <2>1 DEF create_target
  <2>2. ASSUME NEW s \in Targets, delete_target(s) PROVE table'[t] = table[t]
    BY <1>1, <2>2 DEF delete_target
  <2>3. CASE update_target
    BY <1>1, <2>3 DEF update_target
  <2> QED BY <2>1, <2>2, <2>3, TableRows DEF console, ReadTarget
<1>4. known'[t].state # "live"
  <2>1. CASE known' = known BY <1>2, <2>1
  <2>2. CASE known' = [s \in Targets |-> IF Live(s) THEN table[s] ELSE Unborn]
    BY <1>1, <2>2 DEF Unborn
  <2> QED BY <2>1, <2>2, KnownRows
<1>5. t \notin sched'.queue /\ sched'.target # t
  BY <1>2, SweepsVisit DEF Known
<1> QED BY <1>1, <1>3, <1>4, <1>5 DEF Forgotten, Known

(* Eviction is for good. *)
THEOREM DeletedAreNotProbed == SchedulerSpec => DeletedStayForgotten
<1>1. SchedulerInv /\ [SchedulerNext]_schedulerVars
        => [\A t \in Targets : Forgotten(t) => Forgotten(t)']_schedulerVars
  BY StepsForget
<1> QED BY <1>1, SweepsStayInShape, PTL DEF SchedulerSpec, DeletedStayForgotten

(* A target that is off is probed again only after the console wrote it.   *)
THEOREM OffAreNotProbed == SchedulerSpec => OffAreLeftAlone
<1>1. ASSUME SchedulerInv, [SchedulerNext]_schedulerVars, NEW t \in Targets,
             Off(t), table'[t] = table[t], draft'.target # t
      PROVE  Off(t)'
  <2>1. ~Wanted(t)'
    BY <1>1 DEF Off, Wanted, Live
  <2>2. ~(Known(t)' /\ known'[t].enabled)
    <3>1. CASE known' = known BY <1>1, <3>1 DEF Off, Known
    <3>2. CASE known' = [s \in Targets |-> IF Live(s) THEN table[s] ELSE Unborn]
      <4>1. (known'[t] = table[t] /\ Live(t)) \/ known'[t] = Unborn BY <3>2
      <4> QED BY <1>1, <4>1 DEF Off, Wanted, Known, Unborn
    <3> QED BY <1>1, <3>1, <3>2, KnownRows
  <2>3. ~Probed(t)'
    <3>1. t \in sched.queue => Known(t) BY <1>1 DEF SchedulerInv, SweepInv
    <3> QED BY <1>1, <3>1, SweepsVisit DEF Off, Probed
  <2> QED BY <1>1, <2>1, <2>2, <2>3 DEF Off
<1>2. SchedulerInv /\ [SchedulerNext]_schedulerVars
        => [\A t \in Targets : Off(t) /\ table'[t] = table[t] /\ draft'.target # t => Off(t)']_schedulerVars
  BY <1>1
<1> QED BY <1>2, SweepsStayInShape, PTL DEF SchedulerSpec, OffAreLeftAlone

(* A heartbeat is judged by a ping no younger than the last one. *)
THEOREM StaleAreReported == SchedulerSpec => StaleAreNotUp
<1>1. ASSUME SchedulerInv, SchedulerNext, JudgedUp, sched.seen # NoPing
      PROVE  age[sched.target] \in 0 .. Deadline
  <2>1. sched.pc = "judge" /\ sched'.pc = "record" /\ sched'.verdict = "up"
    BY <1>1 DEF JudgedUp
  <2>2. sched.target \in Targets /\ sched.seen \in Ages /\ age[sched.target] \in Ages
        /\ age[sched.target] # NoPing /\ age[sched.target] <= sched.seen
    BY <1>1, <2>1 DEF SchedulerInv, SweepInv, TimerInv, Probing
  <2>3. probe_heartbeat
    <3>1. sched' # sched BY <2>1
    <3>2. ~(refresh_targets \/ StartSweep \/ update_target \/ TimePasses)
      BY <1>1, <2>1 DEF refresh_targets, StartSweep, update_target, Rest, TimePasses, SchedulerInv, SweepInv
    <3>3. ~(EndSweep \/ ProbeNetwork \/ ReadPing \/ RecordResult \/ \E t \in Targets : StartProbe(t))
      BY <2>1 DEF EndSweep, ProbeNetwork, ReadPing, RecordResult, StartProbe
    <3>4. ~\E t \in Targets : \/ create_target(t) \/ delete_target(t) \/ ReadTarget(t)
                              \/ AcceptPing(t) \/ record_heartbeat_ping(t)
      BY <3>1 DEF create_target, delete_target, ReadTarget, AcceptPing, record_heartbeat_ping, Rest
    <3> QED BY <1>1, <3>2, <3>3, <3>4 DEF SchedulerNext, SchedulerStep
  <2>4. ~(sched.seen > Deadline)
    <3>1. sched'.verdict = HeartbeatVerdict(Deadline, sched.seen).status
      BY <1>1, <2>3 DEF probe_heartbeat, Judged, SchedulerInv, SweepInv
    <3> QED BY <1>1, <2>1, <3>1 DEF HeartbeatVerdict, Report
  <2> QED BY <2>2, <2>4, SchedulerConstants DEF Ages, NoPing
<1>2. SchedulerInv /\ [SchedulerNext]_schedulerVars
        => [JudgedUp /\ sched.seen # NoPing => age[sched.target] \in 0 .. Deadline]_schedulerVars
  BY <1>1
<1> QED BY <1>2, SweepsStayInShape, PTL DEF SchedulerSpec, StaleAreNotUp
=============================================================================
