----------------------------- MODULE Transports -----------------------------
(***************************************************************************)
(* The kinds of notification channel: what their configuration must look   *)
(* like and which of its fields the API masks (notification_channel/), and *)
(* which of them the transport of the kind uses to deliver (notifier/).    *)
(* The two are written file by file and kept in step by hand.              *)
(*                                                                         *)
(* A field holds a well-formed value, the redaction mask, nothing but      *)
(* blanks, or None.  A configuration is known by the test each field has   *)
(* to pass and by the fields that are masked; a transport by how it sends, *)
(* the fields that say where to, and the fields it treats as credentials.  *)
(***************************************************************************)
EXTENDS FiniteSets

Real == "real"        \* well-formed for its field
Moved == "moved"      \* well-formed too, another destination
MASK == "***"
Blank == " "
None == "none"
FieldValues == {Real, Moved, MASK, Blank, None}

----------------------------------------------------------------------------
(* The tests.  The mask is no URL, no e-mail address, no number and no key *)
(* of a fixed length, but it is a text.                                    *)
require_https(v) == v \in {Real, Moved}
require_provider_webhook(v) == require_https(v)
AnyText(v) == v \in {Real, Moved, MASK}

Passes(test, v) ==
    CASE test = "https" -> require_https(v)
      [] test = "provider" -> require_provider_webhook(v)
      [] test = "exact" -> v \in {Real, Moved}
      [] test = "text" -> AnyText(v)
      [] test = "optional exact" -> v = None \/ v \in {Real, Moved}
      [] test = "optional text" -> v = None \/ AnyText(v)
      [] test = "any" -> TRUE

Config(tests, masked) == [tests |-> tests, masked |-> masked]
Hook(test) == Config([webhook_url |-> test], {"webhook_url"})

WebhookConfig == Config([url |-> "https", headers |-> "any", secret |-> "optional exact"], {"url", "headers", "secret"})
SlackConfig == Hook("https")
TelegramConfig == Config([bot_token |-> "text", chat_id |-> "text"], {"bot_token"})
TelegramAppConfig == Config([chat_id |-> "exact", chat_title |-> "any"], {})
WhatsAppConfig ==
    Config([access_token |-> "text", phone_number_id |-> "exact", to |-> "exact",
            template_name |-> "exact", language_code |-> "optional exact"], {"access_token"})
WhatsAppAppConfig == Config([phone |-> "exact", profile_name |-> "any"], {})
DiscordConfig == Hook("provider")
MsTeamsConfig == Hook("provider")
GoogleChatConfig == Hook("provider")
EmailConfig == Config([to |-> "exact"], {})
PagerDutyConfig == Config([routing_key |-> "exact"], {"routing_key"})
NtfyConfig == Config([server_url |-> "https", topic |-> "exact", access_token |-> "optional text"], {"access_token"})
PushoverConfig ==
    Config([token |-> "exact", user |-> "exact", device |-> "optional exact", emergency |-> "any"], {"token", "user"})
(* Five gateways, each with fields of its own.                             *)
SmsConfig ==
    [twilio |-> Config([to |-> "exact", from |-> "exact", account_sid |-> "exact", auth_token |-> "text"], {"auth_token"}),
     telnyx |-> Config([to |-> "exact", from |-> "exact", api_key |-> "text", messaging_profile_id |-> "optional text"],
                       {"api_key"}),
     vonage |-> Config([to |-> "exact", from |-> "exact", api_key |-> "text", api_secret |-> "text"], {"api_secret"}),
     plivo |-> Config([to |-> "exact", from |-> "exact", auth_id |-> "exact", auth_token |-> "text"], {"auth_token"}),
     sinch |-> Config([to |-> "exact", from |-> "exact", service_plan_id |-> "exact", api_token |-> "text",
                       region |-> "exact"], {"api_token"})]
OpsgenieConfig == Config([api_key |-> "text", region |-> "exact"], {"api_key"})
GotifyConfig == Config([server_url |-> "https", app_token |-> "text"], {"app_token"})
MatrixConfig == Config([homeserver_url |-> "https", access_token |-> "text", room_id |-> "text"], {"access_token"})
MattermostConfig == Hook("https")
RocketchatConfig == Hook("https")
WebexConfig == Hook("https")
ZulipConfig ==
    Config([server_url |-> "https", email |-> "text", api_key |-> "text", stream |-> "text", topic |-> "text"], {"api_key"})
GitHubConfig == Config([repo |-> "exact", token |-> "text", api_url |-> "https"], {"token"})
GitLabConfig == Config([repo |-> "text", token |-> "text", api_url |-> "https"], {"token"})
GiteaConfig == Config([repo |-> "exact", token |-> "text", api_url |-> "https"], {"token"})
IlertConfig == Config([api_key |-> "text"], {"api_key"})
IncidentioConfig == Config([api_key |-> "text"], {"api_key"})
SquadcastConfig == Hook("https")
SIGNL4Config == Config([webhook_url |-> "https", secret |-> "text"], {"webhook_url", "secret"})
\* mutant: a key added later is not masked
DatadogConfigBare == Config([api_key |-> "text", app_key |-> "text"], {"api_key"})
DatadogConfig == Config([api_key |-> "text", app_key |-> "text"], {"api_key", "app_key"})
NewRelicConfig == Config([api_key |-> "text", account_id |-> "text"], {"api_key"})
SplunkConfig == Config([hec_url |-> "https", hec_token |-> "text"], {"hec_token"})
LineConfig == Config([channel_access_token |-> "text"], {"channel_access_token"})
SignalConfig == Config([phone_number |-> "text", api_url |-> "https"], {"api_url"})
ClickUpConfig == Hook("https")
IFTTTConfig == Config([webhook_key |-> "text", event_name |-> "text"], {"webhook_key"})
ZapierConfig == Hook("https")
N8nConfig == Hook("https")
HomeAssistantConfig == Hook("https")
AwsSesConfig == Config([region |-> "text", from_address |-> "exact"], {})
SendGridConfig == Config([api_key |-> "text", from_address |-> "exact"], {"api_key"})

(* with_transport!: the configuration of every kind.                       *)
with_transport ==
    [webhook |-> WebhookConfig, slack |-> SlackConfig, telegram |-> TelegramConfig,
     telegram_app |-> TelegramAppConfig, whatsapp |-> WhatsAppConfig, whatsapp_app |-> WhatsAppAppConfig,
     discord |-> DiscordConfig, msteams |-> MsTeamsConfig, google_chat |-> GoogleChatConfig,
     email |-> EmailConfig, pagerduty |-> PagerDutyConfig, ntfy |-> NtfyConfig, pushover |-> PushoverConfig,
     twilio |-> SmsConfig.twilio, telnyx |-> SmsConfig.telnyx, vonage |-> SmsConfig.vonage,
     plivo |-> SmsConfig.plivo, sinch |-> SmsConfig.sinch,
     opsgenie |-> OpsgenieConfig, gotify |-> GotifyConfig, matrix |-> MatrixConfig,
     mattermost |-> MattermostConfig, rocketchat |-> RocketchatConfig, webex |-> WebexConfig,
     zulip |-> ZulipConfig, github |-> GitHubConfig, gitlab |-> GitLabConfig, gitea |-> GiteaConfig,
     ilert |-> IlertConfig, incidentio |-> IncidentioConfig, squadcast |-> SquadcastConfig,
     signl4 |-> SIGNL4Config, datadog |-> DatadogConfig, newrelic |-> NewRelicConfig,
     splunk |-> SplunkConfig, line |-> LineConfig, signal |-> SignalConfig, clickup |-> ClickUpConfig,
     ifttt |-> IFTTTConfig, zapier |-> ZapierConfig, n8n |-> N8nConfig,
     homeassistant |-> HomeAssistantConfig, awsses |-> AwsSesConfig, sendgrid |-> SendGridConfig]

(* ChannelKind::ALL, with sms once per gateway.                            *)
ALL == DOMAIN with_transport
Fields(kind) == DOMAIN with_transport[kind].tests
Sms == DOMAIN SmsConfig

\* A configuration of a kind, every field as an operator would fill it in.
Filled(kind) == [f \in Fields(kind) |-> Real]

validate(kind, config) == \A f \in Fields(kind) : Passes(with_transport[kind].tests[f], config[f])

redact_in_place(kind, config) ==
    [f \in Fields(kind) |-> IF f \in with_transport[kind].masked /\ config[f] # None THEN MASK ELSE config[f]]

----------------------------------------------------------------------------
(* The transports.  A request needs every field in uses, and the ones in   *)
(* keys are its credentials: what the code wraps in a SecretString, or     *)
(* puts into the path of a URL as a token.                                 *)
Transport(how, uses, keys) == [how |-> how, uses |-> uses \cup keys, keys |-> keys]
post_json(url) == Transport("http", {}, {url})

LogNotifier == Transport("log", {}, {})
WebhookNotifier == post_json("url")
SlackNotifier == post_json("webhook_url")
TelegramNotifier == Transport("http", {"chat_id"}, {"bot_token"})
PushoverNotifier == Transport("http", {"device", "emergency"}, {"token", "user"})
SmsNotifier(gateway) ==
    IF gateway = "twilio" THEN Transport("http", {"to", "from", "account_sid"}, {"auth_token"}) ELSE LogNotifier
WhatsAppNotifier == Transport("http", {"phone_number_id", "to", "template_name", "language_code"}, {"access_token"})
DiscordNotifier == post_json("webhook_url")
MsTeamsNotifier == post_json("webhook_url")
GoogleChatNotifier == post_json("webhook_url")
PagerDutyNotifier == Transport("events", {}, {"routing_key"})
NtfyNotifier == Transport("http", {"server_url", "topic"}, {"access_token"})
OpsgenieNotifier == Transport("http", {}, {"api_key"})
GotifyNotifier == Transport("http", {"server_url"}, {"app_token"})
MatrixNotifier == Transport("http", {"homeserver_url", "room_id"}, {"access_token"})
MattermostNotifier == post_json("webhook_url")
RocketchatNotifier == post_json("webhook_url")
WebexNotifier == post_json("webhook_url")
ZulipNotifier == Transport("http", {"server_url", "email", "stream", "topic"}, {"api_key"})
GitHubNotifier == Transport("http", {"api_url", "repo"}, {"token"})
GitLabNotifier == Transport("http", {"api_url", "repo"}, {"token"})
GiteaNotifier == Transport("http", {"api_url", "repo"}, {"token"})
IlertNotifier == Transport("http", {}, {"api_key"})
IncidentioNotifier == Transport("http", {}, {"api_key"})
SquadcastNotifier == post_json("webhook_url")
SIGNL4Notifier == post_json("webhook_url")
DatadogNotifier == Transport("http", {}, {"api_key", "app_key"})
NewRelicNotifier == Transport("http", {"account_id"}, {"api_key"})
SplunkNotifier == Transport("http", {"hec_url"}, {"hec_token"})
LineNotifier == Transport("http", {}, {"channel_access_token"})
SignalNotifier == Transport("http", {"api_url", "phone_number"}, {})
ClickUpNotifier == post_json("webhook_url")
IFTTTNotifier == Transport("http", {"event_name"}, {"webhook_key"})
ZapierNotifier == post_json("webhook_url")
N8nNotifier == post_json("webhook_url")
HomeAssistantNotifier == post_json("webhook_url")
AwsSesNotifier == Transport("refuse", {"region", "from_address"}, {})
SendGridNotifier == Transport("http", {"from_address"}, {"api_key"})

(* E-mail goes through the shared sender when an incident is dispatched;   *)
(* build_notifier only logs it.                                            *)
build_notifier(kind) ==
    CASE kind \in {"telegram_app", "whatsapp_app", "email"} -> LogNotifier
      [] kind \in Sms -> SmsNotifier(kind)
      [] OTHER ->
        [webhook |-> WebhookNotifier, slack |-> SlackNotifier, telegram |-> TelegramNotifier,
         whatsapp |-> WhatsAppNotifier, discord |-> DiscordNotifier, msteams |-> MsTeamsNotifier,
         google_chat |-> GoogleChatNotifier, pagerduty |-> PagerDutyNotifier, ntfy |-> NtfyNotifier,
         pushover |-> PushoverNotifier, opsgenie |-> OpsgenieNotifier, gotify |-> GotifyNotifier,
         matrix |-> MatrixNotifier, mattermost |-> MattermostNotifier, rocketchat |-> RocketchatNotifier,
         webex |-> WebexNotifier, zulip |-> ZulipNotifier, github |-> GitHubNotifier,
         gitlab |-> GitLabNotifier, gitea |-> GiteaNotifier, ilert |-> IlertNotifier,
         incidentio |-> IncidentioNotifier, squadcast |-> SquadcastNotifier, signl4 |-> SIGNL4Notifier,
         datadog |-> DatadogNotifier, newrelic |-> NewRelicNotifier, splunk |-> SplunkNotifier,
         line |-> LineNotifier, signal |-> SignalNotifier, clickup |-> ClickUpNotifier,
         ifttt |-> IFTTTNotifier, zapier |-> ZapierNotifier, n8n |-> N8nNotifier,
         homeassistant |-> HomeAssistantNotifier, awsses |-> AwsSesNotifier,
         sendgrid |-> SendGridNotifier][kind]

(* Whether send answers Ok: a log-only transport always does, the others   *)
(* when the endpoint answered with success.  The endpoint accepts a        *)
(* request that is complete.                                               *)
Complete(kind, config) == \A f \in build_notifier(kind).keys : config[f] \in {Real, Moved, None}
send(kind, accepted) ==
    CASE build_notifier(kind).how = "log" -> TRUE
      [] build_notifier(kind).how = "refuse" -> FALSE
      [] OTHER -> accepted
=============================================================================
