--------------------------- MODULE Notifications -----------------------------
(***************************************************************************)
(* Notification channels (notification/admin.rs) and the webhook through   *)
(* which Alertmanager has its alerts sent to them                          *)
(* (notification/alertmanager.rs).                                         *)
(*                                                                         *)
(* The secret of a channel holds the address alerts go to, its public      *)
(* configuration a summary of that address.  An update reads the row under *)
(* its lock and writes all of it back; tests and alerts read the row       *)
(* without a lock and work with what they have read.  The summary of a     *)
(* PagerDuty service is made from the configuration alone; so is that of   *)
(* an e-mail channel, which otherwise behaves like a webhook here.         *)
(***************************************************************************)
EXTENDS Integers, FiniteSets

CONSTANTS
    Channels,       \* ids of channels
    Webhooks,       \* those that are webhooks; the others are PagerDuty services
    Updates,        \* calls of update_notification_channel
    Tests,          \* calls of test_notification_channel that deliver
    Deliveries      \* calls of receive_alertmanager_webhook for one alert

ASSUME NotificationsAssumption == Webhooks \subseteq Channels

VARIABLES
    channel,        \* the rows of notification_channels
    said,           \* history: what was last asked for, field by field
    update,         \* the calls of update_notification_channel
    test,           \* the calls of test_notification_channel
    incident,       \* PagerDuty: the incident of the tests of a channel is open
    delivery,       \* the calls of receive_alertmanager_webhook
    got             \* how often the target of each channel has received the alert

notificationVars == <<channel, said, update, test, incident, delivery, got>>

\* The addresses a secret may hold.
Addresses == {1, 2}

\* A secret without an address, and a summary that comes with the configuration.
NoAddress == 3
OwnSummary == 4

\* 0 is no secret, and no summary.
Secrets == Addresses \cup {0, NoAddress}

Summaries == Addresses \cup {0, OwnSummary}

ChannelRow == [exists : BOOLEAN, enabled : BOOLEAN, secret : Secrets, summary : Summaries,
               tested : {"none", "success", "failed"}]

NoChannel == [exists |-> FALSE, enabled |-> FALSE, secret |-> 0, summary |-> 0, tested |-> "none"]

\* UpdateNotificationChannelRequest; secret 0 is a payload without one.  A new
\* configuration may bring a target_summary of its own.
Payload == [enabled : {"keep", "on", "off"}, secret : Secrets, config : {"keep", "plain", "summary"},
            clear : BOOLEAN]

KeepAll == [enabled |-> "keep", secret |-> 0, config |-> "keep", clear |-> FALSE]

\* Each field on its own, and a new secret together with clear_secret or with a
\* configuration.
PayloadIn ==
    {[KeepAll EXCEPT !.enabled = e] : e \in {"on", "off"}}
       \cup {[KeepAll EXCEPT !.secret = s] : s \in {1, 2, NoAddress}}
       \cup {[KeepAll EXCEPT !.config = g] : g \in {"plain", "summary"}}
       \cup {[KeepAll EXCEPT !.clear = TRUE], [KeepAll EXCEPT !.clear = TRUE, !.secret = 1],
             [KeepAll EXCEPT !.config = "summary", !.secret = 2]}

\* Those that decide whether a channel is used.
Switches == {[KeepAll EXCEPT !.enabled = "on"], [KeepAll EXCEPT !.enabled = "off"]}

\* own: since the last secret with an address somebody has written the summary
\* himself or put in a secret without one.
SaidRow == [enabled : BOOLEAN, secret : Secrets, own : BOOLEAN]

UpdateRow == [pc : {"idle", "locked", "done"}, ch : SUBSET Channels, payload : Payload, before : ChannelRow]

TestRow == [pc : {"idle", "read", "triggered", "success", "failed", "dropped"}, ch : SUBSET Channels,
            testable : BOOLEAN, stored : BOOLEAN]

DeliveryRow == [pc : {"idle", "sending", "sent", "answered", "error", "lost"}, listed : SUBSET Channels,
                todo : SUBSET Channels, delivered : SUBSET Channels]

NotificationsTypeOK ==
    /\ channel \in [Channels -> ChannelRow] /\ said \in [Channels -> SaidRow]
    /\ update \in [Updates -> UpdateRow]
    /\ test \in [Tests -> TestRow] /\ incident \in [Channels -> BOOLEAN]
    /\ delivery \in [Deliveries -> DeliveryRow] /\ got \in [Channels -> Nat]

NotificationsInit ==
    /\ channel = [c \in Channels |-> NoChannel]
    /\ said = [c \in Channels |-> [enabled |-> FALSE, secret |-> 0, own |-> FALSE]]
    /\ update = [u \in Updates |-> [pc |-> "idle", ch |-> {}, payload |-> KeepAll, before |-> NoChannel]]
    /\ test = [t \in Tests |-> [pc |-> "idle", ch |-> {}, testable |-> FALSE, stored |-> FALSE]]
    /\ incident = [c \in Channels |-> FALSE]
    /\ delivery = [d \in Deliveries |-> [pc |-> "idle", listed |-> {}, todo |-> {}, delivered |-> {}]]
    /\ got = [c \in Channels |-> 0]

-----------------------------------------------------------------------------
(* Channels. *)

\* build_target_summary and apply_public_summary: without the address of a new
\* secret a webhook shows the summary that is in the configuration.
Summary(c, shown, secret) ==
    IF c \notin Webhooks THEN 0 ELSE IF secret \in Addresses THEN secret ELSE shown

\* target_summary in the configuration of a payload, or the one of the row.
Shown(config, old) == IF config = "keep" THEN old ELSE IF config = "summary" THEN OwnSummary ELSE 0

\* Whether the summary is the administrator's own after a payload.
OwnAfter(config, secret, old) ==
    secret \notin Addresses /\ (old \/ config = "summary" \/ secret = NoAddress)

\* The row insert_channel writes.
NewChannel(c, s, config, on) ==
    [exists |-> TRUE, enabled |-> on, secret |-> s, summary |-> Summary(c, Shown(config, 0), s), tested |-> "none"]

\* create_notification_channel.
CreateChannel(c, s, config, on) ==
    /\ ~channel[c].exists
    /\ channel' = [channel EXCEPT ![c] = NewChannel(c, s, config, on)]
    /\ said' = [said EXCEPT ![c] = [enabled |-> on, secret |-> s, own |-> OwnAfter(config, s, FALSE)]]
    /\ UNCHANGED <<update, test, incident, delivery, got>>

\* The lock of find_channel_for_update.
RowFree(c) == \A u \in Updates : ~(update[u].pc = "locked" /\ c \in update[u].ch)

UpdateRead(u, c, p) ==
    /\ update[u].pc = "idle" /\ channel[c].exists /\ RowFree(c)
    /\ update' = [update EXCEPT ![u] = [pc |-> "locked", ch |-> {c}, payload |-> p, before |-> channel[c]]]
    /\ UNCHANGED <<channel, said, test, incident, delivery, got>>

Enabled(p, old) == IF p.enabled = "keep" THEN old ELSE p.enabled = "on"

SecretAfter(p, old) == IF p.clear THEN 0 ELSE IF p.secret # 0 THEN p.secret ELSE old

\* normalize_update_input: what the payload leaves out comes from the row read.
NormalizedUpdate(c, p, before) ==
    [before EXCEPT !.enabled = Enabled(p, @), !.secret = SecretAfter(p, @),
                   !.summary = Summary(c, Shown(p.config, @), p.secret)]

\* update_channel_in_transaction and commit; the result of a test stays as it is.
UpdateCommit(u, c) ==
    /\ update[u].pc = "locked" /\ c \in update[u].ch
    /\ LET p == update[u].payload
           new == NormalizedUpdate(c, p, update[u].before)
       IN  /\ channel' = [channel EXCEPT ![c] = [new EXCEPT !.tested = channel[c].tested]]
           /\ said' = [said EXCEPT ![c] = [enabled |-> Enabled(p, @.enabled), secret |-> SecretAfter(p, @.secret),
                                           own |-> OwnAfter(p.config, p.secret, @.own)]]
    /\ update' = [update EXCEPT ![u] = [pc |-> "done", ch |-> {}, payload |-> KeepAll, before |-> NoChannel]]
    /\ UNCHANGED <<test, incident, delivery, got>>

-----------------------------------------------------------------------------
(* test_notification_channel in delivery mode. *)

\* run_dry_run_test: the secret must hold an address or a routing key.
Testable(row) == row.enabled /\ row.secret \in Addresses

\* find_channel.
TestRead(t, c) ==
    /\ test[t].pc = "idle" /\ channel[c].exists
    /\ test' = [test EXCEPT ![t] = [pc |-> "read", ch |-> {c}, testable |-> Testable(channel[c]), stored |-> FALSE]]
    /\ UNCHANGED <<channel, said, update, incident, delivery, got>>

\* deliver_webhook_test, or the end of a test that is not even sent.
TestWebhook(t, c, ok) ==
    /\ test[t].pc = "read" /\ c \in test[t].ch
    /\ c \in Webhooks \/ ~test[t].testable
    /\ ok => test[t].testable
    /\ test' = [test EXCEPT ![t].pc = IF ok THEN "success" ELSE "failed"]
    /\ UNCHANGED <<channel, said, update, incident, delivery, got>>

\* The trigger of deliver_pagerduty_test; without an answer it may have
\* arrived or not.
TestTrigger(t, c, arrives, ok) ==
    /\ test[t].pc = "read" /\ c \in test[t].ch \ Webhooks /\ test[t].testable
    /\ ok => arrives
    /\ incident' = [incident EXCEPT ![c] = @ \/ arrives]
    /\ test' = [test EXCEPT ![t].pc = IF ok THEN "triggered" ELSE "failed"]
    /\ UNCHANGED <<channel, said, update, delivery, got>>

\* ensure_success_status of the second request.
ResolveSucceeds(ok) == ok

\* Its resolve, with the same dedup_key.
TestResolve(t, c, arrives, ok) ==
    /\ test[t].pc = "triggered" /\ c \in test[t].ch
    /\ ok => arrives
    /\ incident' = [incident EXCEPT ![c] = @ /\ ~arrives]
    /\ test' = [test EXCEPT ![t].pc = IF ResolveSucceeds(ok) THEN "success" ELSE "failed"]
    /\ UNCHANGED <<channel, said, update, delivery, got>>

\* update_test_result_in_transaction, which waits for an update of the row.
TestStore(t, c) ==
    /\ test[t].pc \in {"success", "failed"} /\ c \in test[t].ch /\ ~test[t].stored /\ RowFree(c)
    /\ channel' = [channel EXCEPT ![c].tested = test[t].pc]
    /\ test' = [test EXCEPT ![t].stored = TRUE]
    /\ UNCHANGED <<said, update, incident, delivery, got>>

\* The administrator's connection is closed: the handler is dropped.
TestDropped(t) ==
    /\ test[t].pc \in {"read", "triggered"}
    /\ test' = [test EXCEPT ![t].pc = "dropped"]
    /\ UNCHANGED <<channel, said, update, incident, delivery, got>>

-----------------------------------------------------------------------------
(* receive_alertmanager_webhook. *)

Acked == \E d \in Deliveries : delivery[d].pc = "answered"

\* Alertmanager sends the alert, again when it has no good answer, also while
\* a handler it has given up is still at work.  list_enabled_channels.
ListChannels(d) ==
    /\ delivery[d].pc = "idle" /\ ~Acked
    /\ \A e \in Deliveries : delivery[e].pc \in {"idle", "lost", "error"}
    /\ LET on == {c \in Channels : channel[c].enabled /\ channel[c].secret # 0}
       IN  delivery' = [delivery EXCEPT ![d] = [pc |-> "sending", listed |-> on, todo |-> on, delivered |-> {}]]
    /\ UNCHANGED <<channel, said, update, test, incident, got>>

\* deliver_channel.  One that times out may have arrived; a secret without an
\* address fails.
DeliverChannel(d, c, arrives, ok) ==
    /\ delivery[d].pc \in {"sending", "lost"} /\ c \in delivery[d].todo
    /\ ok => arrives
    /\ got' = IF arrives THEN [got EXCEPT ![c] = @ + 1] ELSE got
    /\ delivery' = [delivery EXCEPT ![d].todo = @ \ {c}, ![d].delivered = IF ok THEN @ \cup {c} ELSE @]
    /\ UNCHANGED <<channel, said, update, test, incident>>

\* Nothing was delivered although there was a channel.
AllFailed(d) == delivery[d].listed # {} /\ delivery[d].delivered = {}

Answer(d) ==
    /\ delivery[d].pc = "sending" /\ delivery[d].todo = {}
    /\ delivery' = [delivery EXCEPT ![d].pc = IF AllFailed(d) THEN "error" ELSE "answered"]
    /\ UNCHANGED <<channel, said, update, test, incident, got>>

\* Alertmanager stops waiting, or the answer does not reach it.
GiveUp(d) ==
    /\ delivery[d].pc = "sending"
    /\ delivery' = [delivery EXCEPT ![d].pc = "lost"]
    /\ UNCHANGED <<channel, said, update, test, incident, got>>

-----------------------------------------------------------------------------
\* Three casts: updates among themselves, beside tests, and beside an alert.
ChannelNext(secrets, configs, payloads) ==
    \/ \E c \in Channels, s \in secrets, g \in configs, on \in BOOLEAN : CreateChannel(c, s, g, on)
    \/ \E u \in Updates, c \in Channels : UpdateCommit(u, c) \/ \E p \in payloads : UpdateRead(u, c, p)

UpdateNext == ChannelNext({0, 1, NoAddress}, {"plain", "summary"}, PayloadIn)

SwitchNext == ChannelNext({0, 1}, {"plain"}, Switches)

TestNext ==
    \/ SwitchNext
    \/ \E t \in Tests : TestDropped(t)
    \/ \E t \in Tests, c \in Channels :
           \/ TestRead(t, c) \/ TestStore(t, c)
           \/ \E ok \in BOOLEAN : TestWebhook(t, c, ok)
           \/ \E ok, arrives \in BOOLEAN : TestTrigger(t, c, arrives, ok) \/ TestResolve(t, c, arrives, ok)

AlertNext ==
    \/ SwitchNext
    \/ \E d \in Deliveries :
           \/ ListChannels(d) \/ Answer(d) \/ GiveUp(d)
           \/ \E c \in Channels, ok, arrives \in BOOLEAN : DeliverChannel(d, c, arrives, ok)

-----------------------------------------------------------------------------
\* Updates of different fields of a channel are all kept, whatever order the
\* two handlers run in (find_channel_for_update), and the summary an
\* administrator sees is that of the secret alerts are sent with, unless he has
\* written it himself or has put in a secret without an address since, which
\* leaves the old summary (apply_public_summary).
UpdatesKept ==
    \A c \in Channels :
        /\ channel[c].enabled = said[c].enabled /\ channel[c].secret = said[c].secret
        /\ (channel[c].summary # 0 /\ channel[c].secret # 0 /\ ~said[c].own) =>
              channel[c].summary = channel[c].secret

\* An incident that a test has opened and that stays open is the work of a
\* test that is running, was dropped, or is reported as failed
\* (deliver_pagerduty_test).
TestIncidentsResolved ==
    \A c \in Channels :
        incident[c] => \E t \in Tests : c \in test[t].ch /\ test[t].pc \in {"triggered", "failed", "dropped"}

\* An alert Alertmanager has a good answer for has reached a channel or there
\* was none to reach, and a channel has it twice only when an earlier call was
\* not answered or failed everywhere.
AlertsArrive ==
    /\ \A d \in Deliveries :
           delivery[d].pc = "answered" => delivery[d].listed = {} \/ \E c \in delivery[d].listed : got[c] > 0
    /\ \A c \in Channels :
           got[c] > 1 => got[c] - 1 <= Cardinality({d \in Deliveries : delivery[d].pc \in {"lost", "error"}})

\* Channels, tests and alerts together (notification/).
NotificationsKept == NotificationsTypeOK /\ UpdatesKept /\ TestIncidentsResolved /\ AlertsArrive

=============================================================================
