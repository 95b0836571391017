----------------------------- MODULE MCServices -----------------------------
(***************************************************************************)
(* Model checking of the services around the core: the outbox, the guards  *)
(* of requests, the accounts of customers and the notifications.  They     *)
(* share no rows here, so a behaviour is one of a single part, its cast.   *)
(***************************************************************************)
EXTENDS Outbox, RequestGuards, Customers, Notifications

VARIABLE cast

mcVars == <<cast, outboxVars, guardVars, customerVars, notificationVars>>

Init ==
    /\ cast \in {"outbox", "signature", "window", "customers", "channels", "tests", "alerts"}
    /\ OutboxInit /\ GuardsInit /\ CustomersInit /\ NotificationsInit

Next ==
    /\ UNCHANGED cast
    /\ \/ cast = "outbox" /\ OutboxNext /\ UNCHANGED <<guardVars, customerVars, notificationVars>>
       \/ cast = "signature" /\ SignatureNext /\ UNCHANGED <<outboxVars, customerVars, notificationVars>>
       \/ cast = "window" /\ WindowNext /\ UNCHANGED <<outboxVars, customerVars, notificationVars>>
       \/ cast = "customers" /\ CustomersNext /\ UNCHANGED <<outboxVars, guardVars, notificationVars>>
       \/ /\ \/ cast = "channels" /\ UpdateNext
             \/ cast = "tests" /\ TestNext
             \/ cast = "alerts" /\ AlertNext
          /\ UNCHANGED <<outboxVars, guardVars, customerVars>>

Spec == Init /\ [][Next]_mcVars /\ OutboxFairness

\* Mails are sent again only for a reason and what shows as processed has been
\* sent (process_pending_email_batch); the channels of alerts keep what was
\* configured and an alert that is acknowledged has arrived
\* (update_notification_channel, receive_alertmanager_webhook).
MessagesKept == OutboxTypeOK /\ DuplicatesHaveACause /\ ProcessedWasSent /\ NotificationsKept
=============================================================================
