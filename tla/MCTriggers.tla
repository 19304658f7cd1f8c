----------------------------- MODULE MCTriggers -----------------------------
(* What starts runs and reports on them, side by side: the event outbox    *)
(* with its stream, webhook deliveries, the notification outbox, and the   *)
(* launch with its quota.  They keep no state in common, so a behaviour    *)
(* takes the steps of one of them, in the instance that `trigger` names,  *)
(* and leaves the others where they begin.                                 *)
EXTENDS Integers

VARIABLES
    trigger,
    published, batch, added, stream, done, locked, at, pending, todo, subs, sub,
    ok, retry, faults, launches, handled, lost, unread,            \* EventDelivery
    now, seen, idem, hookAt, hookKeys, answer, started, hookFaults,
    late,                                                          \* WebhookClaim
    status, outboxRow, outboxTodo, posted, orphan, age, got, unheard,
    outboxTries, outboxLost, retries, outboxFaults,                \* NotificationOutbox
    month, used, extra, order, job, kind, attempts, workflow, launchRow,
    counted, hit, repeats                                          \* LaunchQuota

eventVars == <<published, batch, added, stream, done, locked, at, pending, todo, subs, sub,
               ok, retry, faults, launches, handled, lost, unread>>
hookVars == <<now, seen, idem, hookAt, hookKeys, answer, started, hookFaults, late>>
outboxVars == <<status, outboxRow, outboxTodo, posted, orphan, age, got, unheard, outboxTries,
                outboxLost, retries, outboxFaults>>
launchVars == <<month, used, extra, order, job, kind, attempts, workflow, launchRow, counted,
                hit, repeats>>
triggerVars == <<trigger, eventVars, hookVars, outboxVars, launchVars>>

-----------------------------------------------------------------------------
(* Two events for a pipeline and for one that cannot be decoded, with one  *)
(* API process; one event for two pipelines, of which one always fails,    *)
(* with two API processes.                                                 *)
Events == INSTANCE EventDelivery WITH
    Event <- {"e1", "e2"}, Subscriber <- {"p", "broken"}, Undecodable <- {"broken"},
    Failing <- {}, Replica <- {"api"}, MaxFaults <- 1
EventReplicas == INSTANCE EventDelivery WITH
    Event <- {"e1"}, Subscriber <- {"p", "q"}, Undecodable <- {},
    Failing <- {"q"}, Replica <- {"api1", "api2"}, MaxFaults <- 1

(* A delivery "a", the same signature sent again without the idempotency   *)
(* key, which is not signed ("b"), and a retry of "a" signed anew ("c").   *)
(* The first signature is from a clock that is ahead by the whole window.  *)
Deliveries == {"a", "b", "c"}
Signatures == [q \in Deliveries |-> IF q = "c" THEN "s2" ELSE "s1"]
IdempotencyKeys == [q \in Deliveries |-> IF q = "b" THEN "no key" ELSE "k"]
Times == [s \in {"s1", "s2"} |-> IF s = "s1" THEN 2 ELSE 3]
Webhooks == INSTANCE WebhookClaim WITH
    at <- hookAt, keys <- hookKeys, faults <- hookFaults,
    Request <- Deliveries, SignatureOf <- Signatures, KeyOf <- IdempotencyKeys, SignedAt <- Times,
    Window <- 2, MaxClock <- 6, FaultKinds <- {"crash"}, MaxFaults <- 1
HookFaults == INSTANCE WebhookClaim WITH
    at <- hookAt, keys <- hookKeys, faults <- hookFaults,
    Request <- Deliveries, SignatureOf <- Signatures, KeyOf <- IdempotencyKeys, SignedAt <- Times,
    Window <- 2, MaxClock <- 6, FaultKinds <- {"crash", "redis", "answer"}, MaxFaults <- 1

(* Two queued alerts of two pipelines in one batch; and one alert that is  *)
(* retried by hand and a later one of its pipeline.                        *)
Pipelines == [alert \in {"a1", "a2", "a3"} |-> IF alert = "a2" THEN "p2" ELSE "p1"]
Alerts == INSTANCE NotificationOutbox WITH
    row <- outboxRow, todo <- outboxTodo, tries <- outboxTries, lost <- outboxLost, faults <- outboxFaults,
    Alert <- {"a1", "a2"}, PipelineOf <- Pipelines, Queued <- {"a1", "a2"},
    Dispatcher <- {"d1", "d2"}, MaxAttempts <- 2, Base <- 1, Cap <- 1, Limit <- 2,
    MaxRetries <- 0, MaxFaults <- 1
AlertRetries == INSTANCE NotificationOutbox WITH
    row <- outboxRow, todo <- outboxTodo, tries <- outboxTries, lost <- outboxLost, faults <- outboxFaults,
    Alert <- {"a1", "a3"}, PipelineOf <- Pipelines, Queued <- {"a1"},
    Dispatcher <- {"d1", "d2"}, MaxAttempts <- 3, Base <- 1, Cap <- 2, Limit <- 1,
    MaxRetries <- 1, MaxFaults <- 2

(* Three launches and two orders within a month, where calls that fail     *)
(* have no effect; and two launches with every failure, to the next month. *)
Launches == INSTANCE LaunchQuota WITH
    row <- launchRow, Request <- {"q1", "q2", "q3"}, Order <- {"o1", "o2"}, Free <- 1, PerUnit <- 1,
    Billing <- TRUE, Faults <- {}, MaxMonth <- 0, MaxAttempts <- 1
LaunchFaults == INSTANCE LaunchQuota WITH
    row <- launchRow, Request <- {"q1", "q2"}, Order <- {"o1"}, Free <- 1, PerUnit <- 1,
    Billing <- TRUE, MaxMonth <- 1, MaxAttempts <- 2,
    Faults <- {"consume", "start", "insert", "terminate", "release", "process", "prepare"}

ASSUME TriggerAssumption ==
    /\ Events!SubscriberAssumption /\ Events!FaultAssumption
    /\ EventReplicas!SubscriberAssumption /\ EventReplicas!FaultAssumption
    /\ Webhooks!ClockAssumption /\ Webhooks!SignedAssumption /\ Webhooks!RunAssumption
    /\ HookFaults!ClockAssumption /\ HookFaults!SignedAssumption /\ HookFaults!RunAssumption
    /\ Alerts!OutboxAssumption /\ AlertRetries!OutboxAssumption
    /\ Launches!QuotaAssumption /\ Launches!SwitchAssumption
    /\ LaunchFaults!QuotaAssumption /\ LaunchFaults!SwitchAssumption

-----------------------------------------------------------------------------
TriggerInit ==
    /\ trigger \in {"events", "event replicas", "webhooks", "webhook faults", "alerts",
                     "alert retries", "launches", "launch faults"}
    /\ IF trigger = "event replicas" THEN EventReplicas!Init ELSE Events!Init
    /\ IF trigger = "webhook faults" THEN HookFaults!Init ELSE Webhooks!Init
    /\ IF trigger = "alert retries" THEN AlertRetries!Init ELSE Alerts!Init
    /\ IF trigger = "launch faults" THEN LaunchFaults!Init ELSE Launches!Init

EventStep ==
    /\ \/ trigger = "events" /\ Events!Next
       \/ trigger = "event replicas" /\ EventReplicas!Next
    /\ UNCHANGED <<trigger, hookVars, outboxVars, launchVars>>

WebhookStep ==
    /\ \/ trigger = "webhooks" /\ Webhooks!Next
       \/ trigger = "webhook faults" /\ HookFaults!Next
    /\ UNCHANGED <<trigger, eventVars, outboxVars, launchVars>>

AlertStep ==
    /\ \/ trigger = "alerts" /\ Alerts!Next
       \/ trigger = "alert retries" /\ AlertRetries!Next
    /\ UNCHANGED <<trigger, eventVars, hookVars, launchVars>>

LaunchStep ==
    /\ \/ trigger = "launches" /\ Launches!Next
       \/ trigger = "launch faults" /\ LaunchFaults!Next
    /\ UNCHANGED <<trigger, eventVars, hookVars, outboxVars>>

TriggerNext == EventStep \/ WebhookStep \/ AlertStep \/ LaunchStep
TriggerSpec == TriggerInit /\ [][TriggerNext]_triggerVars

-----------------------------------------------------------------------------
(* dispatchEvents: an event leaves the outbox only once the stream has it, *)
(* whatever fails between XADD and commit.  deliverEvent: with one API     *)
(* process a subscriber runs once per event, and once more for each done   *)
(* key that could not be written or read.  consumePipelineEventStream: an  *)
(* entry is acknowledged only when every subscriber was launched or        *)
(* refused, whichever replica read it.                                     *)
EventsHandled ==
    /\ trigger = "events" => Events!TypeOK /\ Events!PublishedIsStreamed /\ Events!LaunchedOnce
    /\ trigger = "event replicas" => EventReplicas!AckedIsHandled

(* claimWebhook: the deliveries of a signature that claim it in its window *)
(* start one run, and so do those of an Idempotency-Key when they are      *)
(* signed anew and handled at the same time.  Also after Redis calls that  *)
(* failed or were not answered a duplicate is answered with the run this   *)
(* key started; as long as nothing has failed, a key that nobody is        *)
(* working on names its run, or is free for a retry if there is none.      *)
WebhooksExact ==
    /\ trigger = "webhooks" => Webhooks!OneRunPerSignature /\ Webhooks!OneRunPerKey
    /\ trigger = "webhook faults" =>
        HookFaults!TypeOK /\ HookFaults!DuplicateNamesItsRun /\ HookFaults!KeySettlesWithoutFaults

(* dispatchAlerts: two workers and a manual retry have a notification      *)
(* accepted twice only if the first answer was lost or its outcome rolled  *)
(* back, and post it at most MaxAttempts times per manual retry, but for   *)
(* outcomes rolled back.                                                   *)
NotificationsBounded ==
    /\ trigger = "alerts" => Alerts!TypeOK /\ Alerts!AcceptedOnce /\ Alerts!BudgetKept
    /\ trigger = "alert retries" =>
        AlertRetries!TypeOK /\ AlertRetries!AcceptedOnce /\ AlertRetries!BudgetKept

(* consumeQuota, releaseQuota, PrepareScheduledExecution: in every order   *)
(* and whatever fails, the counter of a month stays within the quota, two  *)
(* retries that both saw no active one do not both get a row, and repeated *)
(* payment events add the unit of an order once.  But for the launches     *)
(* that a named failure hits, each once: no more executions have a row     *)
(* than were counted, when nothing is under way no more were counted, and  *)
(* a launch without a row leaves no workflow running.                      *)
LaunchesAccounted ==
    /\ trigger = "launches" =>
        /\ Launches!TypeOK /\ Launches!WithinQuota /\ Launches!OneActiveRetry /\ Launches!PaidOnce
        /\ Launches!Compensated /\ Launches!UsageIsCounted /\ Launches!Settled
    /\ trigger = "launch faults" =>
        /\ LaunchFaults!TypeOK /\ LaunchFaults!WithinQuota /\ LaunchFaults!OneActiveRetry
        /\ LaunchFaults!PaidOnce /\ LaunchFaults!Compensated /\ LaunchFaults!UsageIsCounted
        /\ LaunchFaults!Settled

=============================================================================
