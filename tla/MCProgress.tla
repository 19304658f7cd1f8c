----------------------------- MODULE MCProgress -----------------------------
(* What must eventually happen, under the fairness that each component's   *)
(* loops and Temporal justify: the event outbox, the notification outbox,  *)
(* the backfill dispatcher, incremental reads, the walk through a list,    *)
(* and the three engine workflows.  They keep no state in common, so a     *)
(* behaviour takes the steps of one of them, in the instance that          *)
(* `scenario` names, and leaves the others where they begin.               *)
EXTENDS Integers

VARIABLES
    scenario,
    published, batch, added, stream, done, locked, at, pending, todo, subs, sub,
    ok, retry, eventFaults, launches, handled, lost, unread,       \* EventDelivery
    status, alertRow, alertTodo, posted, orphan, age, got, unheard, tries,
    alertLost, alertRetries, alertFaults,                          \* NotificationOutbox
    job, part, old, partRow, alive, mark, disp, jobFaults, retries,
    unknown,                                                       \* Backfill
    table, saved, keyColumn, run, delivered, fails,                \* SourcePaging
    rows, match, clock, walk, cursor, listed, kept,                \* ListPages
    offsets, sunk, batches, streamRow, streamFaults,               \* StreamDirect
    snapshot, sink, written, state, app, spark, phase, submitLost,
    sparkFaults,                                                   \* SparkJob
    flink, keys, pc, poll, action, desired, deployed, signals, flinkRow,
    sent, flinkFaults                                              \* FlinkJob

eventVars == <<published, batch, added, stream, done, locked, at, pending, todo, subs, sub,
               ok, retry, eventFaults, launches, handled, lost, unread>>
alertVars == <<status, alertRow, alertTodo, posted, orphan, age, got, unheard, tries, alertLost,
               alertRetries, alertFaults>>
backfillVars == <<job, part, old, partRow, alive, mark, disp, jobFaults, retries, unknown>>
pagingVars == <<table, saved, keyColumn, run, delivered, fails>>
listVars == <<rows, match, clock, walk, cursor, listed, kept>>
streamVars == <<offsets, sunk, batches, streamRow, streamFaults>>
sparkVars == <<snapshot, sink, written, state, app, spark, phase, submitLost, sparkFaults>>
flinkVars == <<flink, keys, pc, poll, action, desired, deployed, signals, flinkRow, sent,
               flinkFaults>>
vars == <<scenario, eventVars, alertVars, backfillVars, pagingVars, listVars, streamVars,
          sparkVars, flinkVars>>

-----------------------------------------------------------------------------
Events == INSTANCE EventDelivery WITH
    faults <- eventFaults, Event <- {"e1"}, Subscriber <- {"p"}, Undecodable <- {},
    Failing <- {}, Replica <- {"api"}, MaxFaults <- 2

(* Two alerts of two pipelines in one batch.                               *)
Pipelines == [alert \in {"a1", "a2"} |-> IF alert = "a2" THEN "p2" ELSE "p1"]
Alerts == INSTANCE NotificationOutbox WITH
    row <- alertRow, todo <- alertTodo, lost <- alertLost, retries <- alertRetries,
    faults <- alertFaults,
    Alert <- {"a1", "a2"}, PipelineOf <- Pipelines, Queued <- {"a1", "a2"},
    Dispatcher <- {"d1"}, MaxAttempts <- 2, Base <- 1, Cap <- 2, Limit <- 2,
    MaxRetries <- 0, MaxFaults <- 1

Backfills == INSTANCE Backfill WITH
    row <- partRow, faults <- jobFaults, PartitionCount <- 2, MaxConcurrency <- 1,
    Dispatcher <- {"api1", "api2"}, FaultKinds <- {"crash"}, MaxFaults <- 1, MaxRetries <- 0

(* A source without a key column, whose runs read one page of two rows.    *)
Reads == INSTANCE SourcePaging WITH
    Source <- "snowflake", PageSize <- 2, MaxPages <- 1, Window <- <<>>, KeyColumn <- FALSE,
    Edits <- {}, NullsFirst <- FALSE, Values <- {1, 2, 3}, MaxKey <- 5, Run <- {"r1"},
    MaxFails <- 1

Lineage == INSTANCE ListPages WITH
    Route <- "lineage", Keys <- {"k1"}, MaxId <- 2, MaxTime <- 2, Limit <- 1

(* A stream that is controlled across a continue-as-new; a Spark job whose *)
(* submissions are answered late.                                          *)
Streams == INSTANCE StreamDirect WITH
    cursor <- offsets, wf <- batches, row <- streamRow, faults <- streamFaults,
    Execution <- {"x1"}, Partition <- {"p1", "p2"}, HighWater <- [p \in {"p1", "p2"} |-> IF p = "p1" THEN 2 ELSE 1],
    Page <- 2, ContinueAfter <- 3, MaxRequests <- 2, MaxFaults <- 1
SparkJobs == INSTANCE SparkJob WITH
    table <- snapshot, wf <- spark, lost <- submitLost, faults <- sparkFaults,
    Execution <- {"x1"}, MaxSnapshot <- 2, MaxAttempts <- 2, MaxLost <- 2, MaxFaults <- 2

Flink == INSTANCE FlinkJob WITH
    job <- flink, pending <- signals, row <- flinkRow, faults <- flinkFaults,
    ContinueAfter <- 4, MaxSignals <- 3, MaxFaults <- 1

ASSUME ProgressAssumption ==
    /\ Events!SubscriberAssumption /\ Events!FaultAssumption
    /\ Alerts!OutboxAssumption
    /\ Backfills!CountsAssumption /\ Backfills!FaultsAssumption
    /\ Reads!PagingAssumption
    /\ Lineage!ListPagesAssumption
    /\ Streams!StreamAssumption
    /\ SparkJobs!SparkAssumption
    /\ Flink!FlinkAssumption

-----------------------------------------------------------------------------
Init ==
    /\ scenario \in {"events", "alerts", "backfill", "reads", "lineage", "stream", "spark", "flink"}
    /\ Events!Init /\ Alerts!Init /\ Backfills!Init /\ Reads!Init /\ Lineage!Init
    /\ Streams!Init /\ Flink!Init
    /\ SparkJobs!Init /\ (scenario # "spark" => snapshot = 1)

EventStep ==
    /\ scenario = "events" /\ Events!Next
    /\ UNCHANGED <<scenario, alertVars, backfillVars, pagingVars, listVars, streamVars, sparkVars, flinkVars>>

AlertStep ==
    /\ scenario = "alerts" /\ Alerts!Next
    /\ UNCHANGED <<scenario, eventVars, backfillVars, pagingVars, listVars, streamVars, sparkVars, flinkVars>>

BackfillStep ==
    /\ scenario = "backfill" /\ Backfills!Next
    /\ UNCHANGED <<scenario, eventVars, alertVars, pagingVars, listVars, streamVars, sparkVars, flinkVars>>

ReadStep ==
    /\ scenario = "reads" /\ Reads!Next
    /\ UNCHANGED <<scenario, eventVars, alertVars, backfillVars, listVars, streamVars, sparkVars, flinkVars>>

LineageStep ==
    /\ scenario = "lineage" /\ Lineage!Next
    /\ UNCHANGED <<scenario, eventVars, alertVars, backfillVars, pagingVars, streamVars, sparkVars, flinkVars>>

StreamStep ==
    /\ scenario = "stream" /\ Streams!Next
    /\ UNCHANGED <<scenario, eventVars, alertVars, backfillVars, pagingVars, listVars, sparkVars, flinkVars>>

SparkStep ==
    /\ scenario = "spark" /\ SparkJobs!Next
    /\ UNCHANGED <<scenario, eventVars, alertVars, backfillVars, pagingVars, listVars, streamVars, flinkVars>>

FlinkStep ==
    /\ scenario = "flink" /\ Flink!Next
    /\ UNCHANGED <<scenario, eventVars, alertVars, backfillVars, pagingVars, listVars, streamVars, sparkVars>>

Next ==
    \/ EventStep \/ AlertStep \/ BackfillStep \/ ReadStep \/ LineageStep
    \/ StreamStep \/ SparkStep \/ FlinkStep

(* The fairness of each component's FairSpec, for the one that moves.      *)
Fairness ==
    /\ WF_eventVars(scenario = "events" /\ Events!Publisher)
    /\ WF_eventVars(scenario = "events" /\ Events!Consume("api"))
    /\ \A k \in Events!Key : WF_eventVars(scenario = "events" /\ Events!LockExpires(k))
    /\ WF_alertVars(scenario = "alerts" /\ Alerts!Tick)
    /\ WF_alertVars(scenario = "alerts" /\ Alerts!Dispatch("d1"))
    /\ \A d \in {"api1", "api2"} : WF_backfillVars(scenario = "backfill" /\ Backfills!Dispatch(d))
    /\ \A p \in 1..2 :
        /\ WF_backfillVars(scenario = "backfill" /\ Backfills!Ages(p))
        /\ WF_backfillVars(scenario = "backfill" /\ Backfills!MarkBackfill(p))
        /\ WF_backfillVars(scenario = "backfill" /\ \E end \in Backfills!Terminal : Backfills!RunEnds(p, end))
    /\ WF_pagingVars(scenario = "reads" /\ (Reads!StartRun("r1") \/ Reads!FetchSourcePage("r1")
                                            \/ Reads!SinksWrite("r1") \/ Reads!CommitSourceCursors("r1")))
    /\ WF_listVars(scenario = "lineage" /\ Lineage!Begin)
    /\ WF_listVars(scenario = "lineage" /\ Lineage!ReadPage)
    /\ WF_streamVars(scenario = "stream" /\ Streams!Workflow("x1"))
    /\ WF_sparkVars(scenario = "spark" /\ SparkJobs!Workflow("x1"))
    /\ WF_sparkVars(scenario = "spark" /\ (SparkJobs!Complete("x1") \/ SparkJobs!Fail("x1")))
    /\ WF_flinkVars(scenario = "flink" /\ Flink!Workflow)

FairSpec == Init /\ [][Next]_vars /\ Fairness

-----------------------------------------------------------------------------
(* The dispatchers bring their queues to an end.  Every row of the event   *)
(* outbox is delivered to every subscriber, through crashes, lost marks    *)
(* and locks that were left behind; every notification is delivered or is  *)
(* out of attempts; a pending partition of an open backfill is claimed or  *)
(* cancelled, although dispatchers crash between their steps.              *)
DispatchersFinish ==
    /\ scenario = "events" => Events!EventsAreDelivered
    /\ scenario = "alerts" => Alerts!RowsSettle
    /\ scenario = "backfill" => Backfills!PendingIsDispatched

(* runSource: a table larger than one run may read is read to its end, as  *)
(* a capped run saves its cursor; unless an unkeyed page is full of ties.  *)
(* lineage runs: every walk through the list ends although rows keep       *)
(* arriving.                                                               *)
ReadersFinish ==
    /\ scenario = "reads" => Reads!EveryRowArrives
    /\ scenario = "lineage" => Lineage!WalkEnds

(* drainSignals: a cancel that is in the channel before the last drain of  *)
(* its run ends a stream, and the records of a partition that was read     *)
(* once are all written in the end, unless the execution is cancelled or   *)
(* stays paused.  SparkJobWorkflow ends once its application does.         *)
(* FlinkJobWorkflow: a queued cancel ends the workflow when the run has    *)
(* polls left for all that is queued with it.                              *)
EnginesFinish ==
    /\ scenario = "stream" => Streams!CancelHeard /\ Streams!Drained
    /\ scenario = "spark" => SparkJobs!EveryJobEnds
    /\ scenario = "flink" => Flink!CancelEnds

(* FlinkJobWorkflow: a cancelled execution leaves no job running, a queued *)
(* rollback goes before a queued cancel, and what the status query answers *)
(* outlives a continue-as-new.                                             *)
FlinkControlled ==
    [][scenario = "flink" =>
        Flink!RollbackFirst /\ Flink!KeepsDesired /\ (Flink!TypeOK /\ Flink!CancelledIsSuspended)']_vars

=============================================================================
