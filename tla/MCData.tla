------------------------------- MODULE MCData -------------------------------
(* How records go through a run, side by side: the pages of a source, the  *)
(* keys of records seen by earlier runs (CrossRunDedupe, whose names are   *)
(* used as they are), the transforms, the accounts of a node, the writes   *)
(* of a sink, the batches of a stream and the snapshots of a Spark job.    *)
(* A behaviour takes the steps of the component that `scenario` names, and *)
(* leaves the others where they begin.                                     *)
EXTENDS CrossRunDedupe, TLC

VARIABLES
    scenario,
    table, saved, keyColumn, pageRun, delivered, fails,          \* SourcePaging
    sink, dest, heard, sinkNode, current, attempt,               \* SinkDelivery
    row, store, atts, step, tries, refs, node, output, cause,
    answered, unrecorded,                                        \* NodeRuns
    op, a, b, passed, joinKeys, out,                             \* Transforms
    offsets, sunk, batches, streamRow, streamFaults,             \* StreamDirect
    snapshot, sparkSink, written, state, app, spark, phase, submitLost, sparkFaults \* SparkJob

dedupeVars == <<keys, run, sent, dropped>>
pageVars == <<table, saved, keyColumn, pageRun, delivered, fails>>
sinkVars == <<sink, dest, heard, sinkNode, current, attempt>>
nodeVars == <<row, store, atts, step, tries, refs, node, output, cause, answered, unrecorded>>
transformVars == <<op, a, b, passed, joinKeys, out>>
streamVars == <<offsets, sunk, batches, streamRow, streamFaults>>
sparkVars == <<snapshot, sparkSink, written, state, app, spark, phase, submitLost, sparkFaults>>
allVars == <<scenario, dedupeVars, pageVars, sinkVars, nodeVars, transformVars, streamVars, sparkVars>>

Symmetric ==
    Permutations(Run) \cup Permutations(Node) \cup Permutations(Key) \cup Permutations(Version)

-----------------------------------------------------------------------------
(* Keyset paging in SQL; paging on the cursor column alone, with a key     *)
(* column added later; the MongoDB filter; a backfill window.              *)
TwoRuns == {"r1", "r2"}
Keyed == INSTANCE SourcePaging WITH
    run <- pageRun, Source <- "sql", PageSize <- 2, MaxPages <- 2, Window <- <<>>, KeyColumn <- TRUE,
    Edits <- {}, NullsFirst <- FALSE, Values <- {1, 2}, MaxKey <- 4, Run <- TwoRuns, MaxFails <- 1
Unkeyed == INSTANCE SourcePaging WITH
    run <- pageRun, Source <- "sql", PageSize <- 2, MaxPages <- 2, Window <- <<>>, KeyColumn <- FALSE,
    Edits <- {"add"}, NullsFirst <- FALSE, Values <- {1, 2}, MaxKey <- 4, Run <- TwoRuns, MaxFails <- 1
Mongo == INSTANCE SourcePaging WITH
    run <- pageRun, Source <- "mongo", PageSize <- 1, MaxPages <- 2, Window <- <<>>, KeyColumn <- TRUE,
    Edits <- {}, NullsFirst <- TRUE, Values <- {1, 2}, MaxKey <- 4, Run <- TwoRuns, MaxFails <- 1
Windowed == INSTANCE SourcePaging WITH
    run <- pageRun, Source <- "sql", PageSize <- 2, MaxPages <- 2, Window <- <<2, 4>>, KeyColumn <- FALSE,
    Edits <- {}, NullsFirst <- FALSE, Values <- {1, 2, 3, 4}, MaxKey <- 5, Run <- {"r1"}, MaxFails <- 1

(* Every sink; and those that stay correct when a timed-out attempt goes   *)
(* on writing.                                                             *)
EverySink == {"postgres", "postgres-key", "mysql-key", "snowflake", "clickhouse", "records", "webhook", "s3",
              "mongo", "kafka", "sftp", "gsheets-replace", "gsheets-append", "iceberg"}
Unordered == {"postgres-key", "mysql-key", "mongo", "records", "s3", "webhook", "kafka"}
Retries == INSTANCE SinkDelivery WITH
    node <- sinkNode, Sinks <- EverySink, Records <- 3, BatchRows <- 2, MaxAttempts <- 3, Overlap <- FALSE
Overlaps == INSTANCE SinkDelivery WITH
    node <- sinkNode, Sinks <- Unordered, Records <- 3, BatchRows <- 2, MaxAttempts <- 3, Overlap <- TRUE

(* A source of two pages and their consolidation; the same with attempts   *)
(* that overlap; a dispatched node with such attempts; a merge just over   *)
(* the limit of what is merged in memory; pages over both limits.          *)
Source2 == INSTANCE NodeRuns WITH
    dropped <- unrecorded, Kind <- "source", Pages <- <<2, 1>>, MaxAttempts <- 3, Overlap <- FALSE,
    MaxPayload <- 50, MaxMerge <- 50, Strategy <- "concat"
Stale == INSTANCE NodeRuns WITH
    dropped <- unrecorded, Kind <- "source", Pages <- <<1, 0>>, MaxAttempts <- 2, Overlap <- TRUE,
    MaxPayload <- 50, MaxMerge <- 50, Strategy <- "concat"
Dispatch == INSTANCE NodeRuns WITH
    dropped <- unrecorded, Kind <- "dispatch", Pages <- <<2>>, MaxAttempts <- 3, Overlap <- TRUE,
    MaxPayload <- 50, MaxMerge <- 50, Strategy <- "concat"
Merge == INSTANCE NodeRuns WITH
    dropped <- unrecorded, Kind <- "merge", Pages <- <<2, 2>>, MaxAttempts <- 3, Overlap <- FALSE,
    MaxPayload <- 50, MaxMerge <- 9, Strategy <- "concat"
Limits == INSTANCE NodeRuns WITH
    dropped <- unrecorded, Kind <- "source", Pages <- <<2, 1>>, MaxAttempts <- 2, Overlap <- FALSE,
    MaxPayload <- 4, MaxMerge <- 6, Strategy <- "concat"

(* Inputs with and without the fields, null values and scalars.            *)
Record(fields) == [object |-> TRUE, f |-> fields]
NoRecord == [object |-> FALSE, f |-> <<>>]
Typed == {Record([id |-> 1, v |-> "text"]), Record([id |-> 2, v |-> "num"]), Record([id |-> 1, v |-> "null"]),
          Record([id |-> 1]), Record([v |-> "text"]), NoRecord}
LeftRows == {Record([id |-> 1, v |-> "x"]), Record([id |-> 1, v |-> "y"]), Record([id |-> 2, v |-> "x"]),
             Record([v |-> "x"]), NoRecord}
RightRows == {Record([id |-> 1, w |-> "p"]), Record([id |-> 2, v |-> "q"]), Record([id |-> 3, w |-> "p"]),
              Record([id |-> 1, v |-> "x"]), Record([w |-> "p"]), NoRecord}
RowOps == {[name |-> "dedupe", mode |-> k] : k \in {"first", "last"}}
          \cup {[name |-> "contract", mode |-> m, schema |-> [v |-> [kind |-> k, optional |-> o]]] :
                   m \in {"fail", "drop", "quarantine"}, k \in {"any", "string", "number"}, o \in BOOLEAN}
MergeOps == {[name |-> "merge", mode |-> m] :
                m \in {"concat", "union", "appendWithSourceTag", "innerJoin", "leftJoin", "outerJoin"}}
OneOp == {[name |-> "dedupe", mode |-> "first"]}
Rows == INSTANCE Transforms WITH Ops <- RowOps, Left <- Typed, Right <- RightRows, MaxRows <- 4
Merges == INSTANCE Transforms WITH Ops <- MergeOps, Left <- LeftRows, Right <- RightRows, MaxRows <- 2
NoRows == INSTANCE Transforms WITH Ops <- OneOp, Left <- Typed, Right <- RightRows, MaxRows <- 0

(* Two executions of a stream of three records in two partitions; and two  *)
(* executions of a Spark job while its source grows twice.                 *)
Streams == INSTANCE StreamDirect WITH
    cursor <- offsets, wf <- batches, row <- streamRow, faults <- streamFaults,
    Execution <- {"x1", "x2"}, Partition <- {"p1", "p2"}, HighWater <- [p \in {"p1", "p2"} |-> IF p = "p1" THEN 2 ELSE 1],
    Page <- 2, ContinueAfter <- 2, MaxRequests <- 0, MaxFaults <- 1
SparkJobs == INSTANCE SparkJob WITH
    table <- snapshot, sink <- sparkSink, wf <- spark, lost <- submitLost, faults <- sparkFaults,
    Execution <- {"x1", "x2"}, MaxSnapshot <- 3, MaxAttempts <- 2, MaxLost <- 0, MaxFaults <- 1

ASSUME DataAssumption ==
    /\ Keyed!PagingAssumption /\ Unkeyed!PagingAssumption /\ Mongo!PagingAssumption /\ Windowed!PagingAssumption
    /\ Retries!SinkAssumption /\ Overlaps!SinkAssumption
    /\ Source2!NodeRunsAssumption /\ Stale!NodeRunsAssumption /\ Dispatch!NodeRunsAssumption
    /\ Merge!NodeRunsAssumption /\ Limits!NodeRunsAssumption
    /\ Rows!TransformsAssumption /\ Merges!TransformsAssumption
    /\ Streams!StreamAssumption /\ SparkJobs!SparkAssumption

-----------------------------------------------------------------------------
AllInit ==
    /\ scenario \in {"dedupe", "keyed", "unkeyed", "mongo", "window", "retries", "overlaps",
                     "source", "stale", "dispatch", "merge", "limits", "rows", "merges",
                     "streams", "spark jobs"}
    /\ Init /\ Streams!Init
    /\ SparkJobs!Init /\ (scenario # "spark jobs" => snapshot = 1)
    /\ CASE scenario = "unkeyed" -> Unkeyed!Init
         [] scenario = "mongo" -> Mongo!Init
         [] scenario = "window" -> Windowed!Init
         [] OTHER -> Keyed!Init
    /\ CASE scenario = "retries" -> Retries!Init
         [] scenario = "overlaps" -> Overlaps!Init
         [] OTHER -> Retries!Init /\ sink = "s3"
    /\ CASE scenario = "stale" -> Stale!Init
         [] scenario = "dispatch" -> Dispatch!Init
         [] scenario = "merge" -> Merge!Init
         [] scenario = "limits" -> Limits!Init
         [] OTHER -> Source2!Init
    /\ CASE scenario = "rows" -> Rows!Init
         [] scenario = "merges" -> Merges!Init
         [] OTHER -> NoRows!Init

DedupeStep ==
    /\ scenario = "dedupe" /\ Next
    /\ UNCHANGED <<scenario, pageVars, sinkVars, nodeVars, transformVars, streamVars, sparkVars>>

PageStep ==
    /\ \/ scenario = "keyed" /\ Keyed!Next
       \/ scenario = "unkeyed" /\ Unkeyed!Next
       \/ scenario = "mongo" /\ Mongo!Next
       \/ scenario = "window" /\ Windowed!Next
    /\ UNCHANGED <<scenario, dedupeVars, sinkVars, nodeVars, transformVars, streamVars, sparkVars>>

SinkStep ==
    /\ \/ scenario = "retries" /\ Retries!Next
       \/ scenario = "overlaps" /\ Overlaps!Next
    /\ UNCHANGED <<scenario, dedupeVars, pageVars, nodeVars, transformVars, streamVars, sparkVars>>

NodeStep ==
    /\ \/ scenario = "source" /\ Source2!Next
       \/ scenario = "stale" /\ Stale!Next
       \/ scenario = "dispatch" /\ Dispatch!Next
       \/ scenario = "merge" /\ Merge!Next
       \/ scenario = "limits" /\ Limits!Next
    /\ UNCHANGED <<scenario, dedupeVars, pageVars, sinkVars, transformVars, streamVars, sparkVars>>

TransformStep ==
    /\ \/ scenario = "rows" /\ Rows!Next
       \/ scenario = "merges" /\ Merges!Next
    /\ UNCHANGED <<scenario, dedupeVars, pageVars, sinkVars, nodeVars, streamVars, sparkVars>>

StreamStep ==
    /\ scenario = "streams" /\ Streams!Next
    /\ UNCHANGED <<scenario, dedupeVars, pageVars, sinkVars, nodeVars, transformVars, sparkVars>>

SparkStep ==
    /\ scenario = "spark jobs" /\ SparkJobs!Next
    /\ UNCHANGED <<scenario, dedupeVars, pageVars, sinkVars, nodeVars, transformVars, streamVars>>

AllNext == DedupeStep \/ PageStep \/ SinkStep \/ NodeStep \/ TransformStep \/ StreamStep \/ SparkStep
AllSpec == AllInit /\ [][AllNext]_allVars

-----------------------------------------------------------------------------
(* planIncrementalPage, CommitSourceCursors: what the saved cursor will    *)
(* not select any more has reached the sinks, in spite of ties, of failing *)
(* runs, and of runs that overlap; and a run reads no row twice.           *)
PagesExact ==
    /\ scenario = "keyed" => Keyed!SavedIsDelivered /\ Keyed!ReadOnce
    /\ scenario = "unkeyed" => Unkeyed!SavedIsDelivered /\ Unkeyed!ReadOnce
    /\ scenario = "mongo" => Mongo!SavedIsDelivered /\ Mongo!ReadOnce
    /\ scenario = "window" => Windowed!TypeOK /\ Windowed!SavedIsDelivered

(* A sink node that succeeded has put every record where it belongs,       *)
(* whatever its earlier attempts left behind.  The sinks that write at     *)
(* once show all records of an attempt or none, and those that recognise a *)
(* repeated delivery never show a record twice.                            *)
SinksDeliver ==
    /\ scenario = "retries" =>
        /\ Retries!TypeOK /\ Retries!SuccessIsDelivered
        /\ Retries!AllOrNone /\ Retries!OnceIfRecognised
    /\ scenario = "overlaps" => Overlaps!SuccessIsDelivered /\ Overlaps!OnceIfRecognised

(* recordNodeRun: the row of a node that succeeded counts the records of   *)
(* its output once, however pages were retried before, and a node that     *)
(* failed is shown as failed, although pages of it were recorded as        *)
(* successes.  The output of a node is what the answered attempts wrote,   *)
(* never what a stale attempt wrote before or after them.                  *)
NodesReported ==
    /\ scenario = "source" => /\ Source2!TypeOK /\ Source2!SuccessCounted
                              /\ Source2!FailureVisible /\ Source2!OutputIsAnswered
    /\ scenario = "merge" => Merge!SuccessCounted /\ Merge!FailureVisible /\ Merge!OutputIsAnswered
    /\ scenario = "limits" => Limits!FailureVisible
    /\ scenario = "stale" => Stale!OutputIsAnswered
    /\ scenario = "dispatch" => Dispatch!OutputIsAnswered

(* dedupeHandler: one record for each key, the first or the last, in the   *)
(* order in which the keys appear.  contractHandler: what passes conforms, *)
(* what does not is counted, and the order is kept.  MergeArrays: concat,  *)
(* union and tagged append against their definitions, and with unique keys *)
(* the joins are the relational ones.                                      *)
TransformsAgree ==
    /\ scenario = "rows" => Rows!TypeOK /\ Rows!DedupeReference /\ Rows!ContractReference
    /\ scenario = "merges" => Merges!MergeReference /\ Merges!JoinReference

(* StreamDirectWorkflow: every offset up to the committed one has been     *)
(* written by the sink, although batches fail half way, commits are lost,  *)
(* and two executions read and commit in any order; and a commit never     *)
(* moves an offset back, nor forgets a partition, but for first commits    *)
(* that overwrite each other.  CommitSparkJob: every snapshot up to the    *)
(* committed one is in the sink, and an execution that says it completed   *)
(* leaves everything of the snapshot it read, and before it, there.        *)
EnginesSkipNothing ==
    [][/\ scenario = "streams" => Streams!OffsetsAdvance /\ (Streams!TypeOK /\ Streams!NothingSkipped)'
       /\ scenario = "spark jobs" =>
            (SparkJobs!TypeOK /\ SparkJobs!NothingSkipped /\ SparkJobs!CompletedHasOutput)']_allVars

=============================================================================
