--------------------------- MODULE DataSuiteProofs ---------------------------
(***************************************************************************)
(* The data suite that TLC runs, by proof: the sinks, nodes, pages,        *)
(* engines and transforms of MCData, with the constants of the run, are    *)
(* instances of DataProofs, and a behaviour of the suite is one of the     *)
(* component that `scenario` names. Each instance of DataProofs stands     *)
(* before the lemmas about its components: that they are those of MCData,  *)
(* that its parameters are admitted, that its invariants begin to hold and *)
(* are kept, and what they show. A theorem of the suite follows the last   *)
(* instance that it needs.                                                 *)
(***************************************************************************)
EXTENDS MCData, FiniteSetTheorems, TLAPS

-----------------------------------------------------------------------------
(* The data suite: a step of it is a step of the sink, the node or the     *)
(* pages its behaviour is about.                                           *)
LEMMA DataSteps ==
  ASSUME [AllNext]_allVars
  PROVE  /\ scenario' = scenario
         /\ scenario = "retries" => [Retries!Next]_(Retries!vars)
         /\ scenario = "overlaps" => [Overlaps!Next]_(Overlaps!vars)
         /\ scenario = "source" => [Source2!Next]_(Source2!vars)
         /\ scenario = "stale" => [Stale!Next]_(Stale!vars)
         /\ scenario = "dispatch" => [Dispatch!Next]_(Dispatch!vars)
         /\ scenario = "merge" => [Merge!Next]_(Merge!vars)
         /\ scenario = "limits" => [Limits!Next]_(Limits!vars)
         /\ scenario = "keyed" => [Keyed!Next]_(Keyed!vars)
         /\ scenario = "unkeyed" => [Unkeyed!Next]_(Unkeyed!vars)
         /\ scenario = "mongo" => [Mongo!Next]_(Mongo!vars)
         /\ scenario = "window" => [Windowed!Next]_(Windowed!vars)
  <1>1. \/ DedupeStep \/ PageStep \/ SinkStep \/ NodeStep \/ TransformStep \/ StreamStep \/ SparkStep
        \/ UNCHANGED allVars
    BY Zenon DEF AllNext
  <1>2. scenario' = scenario
    BY <1>1, Zenon DEF allVars, DedupeStep, PageStep, SinkStep, NodeStep, TransformStep, StreamStep, SparkStep
  <1>3. \/ scenario = "retries" /\ Retries!Next
        \/ scenario = "overlaps" /\ Overlaps!Next
        \/ UNCHANGED sinkVars
    BY <1>1, Zenon DEF allVars, DedupeStep, PageStep, SinkStep, NodeStep, TransformStep, StreamStep, SparkStep
  <1>4. \/ scenario = "source" /\ Source2!Next
        \/ scenario = "stale" /\ Stale!Next
        \/ scenario = "dispatch" /\ Dispatch!Next
        \/ scenario = "merge" /\ Merge!Next
        \/ scenario = "limits" /\ Limits!Next
        \/ UNCHANGED nodeVars
    BY <1>1, Zenon DEF allVars, DedupeStep, PageStep, SinkStep, NodeStep, TransformStep, StreamStep, SparkStep
  <1>5. Retries!vars = sinkVars /\ Overlaps!vars = sinkVars
    BY DEF sinkVars, Retries!vars, Overlaps!vars
  <1>6. /\ Source2!vars = nodeVars /\ Stale!vars = nodeVars /\ Dispatch!vars = nodeVars
        /\ Merge!vars = nodeVars /\ Limits!vars = nodeVars
    BY DEF nodeVars, Source2!vars, Stale!vars, Dispatch!vars, Merge!vars, Limits!vars
  <1>7. /\ scenario = "retries" => [Retries!Next]_(Retries!vars)
        /\ scenario = "overlaps" => [Overlaps!Next]_(Overlaps!vars)
    BY <1>3 DEF sinkVars, Retries!vars, Overlaps!vars
  <1>8. /\ scenario = "source" => [Source2!Next]_(Source2!vars)
        /\ scenario = "stale" => [Stale!Next]_(Stale!vars)
        /\ scenario = "dispatch" => [Dispatch!Next]_(Dispatch!vars)
        /\ scenario = "merge" => [Merge!Next]_(Merge!vars)
        /\ scenario = "limits" => [Limits!Next]_(Limits!vars)
    BY <1>4 DEF nodeVars, Source2!vars, Stale!vars, Dispatch!vars, Merge!vars, Limits!vars
  <1>9. \/ scenario = "keyed" /\ Keyed!Next
        \/ scenario = "unkeyed" /\ Unkeyed!Next
        \/ scenario = "mongo" /\ Mongo!Next
        \/ scenario = "window" /\ Windowed!Next
        \/ UNCHANGED pageVars
    BY <1>1, Zenon DEF allVars, DedupeStep, PageStep, SinkStep, NodeStep, TransformStep, StreamStep, SparkStep
  <1>10. /\ scenario = "keyed" => [Keyed!Next]_(Keyed!vars)
         /\ scenario = "unkeyed" => [Unkeyed!Next]_(Unkeyed!vars)
         /\ scenario = "mongo" => [Mongo!Next]_(Mongo!vars)
         /\ scenario = "window" => [Windowed!Next]_(Windowed!vars)
    BY <1>9 DEF pageVars, Keyed!vars, Unkeyed!vars, Mongo!vars, Windowed!vars
  <1> QED BY <1>2, <1>7, <1>8, <1>10

(* It begins where the component begins.                                   *)
LEMMA DataStarts ==
  AllInit => /\ scenario = "retries" => Retries!Init
             /\ scenario = "overlaps" => Overlaps!Init
             /\ scenario = "source" => Source2!Init
             /\ scenario = "stale" => Stale!Init
             /\ scenario = "dispatch" => Dispatch!Init
             /\ scenario = "merge" => Merge!Init
             /\ scenario = "limits" => Limits!Init
             /\ scenario = "keyed" => Keyed!Init
             /\ scenario = "unkeyed" => Unkeyed!Init
             /\ scenario = "mongo" => Mongo!Init
             /\ scenario = "window" => Windowed!Init
  BY Zenon DEF AllInit

(* FetchSourcePage, by what its page holds.                                *)
PageFetched(size, max, r, rows, kept, next, tied, resumable, idle) ==
    /\ pageRun[r].at = "reading"
    /\ IF tied \/ (Len(rows) > size /\ pageRun[r].pages + 1 >= max /\ ~ resumable)
       THEN pageRun' = [pageRun EXCEPT ![r] = idle]
       ELSE pageRun' = [pageRun EXCEPT ![r].at = IF Len(rows) > size /\ pageRun[r].pages + 1 < max
                                                 THEN "reading" ELSE "read",
                                       ![r].cursor = next, ![r].got = @ \o kept,
                                       ![r].pages = pageRun[r].pages + 1]
    /\ UNCHANGED <<table, saved, keyColumn, delivered, fails>>

-----------------------------------------------------------------------------
(* The sizes of the streams and of the Spark jobs in MCData, and the       *)
(* operations and the inputs of its transforms.                            *)
Executions == {"x1", "x2"}
Partitions == {"p1", "p2"}
HighWater == [p \in {"p1", "p2"} |-> IF p = "p1" THEN 2 ELSE 1]
StreamPage == 2
ContinueAfter == 2
MaxRequests == 0
MaxStreamFaults == 1
MaxSnapshot == 3
SparkAttempts == 2
MaxLost == 0
MaxSparkFaults == 1
Ops == RowOps \cup MergeOps
LeftRecords == Typed \cup LeftRows
RightRecords == RightRows
InputRows == 4

Plain == INSTANCE DataProofs WITH
    Sinks <- EverySink, Records <- 3, BatchRows <- 2, SinkAttempts <- 3, SinkOverlap <- FALSE,
    Kind <- "source", Pages <- <<2, 1>>, NodeAttempts <- 3, NodeOverlap <- FALSE,
    MaxPayload <- 50, MaxMerge <- 50, Strategy <- "concat",
    Source <- "sql", PageSize <- 2, MaxPages <- 2, Window <- <<>>, KeyColumn <- TRUE, Edits <- {},
    NullsFirst <- FALSE, Values <- {1, 2}, MaxKey <- 4, Run <- TwoRuns, MaxFails <- 1

LEMMA RetriesSame ==
  /\ Retries!Init <=> Plain!Sink!Init
  /\ [Retries!Next]_(Retries!vars) <=> [Plain!Sink!Next]_(Plain!Sink!vars)
  /\ Retries!TypeOK <=> Plain!Sink!TypeOK
  /\ Retries!SuccessIsDelivered <=> Plain!Sink!SuccessIsDelivered
  /\ Retries!AllOrNone <=> Plain!Sink!AllOrNone
  /\ Retries!OnceIfRecognised <=> Plain!Sink!OnceIfRecognised
  <1>1. Retries!Init <=> Plain!Sink!Init
    BY Zenon DEF
      Retries!Init, Plain!Sink!Init, Retries!Record, Plain!Sink!Record, Retries!Attempt, Plain!Sink!Attempt,
      Retries!Waiting, Plain!Sink!Waiting
  <1>2. [Retries!Next]_(Retries!vars) <=> [Plain!Sink!Next]_(Plain!Sink!vars)
    BY Zenon DEF
      Retries!Next, Plain!Sink!Next, Retries!vars, Plain!Sink!vars, Retries!Attempt, Plain!Sink!Attempt,
      Retries!InsertBatch, Plain!Sink!InsertBatch, Retries!CommitTx, Plain!Sink!CommitTx, Retries!BulkWrite,
      Plain!Sink!BulkWrite, Retries!ClickhouseInsert, Plain!Sink!ClickhouseInsert, Retries!RecordsInsert,
      Plain!Sink!RecordsInsert, Retries!PutObject, Plain!Sink!PutObject, Retries!WebhookPost, Plain!Sink!WebhookPost,
      Retries!Produce, Plain!Sink!Produce, Retries!Truncate, Plain!Sink!Truncate, Retries!Fill, Plain!Sink!Fill,
      Retries!SheetAppend, Plain!Sink!SheetAppend, Retries!IcebergLoad, Plain!Sink!IcebergLoad,
      Retries!IcebergAppend, Plain!Sink!IcebergAppend, Retries!Answer, Plain!Sink!Answer, Retries!AttemptEnds,
      Plain!Sink!AttemptEnds, Retries!Retry, Plain!Sink!Retry, Retries!Transactional, Plain!Sink!Transactional,
      Retries!Open, Plain!Sink!Open, Retries!Batch, Plain!Sink!Batch, Retries!AfterBatch, Plain!Sink!AfterBatch,
      Retries!CommitReady, Plain!Sink!CommitReady, Retries!Inserted, Plain!Sink!Inserted, Retries!Record,
      Plain!Sink!Record, Retries!Goto, Plain!Sink!Goto, Retries!Upserted, Plain!Sink!Upserted, Retries!Added,
      Plain!Sink!Added, Retries!IdempotencyKey, Plain!Sink!IdempotencyKey, Retries!ProducedAll,
      Plain!Sink!ProducedAll, Retries!Committed, Plain!Sink!Committed
  <1>3. Retries!TypeOK <=> Plain!Sink!TypeOK
    BY Zenon DEF
      Retries!TypeOK, Plain!Sink!TypeOK, Retries!Record, Plain!Sink!Record, Retries!Attempt, Plain!Sink!Attempt
  <1>4. Retries!SuccessIsDelivered <=> Plain!Sink!SuccessIsDelivered
    BY Zenon DEF
      Retries!SuccessIsDelivered, Plain!Sink!SuccessIsDelivered, Retries!Record, Plain!Sink!Record
  <1>5. Retries!AllOrNone <=> Plain!Sink!AllOrNone
    BY Zenon DEF
      Retries!AllOrNone, Plain!Sink!AllOrNone, Retries!Whole, Plain!Sink!Whole, Retries!Record, Plain!Sink!Record,
      Retries!Transactional, Plain!Sink!Transactional, Retries!OneRequest, Plain!Sink!OneRequest
  <1>6. Retries!OnceIfRecognised <=> Plain!Sink!OnceIfRecognised
    BY Zenon DEF
      Retries!OnceIfRecognised, Plain!Sink!OnceIfRecognised, Retries!Recognising, Plain!Sink!Recognising,
      Retries!Record, Plain!Sink!Record
  <1> QED BY <1>1, <1>2, <1>3, <1>4, <1>5, <1>6

LEMMA SourceSame ==
  /\ Source2!Init <=> Plain!Node!Init
  /\ [Source2!Next]_(Source2!vars) <=> [Plain!Node!Next]_(Plain!Node!vars)
  /\ Source2!TypeOK <=> Plain!Node!TypeOK
  /\ Source2!SuccessCounted <=> Plain!Node!SuccessCounted
  /\ Source2!FailureVisible <=> Plain!Node!FailureVisible
  /\ Source2!OutputIsAnswered <=> Plain!Node!OutputIsAnswered
  <1>1. Source2!Init <=> Plain!Node!Init
    BY Zenon DEF
      Source2!Init, Plain!Node!Init, Source2!NoRow, Plain!Node!NoRow, Source2!Inputs, Plain!Node!Inputs,
      Source2!Consolidate, Plain!Node!Consolidate, Source2!Given, Plain!Node!Given, Source2!FlattenSeq,
      Plain!Node!FlattenSeq, Source2!FoldSeq, Plain!Node!FoldSeq, Source2!FoldFunction, Plain!Node!FoldFunction,
      Source2!FoldFunctionOnSet, Plain!Node!FoldFunctionOnSet, Source2!MapThenFoldSet, Plain!Node!MapThenFoldSet,
      Source2!Reverse, Plain!Node!Reverse
  <1>2. [Source2!Next]_(Source2!vars) <=> [Plain!Node!Next]_(Plain!Node!vars)
    BY Zenon DEF
      Source2!Next, Plain!Node!Next, Source2!vars, Plain!Node!vars, Source2!Attempt, Plain!Node!Attempt,
      Source2!Refused, Plain!Node!Refused, Source2!HandlerFails, Plain!Node!HandlerFails, Source2!TooLarge,
      Plain!Node!TooLarge, Source2!MergeLimit, Plain!Node!MergeLimit, Source2!Write, Plain!Node!Write,
      Source2!WriteFails, Plain!Node!WriteFails, Source2!Record, Plain!Node!Record, Source2!Answer,
      Plain!Node!Answer, Source2!Lost, Plain!Node!Lost, Source2!Of, Plain!Node!Of, Source2!Fail, Plain!Node!Fail,
      Source2!Recorded, Plain!Node!Recorded, Source2!Readable, Plain!Node!Readable, Source2!Oversized,
      Plain!Node!Oversized, Source2!MergeAccepted, Plain!Node!MergeAccepted, Source2!PayloadWrite,
      Plain!Node!PayloadWrite, Source2!Computed, Plain!Node!Computed, Source2!PayloadKey, Plain!Node!PayloadKey,
      Source2!Stage, Plain!Node!Stage, Source2!Consolidate, Plain!Node!Consolidate, Source2!RecordNodeRun,
      Plain!Node!RecordNodeRun, Source2!Size, Plain!Node!Size, Source2!StreamFits, Plain!Node!StreamFits,
      Source2!RecordCount, Plain!Node!RecordCount, Source2!NoRow, Plain!Node!NoRow, Source2!FlattenSeq,
      Plain!Node!FlattenSeq, Source2!FoldSeq, Plain!Node!FoldSeq, Source2!FoldFunction, Plain!Node!FoldFunction,
      Source2!FoldFunctionOnSet, Plain!Node!FoldFunctionOnSet, Source2!MapThenFoldSet, Plain!Node!MapThenFoldSet,
      Source2!Reverse, Plain!Node!Reverse
  <1>3. Source2!TypeOK <=> Plain!Node!TypeOK
    BY Zenon DEF
      Source2!TypeOK, Plain!Node!TypeOK, Source2!Consolidate, Plain!Node!Consolidate, Source2!Stages,
      Plain!Node!Stages, Source2!FlattenSeq, Plain!Node!FlattenSeq, Source2!FoldSeq, Plain!Node!FoldSeq,
      Source2!FoldFunction, Plain!Node!FoldFunction, Source2!FoldFunctionOnSet, Plain!Node!FoldFunctionOnSet,
      Source2!MapThenFoldSet, Plain!Node!MapThenFoldSet, Source2!Reverse, Plain!Node!Reverse
  <1>4. Source2!SuccessCounted <=> Plain!Node!SuccessCounted
    BY Zenon DEF
      Source2!SuccessCounted, Plain!Node!SuccessCounted, Source2!FlattenSeq, Plain!Node!FlattenSeq, Source2!FoldSeq,
      Plain!Node!FoldSeq, Source2!FoldFunction, Plain!Node!FoldFunction, Source2!FoldFunctionOnSet,
      Plain!Node!FoldFunctionOnSet, Source2!MapThenFoldSet, Plain!Node!MapThenFoldSet, Source2!Reverse,
      Plain!Node!Reverse
  <1>5. Source2!FailureVisible <=> Plain!Node!FailureVisible
    BY Zenon DEF
      Source2!FailureVisible, Plain!Node!FailureVisible, Source2!FlattenSeq, Plain!Node!FlattenSeq, Source2!FoldSeq,
      Plain!Node!FoldSeq, Source2!FoldFunction, Plain!Node!FoldFunction, Source2!FoldFunctionOnSet,
      Plain!Node!FoldFunctionOnSet, Source2!MapThenFoldSet, Plain!Node!MapThenFoldSet, Source2!Reverse,
      Plain!Node!Reverse
  <1>6. Source2!OutputIsAnswered <=> Plain!Node!OutputIsAnswered
    BY Zenon DEF
      Source2!OutputIsAnswered, Plain!Node!OutputIsAnswered, Source2!FlattenSeq, Plain!Node!FlattenSeq,
      Source2!FoldSeq, Plain!Node!FoldSeq, Source2!FoldFunction, Plain!Node!FoldFunction, Source2!FoldFunctionOnSet,
      Plain!Node!FoldFunctionOnSet, Source2!MapThenFoldSet, Plain!Node!MapThenFoldSet, Source2!Reverse,
      Plain!Node!Reverse
  <1> QED BY <1>1, <1>2, <1>3, <1>4, <1>5, <1>6

LEMMA KeyedSame ==
  /\ Keyed!Init <=> Plain!Paging!Init
  /\ [Keyed!Next]_(Keyed!vars) <=> [Plain!Paging!Next]_(Plain!Paging!vars)
  /\ Keyed!SavedIsDelivered <=> Plain!Paging!SavedIsDelivered
  /\ Keyed!ReadOnce <=> Plain!Paging!ReadOnce
  <1>1. Keyed!Init <=> Plain!Paging!Init
    BY Zenon DEF
      Keyed!Init, Plain!Paging!Init, Keyed!Idle, Plain!Paging!Idle, Keyed!NoCursor, Plain!Paging!NoCursor,
      Keyed!Null, Plain!Paging!Null
  <1>2. Keyed!Keyed = Plain!Paging!Keyed
    BY Zenon DEF
      Keyed!Keyed, Plain!Paging!Keyed
  <1>3. Keyed!Idle = Plain!Paging!Idle /\ Keyed!NoCursor = Plain!Paging!NoCursor
    BY Zenon DEF
      Keyed!Idle, Plain!Paging!Idle, Keyed!NoCursor, Plain!Paging!NoCursor, Keyed!Null, Plain!Paging!Null
  <1>4. \A cur, keyed : Keyed!Selected(cur, keyed) = Plain!Paging!Selected(cur, keyed)
    BY Zenon DEF
      Keyed!Selected, Plain!Paging!Selected, Keyed!Selects, Plain!Paging!Selects, Keyed!PlanIncrementalPage,
      Plain!Paging!PlanIncrementalPage, Keyed!SnowflakeWhere, Plain!Paging!SnowflakeWhere, Keyed!MongoPageFilter,
      Plain!Paging!MongoPageFilter, Keyed!InWindow, Plain!Paging!InWindow, Keyed!After, Plain!Paging!After,
      Keyed!Null, Plain!Paging!Null, Keyed!NoCursor, Plain!Paging!NoCursor
  <1>5. \A cur, keyed : Keyed!Query(cur, keyed) = Plain!Paging!Query(cur, keyed)
    <2> TAKE cur, keyed
    <2> DEFINE Ordered(S) == [i \in 1..Plain!Paging!Min({Plain!Paging!Cardinality(S), 2 + 1}) |->
                                 CHOOSE x \in S : Plain!Paging!Place(x, S) = i]
    <2>1. Keyed!Query(cur, keyed) = Ordered(Keyed!Selected(cur, keyed))
      BY Zenon DEF
        Keyed!Query, Keyed!Cardinality, Plain!Paging!Cardinality, Keyed!Min, Plain!Paging!Min,
        Keyed!Place, Plain!Paging!Place, Keyed!Precedes, Plain!Paging!Precedes, Keyed!Null, Plain!Paging!Null
    <2>2. Plain!Paging!Query(cur, keyed) = Ordered(Plain!Paging!Selected(cur, keyed))
      BY Zenon DEF Plain!Paging!Query
    <2> HIDE DEF Ordered
    <2> QED BY <1>4, <2>1, <2>2, Zenon
  <1>6. \A rows : Keyed!PageEnd(rows) = Plain!Paging!PageEnd(rows)
    BY Zenon DEF
      Keyed!PageEnd, Plain!Paging!PageEnd, Keyed!Min, Plain!Paging!Min
  <1>7. \A rows, keyed : Keyed!Kept(rows, keyed) = Plain!Paging!Kept(rows, keyed)
    BY <1>6, Zenon DEF
      Keyed!Kept, Plain!Paging!Kept
  <1>8. \A rows, keyed : Keyed!TooManyTies(rows, keyed) <=> Plain!Paging!TooManyTies(rows, keyed)
    BY <1>7, Zenon DEF
      Keyed!TooManyTies, Plain!Paging!TooManyTies
  <1>9. \A cur, kept, keyed : Keyed!NextCursor(cur, kept, keyed) = Plain!Paging!NextCursor(cur, kept, keyed)
    BY Zenon DEF
      Keyed!NextCursor, Plain!Paging!NextCursor
  <1>10. \A cur : Keyed!ResumableSource(cur) <=> Plain!Paging!ResumableSource(cur)
    BY Zenon DEF
      Keyed!ResumableSource, Plain!Paging!ResumableSource, Keyed!NoCursor, Plain!Paging!NoCursor, Keyed!Null,
      Plain!Paging!Null
  <1>11. \A c : Keyed!InsertRow(c) <=> Plain!Paging!InsertRow(c)
    BY Zenon DEF
      Keyed!InsertRow, Plain!Paging!InsertRow, Keyed!AlwaysKeyed, Plain!Paging!AlwaysKeyed, Keyed!Null,
      Plain!Paging!Null, Keyed!Cardinality, Plain!Paging!Cardinality
  <1>12. \A c, n : Keyed!InsertTies(c, n) <=> Plain!Paging!InsertTies(c, n)
    BY Zenon DEF
      Keyed!InsertTies, Plain!Paging!InsertTies, Keyed!Cardinality, Plain!Paging!Cardinality
  <1>13. \A edit : Keyed!EditKeyColumn(edit) <=> Plain!Paging!EditKeyColumn(edit)
    BY Zenon DEF
      Keyed!EditKeyColumn, Plain!Paging!EditKeyColumn
  <1>14. \A r : Keyed!StartRun(r) <=> Plain!Paging!StartRun(r)
    BY Zenon DEF
      Keyed!StartRun, Plain!Paging!StartRun, Keyed!Start, Plain!Paging!Start,
      Keyed!Keyed, Plain!Paging!Keyed, Keyed!Idle, Plain!Paging!Idle,
      Keyed!NoCursor, Plain!Paging!NoCursor, Keyed!Null, Plain!Paging!Null
  <1>15. \A r : Keyed!SinksWrite(r) <=> Plain!Paging!SinksWrite(r)
    BY Zenon DEF
      Keyed!SinksWrite, Plain!Paging!SinksWrite, Keyed!Range, Plain!Paging!Range
  <1>16. \A r : Keyed!CommitSourceCursors(r) <=> Plain!Paging!CommitSourceCursors(r)
    BY Zenon DEF
      Keyed!CommitSourceCursors, Plain!Paging!CommitSourceCursors, Keyed!Idle, Plain!Paging!Idle, Keyed!NoCursor,
      Plain!Paging!NoCursor, Keyed!Null, Plain!Paging!Null
  <1>17. \A r : Keyed!RunFails(r) <=> Plain!Paging!RunFails(r)
    BY Zenon DEF
      Keyed!RunFails, Plain!Paging!RunFails, Keyed!Idle, Plain!Paging!Idle, Keyed!NoCursor, Plain!Paging!NoCursor,
      Keyed!Null, Plain!Paging!Null
  <1>18. \A r : Keyed!FetchSourcePage(r) <=> Plain!Paging!FetchSourcePage(r)
    <2> TAKE r
    <2> DEFINE p == pageRun[r]
               rows == Keyed!Query(p.cursor, p.keyed)
               kept == Keyed!Kept(rows, p.keyed)
               next == Keyed!NextCursor(p.cursor, kept, p.keyed)
               rows2 == Plain!Paging!Query(p.cursor, p.keyed)
               kept2 == Plain!Paging!Kept(rows2, p.keyed)
               next2 == Plain!Paging!NextCursor(p.cursor, kept2, p.keyed)
    <2>1. Keyed!FetchSourcePage(r) <=>
              PageFetched(2, 2, r, rows, kept, next, Keyed!TooManyTies(rows, p.keyed),
                          Keyed!ResumableSource(next), Keyed!Idle)
      BY Zenon DEF Keyed!FetchSourcePage, PageFetched
    <2>2. Plain!Paging!FetchSourcePage(r) <=>
              PageFetched(2, 2, r, rows2, kept2, next2, Plain!Paging!TooManyTies(rows2, p.keyed),
                          Plain!Paging!ResumableSource(next2), Plain!Paging!Idle)
      BY Zenon DEF Plain!Paging!FetchSourcePage, PageFetched
    <2>3. rows = rows2 /\ kept = kept2 /\ next = next2
      BY <1>5, <1>7, <1>9, Zenon
    <2>4. /\ Keyed!Idle = Plain!Paging!Idle /\ Keyed!ResumableSource(next) = Plain!Paging!ResumableSource(next2)
          /\ Keyed!TooManyTies(rows, p.keyed) = Plain!Paging!TooManyTies(rows2, p.keyed)
      BY <2>3, <1>3, <1>8, <1>10, Zenon DEF Keyed!ResumableSource, Plain!Paging!ResumableSource, Keyed!TooManyTies, Plain!Paging!TooManyTies
    <2> QED BY <2>1, <2>2, <2>3, <2>4, Zenon
  <1>19. [Keyed!Next]_(Keyed!vars) <=> [Plain!Paging!Next]_(Plain!Paging!vars)
    BY <1>11, <1>12, <1>13, <1>14, <1>15, <1>16, <1>17, <1>18, Zenon DEF
      Keyed!Next, Plain!Paging!Next, Keyed!vars, Plain!Paging!vars
  <1>20. Keyed!SavedIsDelivered <=> Plain!Paging!SavedIsDelivered
    BY <1>2, <1>4, Zenon DEF
      Keyed!SavedIsDelivered, Plain!Paging!SavedIsDelivered, Keyed!Wanted, Plain!Paging!Wanted
  <1>21. Keyed!ReadOnce <=> Plain!Paging!ReadOnce
    BY Zenon DEF
      Keyed!ReadOnce, Plain!Paging!ReadOnce, Keyed!IsInjective, Plain!Paging!IsInjective
  <1> QED BY <1>1, <1>19, <1>20, <1>21

LEMMA PlainParameters ==
  Plain!Sink!SinkAssumption /\ Plain!Node!NodeRunsAssumption /\ Plain!PageAssumption
  <1>1. Plain!Sink!SinkAssumption
    BY DEF Plain!Sink!SinkAssumption, Plain!Sink!AllSinks, Plain!Sink!Transactional,
           Plain!Sink!OneRequest, EverySink
  <1>2. Plain!Node!NodeRunsAssumption
    BY DEF Plain!Node!NodeRunsAssumption
  <1>3. Plain!PageAssumption
    BY DEF Plain!PageAssumption, Plain!Paging!PagingAssumption
  <1> QED BY <1>1, <1>2, <1>3

LEMMA PlainStarts ==
  ASSUME AllInit
  PROVE  /\ scenario = "retries" => Plain!SinkInv
         /\ scenario = "source" => Plain!NodeInv
         /\ scenario = "keyed" => Plain!PageInv
  BY DataStarts, PlainParameters, RetriesSame, SourceSame, KeyedSame, Plain!SinkStarts, Plain!NodeStarts, Plain!PageStarts

LEMMA PlainSteps ==
  ASSUME [AllNext]_allVars
  PROVE  /\ scenario = "retries" /\ Plain!SinkInv => Plain!SinkInv'
         /\ scenario = "source" /\ Plain!NodeInv => Plain!NodeInv'
         /\ scenario = "keyed" /\ Plain!PageInv => Plain!PageInv'
  <1>1. scenario = "retries" /\ Plain!SinkInv => Plain!SinkInv'
    BY DataSteps, PlainParameters, RetriesSame, Plain!SinkSteps
  <1>2. scenario = "source" /\ Plain!NodeInv => Plain!NodeInv'
    BY DataSteps, PlainParameters, SourceSame, Plain!NodeSteps
  <1>3. scenario = "keyed" /\ Plain!PageInv => Plain!PageInv'
    BY DataSteps, PlainParameters, KeyedSame, Plain!PageSteps
  <1> QED BY <1>1, <1>2, <1>3

LEMMA PlainShows ==
  /\ Plain!SinkInv => Retries!TypeOK /\ Retries!SuccessIsDelivered /\ Retries!AllOrNone /\ Retries!OnceIfRecognised
  /\ Plain!NodeInv => Source2!TypeOK /\ Source2!SuccessCounted /\ Source2!FailureVisible /\ Source2!OutputIsAnswered
  /\ Plain!PageInv => Keyed!SavedIsDelivered /\ Keyed!ReadOnce
  <1>1. Plain!SinkInv => Retries!TypeOK /\ Retries!SuccessIsDelivered /\ Retries!AllOrNone /\ Retries!OnceIfRecognised
    BY PlainParameters, RetriesSame, Plain!SinkImplies
  <1>2. Plain!NodeInv => Source2!TypeOK /\ Source2!SuccessCounted /\ Source2!FailureVisible /\ Source2!OutputIsAnswered
    <2>1. Len(<<2, 1>>) > 1
      OBVIOUS
    <2> QED BY <2>1, PlainParameters, SourceSame, Plain!NodeImplies
  <1>3. Plain!PageInv => Keyed!SavedIsDelivered /\ Keyed!ReadOnce
    BY PlainParameters, KeyedSame, Plain!PageImplies
  <1> QED BY <1>1, <1>2, <1>3

LEMMA StreamsSame ==
  /\ Streams!Init <=> Plain!Stream!Init
  /\ [Streams!Next]_(Streams!vars) <=> [Plain!Stream!Next]_(Plain!Stream!vars)
  /\ Streams!OffsetsAdvance <=> Plain!Stream!OffsetsAdvance
  /\ Streams!TypeOK <=> Plain!Stream!TypeOK
  /\ Streams!NothingSkipped <=> Plain!Stream!NothingSkipped
  <1>1. Streams!Init <=> Plain!Stream!Init
    BY Zenon DEF Executions, Partitions, HighWater, StreamPage, ContinueAfter, MaxRequests, MaxStreamFaults,
      Streams!Init, Plain!Stream!Init, Streams!None, Plain!Stream!None, Streams!FreshRun, Plain!Stream!FreshRun,
      Streams!NoSignals, Plain!Stream!NoSignals, Streams!Cardinality, Plain!Stream!Cardinality
  <1>2. [Streams!Next]_(Streams!vars) <=> [Plain!Stream!Next]_(Plain!Stream!vars)
    BY Zenon DEF Executions, Partitions, HighWater, StreamPage, ContinueAfter, MaxRequests, MaxStreamFaults,
      Streams!Next, Plain!Stream!Next, Streams!vars, Plain!Stream!vars, Streams!Workflow, Plain!Stream!Workflow,
      Streams!Dispatch, Plain!Stream!Dispatch, Streams!States, Plain!Stream!States, Streams!Request,
      Plain!Stream!Request, Streams!Drain, Plain!Stream!Drain, Streams!WaitResume, Plain!Stream!WaitResume,
      Streams!Cancel, Plain!Stream!Cancel, Streams!FetchSourcePage, Plain!Stream!FetchSourcePage,
      Streams!Fetched, Plain!Stream!Fetched, Streams!RunNodes,
      Plain!Stream!RunNodes, Streams!CommitSourceCursors, Plain!Stream!CommitSourceCursors,
      Streams!InsertSourceCursors, Plain!Stream!InsertSourceCursors, Streams!ContinueAsNew,
      Plain!Stream!ContinueAsNew, Streams!SignalOf, Plain!Stream!SignalOf, Streams!AfterDrain,
      Plain!Stream!AfterDrain, Streams!Move, Plain!Stream!Move, Streams!Fault, Plain!Stream!Fault, Streams!Pages,
      Plain!Stream!Pages, Streams!Consumed, Plain!Stream!Consumed, Streams!NextOffset, Plain!Stream!NextOffset,
      Streams!NextIteration, Plain!Stream!NextIteration, Streams!Batch, Plain!Stream!Batch, Streams!None,
      Plain!Stream!None, Streams!MergeOffsets, Plain!Stream!MergeOffsets, Streams!FreshRun, Plain!Stream!FreshRun,
      Streams!NoSignals, Plain!Stream!NoSignals, Streams!Available, Plain!Stream!Available, Streams!Record,
      Plain!Stream!Record, Streams!Cardinality, Plain!Stream!Cardinality
  <1>3. Streams!OffsetsAdvance <=> Plain!Stream!OffsetsAdvance
    BY Zenon DEF Executions, Partitions, HighWater, StreamPage, ContinueAfter, MaxRequests, MaxStreamFaults,
      Streams!OffsetsAdvance, Plain!Stream!OffsetsAdvance, Streams!Cardinality, Plain!Stream!Cardinality
  <1>4. Streams!TypeOK <=> Plain!Stream!TypeOK
    BY Zenon DEF Executions, Partitions, HighWater, StreamPage, ContinueAfter, MaxRequests, MaxStreamFaults,
      Streams!TypeOK, Plain!Stream!TypeOK, Streams!Record, Plain!Stream!Record, Streams!Cardinality,
      Plain!Stream!Cardinality
  <1>5. Streams!NothingSkipped <=> Plain!Stream!NothingSkipped
    BY Zenon DEF Executions, Partitions, HighWater, StreamPage, ContinueAfter, MaxRequests, MaxStreamFaults,
      Streams!NothingSkipped, Plain!Stream!NothingSkipped, Streams!Cardinality, Plain!Stream!Cardinality
  <1> QED BY <1>1, <1>2, <1>3, <1>4, <1>5

LEMMA JobsSame ==
  /\ SparkJobs!Init <=> Plain!Spark!Init
  /\ [SparkJobs!Next]_(SparkJobs!vars) <=> [Plain!Spark!Next]_(Plain!Spark!vars)
  /\ SparkJobs!TypeOK <=> Plain!Spark!TypeOK
  /\ SparkJobs!NothingSkipped <=> Plain!Spark!NothingSkipped
  /\ SparkJobs!CompletedHasOutput <=> Plain!Spark!CompletedHasOutput
  <1>1. SparkJobs!Init <=> Plain!Spark!Init
    BY Zenon DEF Executions, MaxSnapshot, SparkAttempts, MaxLost, MaxSparkFaults,
      SparkJobs!Init, Plain!Spark!Init, SparkJobs!NoApp, Plain!Spark!NoApp, SparkJobs!Start, Plain!Spark!Start
  <1>2. [SparkJobs!Next]_(SparkJobs!vars) <=> [Plain!Spark!Next]_(Plain!Spark!vars)
    BY Zenon DEF Executions, MaxSnapshot, SparkAttempts, MaxLost, MaxSparkFaults,
      SparkJobs!Next, Plain!Spark!Next, SparkJobs!vars, Plain!Spark!vars, SparkJobs!Ingest, Plain!Spark!Ingest,
      SparkJobs!Workflow, Plain!Spark!Workflow, SparkJobs!RequestCancel, Plain!Spark!RequestCancel,
      SparkJobs!Complete, Plain!Spark!Complete, SparkJobs!Fail, Plain!Spark!Fail, SparkJobs!Reading, Plain!Spark!Reading,
      SparkJobs!AttemptFails, Plain!Spark!AttemptFails, SparkJobs!ReadSnapshots,
      Plain!Spark!ReadSnapshots, SparkJobs!Create, Plain!Spark!Create, SparkJobs!Poll, Plain!Spark!Poll,
      SparkJobs!CancelSparkJob, Plain!Spark!CancelSparkJob, SparkJobs!CommitSparkJob, Plain!Spark!CommitSparkJob,
      SparkJobs!MarkCompleted, Plain!Spark!MarkCompleted, SparkJobs!world, Plain!Spark!world, SparkJobs!Reads,
      Plain!Spark!Reads, SparkJobs!Fault, Plain!Spark!Fault, SparkJobs!Move, Plain!Spark!Move,
      SparkJobs!CreateOrAttach, Plain!Spark!CreateOrAttach, SparkJobs!Status, Plain!Spark!Status, SparkJobs!NoApp,
      Plain!Spark!NoApp, SparkJobs!Application, Plain!Spark!Application
  <1>3. SparkJobs!TypeOK <=> Plain!Spark!TypeOK
    BY Zenon DEF Executions, MaxSnapshot, SparkAttempts, MaxLost, MaxSparkFaults,
      SparkJobs!TypeOK, Plain!Spark!TypeOK
  <1>4. SparkJobs!NothingSkipped <=> Plain!Spark!NothingSkipped
    BY Zenon DEF Executions, MaxSnapshot, SparkAttempts, MaxLost, MaxSparkFaults,
      SparkJobs!NothingSkipped, Plain!Spark!NothingSkipped
  <1>5. SparkJobs!CompletedHasOutput <=> Plain!Spark!CompletedHasOutput
    BY Zenon DEF Executions, MaxSnapshot, SparkAttempts, MaxLost, MaxSparkFaults,
      SparkJobs!CompletedHasOutput, Plain!Spark!CompletedHasOutput
  <1> QED BY <1>1, <1>2, <1>3, <1>4, <1>5

LEMMA EngineParameters ==
  Plain!Stream!StreamAssumption /\ Plain!SparkOK
  <1>1. Plain!Stream!StreamAssumption
    BY DEF Plain!Stream!StreamAssumption, Executions, Partitions, HighWater, StreamPage, ContinueAfter, MaxRequests, MaxStreamFaults
  <1>2. Plain!SparkOK
    BY DEF Plain!SparkOK, Plain!Spark!SparkAssumption, Executions, MaxSnapshot, SparkAttempts, MaxLost, MaxSparkFaults
  <1> QED BY <1>1, <1>2

LEMMA EngineSteps ==
  ASSUME [AllNext]_allVars
  PROVE  /\ scenario' = scenario
         /\ scenario = "streams" => [Streams!Next]_(Streams!vars)
         /\ scenario = "spark jobs" => [SparkJobs!Next]_(SparkJobs!vars)
  <1>1. \/ DedupeStep \/ PageStep \/ SinkStep \/ NodeStep \/ TransformStep \/ StreamStep \/ SparkStep
        \/ UNCHANGED allVars
    BY Zenon DEF AllNext
  <1>2. scenario' = scenario
    BY <1>1, Zenon DEF allVars, DedupeStep, PageStep, SinkStep, NodeStep, TransformStep, StreamStep, SparkStep
  <1>3. (scenario = "streams" /\ Streams!Next) \/ UNCHANGED streamVars
    BY <1>1, Zenon DEF allVars, DedupeStep, PageStep, SinkStep, NodeStep, TransformStep, StreamStep, SparkStep
  <1>4. (scenario = "spark jobs" /\ SparkJobs!Next) \/ UNCHANGED sparkVars
    BY <1>1, Zenon DEF allVars, DedupeStep, PageStep, SinkStep, NodeStep, TransformStep, StreamStep, SparkStep
  <1>5. Streams!vars = streamVars /\ SparkJobs!vars = sparkVars
    BY Zenon DEF streamVars, Streams!vars, sparkVars, SparkJobs!vars
  <1>6. /\ scenario = "streams" => [Streams!Next]_(Streams!vars)
        /\ scenario = "spark jobs" => [SparkJobs!Next]_(SparkJobs!vars)
    BY <1>3, <1>4, Zenon DEF streamVars, Streams!vars, sparkVars, SparkJobs!vars
  <1> QED BY <1>2, <1>6, Zenon

(* StreamDirectWorkflow, CommitSparkJob: every offset, and every snapshot, *)
(* up to the committed one is in the sink; a commit never moves an offset  *)
(* back, but for first commits that overwrite each other; and a Spark job  *)
(* that says it completed leaves everything of the snapshot it read there. *)
THEOREM EnginesAlwaysComplete == AllSpec => EnginesSkipNothing
  <1> DEFINE Inv == /\ scenario = "streams" => Plain!StreamInv
                    /\ scenario = "spark jobs" => Plain!SparkInv
             Kept == /\ scenario = "streams" => Streams!OffsetsAdvance /\ (Streams!TypeOK /\ Streams!NothingSkipped)'
                     /\ scenario = "spark jobs" =>
                          (SparkJobs!TypeOK /\ SparkJobs!NothingSkipped /\ SparkJobs!CompletedHasOutput)'
  <1>1. AllInit => Inv
    <2> SUFFICES ASSUME AllInit PROVE Inv
      OBVIOUS
    <2>1. Streams!Init /\ SparkJobs!Init
      BY Zenon DEF AllInit
    <2> QED BY <2>1, EngineParameters, StreamsSame, JobsSame, Plain!StreamStarts, Plain!SparkStarts
  <1>2. /\ Plain!StreamInv => Streams!TypeOK /\ Streams!NothingSkipped
        /\ Plain!SparkInv => SparkJobs!TypeOK /\ SparkJobs!NothingSkipped /\ SparkJobs!CompletedHasOutput
    BY EngineParameters, StreamsSame, JobsSame, Plain!StreamImplies, Plain!SparkImplies
  <1>3. (/\ Plain!StreamInv => Streams!TypeOK /\ Streams!NothingSkipped
         /\ Plain!SparkInv => SparkJobs!TypeOK /\ SparkJobs!NothingSkipped /\ SparkJobs!CompletedHasOutput)'
    BY <1>2, PTL
  <1>4. Inv /\ [AllNext]_allVars => Inv' /\ Kept
    <2> SUFFICES ASSUME Inv, [AllNext]_allVars PROVE Inv' /\ Kept
      OBVIOUS
    <2>1. scenario' = scenario
      BY EngineSteps
    <2>2. CASE scenario = "streams"
      <3>1. [Plain!Stream!Next]_(Plain!Stream!vars) /\ Plain!StreamInv
        BY <2>2, EngineSteps, StreamsSame
      <3>2. Plain!StreamInv' /\ Plain!Stream!OffsetsAdvance
        BY <3>1, EngineParameters, Plain!StreamSteps, Plain!StreamAdvances
      <3>3. Streams!OffsetsAdvance /\ (Streams!TypeOK /\ Streams!NothingSkipped)'
        BY <3>2, <1>3, StreamsSame
      <3> QED BY <2>1, <2>2, <3>2, <3>3
    <2>3. CASE scenario = "spark jobs"
      <3>1. [Plain!Spark!Next]_(Plain!Spark!vars) /\ Plain!SparkInv
        BY <2>3, EngineSteps, JobsSame, Zenon
      <3>2. Plain!SparkInv'
        BY <3>1, EngineParameters, Plain!SparkSteps
      <3>3. (SparkJobs!TypeOK /\ SparkJobs!NothingSkipped /\ SparkJobs!CompletedHasOutput)'
        BY <3>2, <1>3
      <3>4. scenario # "streams"
        BY <2>3, Zenon
      <3> QED BY <2>1, <3>2, <3>3, <3>4, Zenon
    <2> QED BY <2>1, <2>2, <2>3, Zenon
  <1>5. Inv /\ [AllNext]_allVars => Inv' /\ [Kept]_allVars
    BY <1>4
  <1> QED BY <1>1, <1>5, PTL DEF AllSpec, EnginesSkipNothing

-----------------------------------------------------------------------------
(* The transforms: the inputs of the instance admit those of both runs.    *)
LEMMA InputsWiden ==
  ASSUME NEW S, NEW T, S \subseteq T, NEW m \in {2, 4}
  PROVE  UNION {[1..n -> S] : n \in 0..m} \subseteq Plain!Trans!InputsOf(T)
  <1> SUFFICES ASSUME NEW s \in UNION {[1..n -> S] : n \in 0..m} PROVE s \in Plain!Trans!InputsOf(T)
    OBVIOUS
  <1>1. PICK n \in 0..m : s \in [1..n -> S]
    OBVIOUS
  <1>2. n \in 0..4 /\ s \in [1..n -> T]
    BY <1>1
  <1> QED BY <1>2 DEF Plain!Trans!InputsOf, InputRows

LEMMA RowsSame ==
  /\ Rows!Init => Plain!Trans!Init
  /\ [Rows!Next]_(Rows!vars) <=> [Plain!Trans!Next]_(Plain!Trans!vars)
  /\ Rows!TypeOK <=> Plain!Trans!TypeOK
  /\ Rows!DedupeReference <=> Plain!Trans!DedupeReference
  /\ Rows!ContractReference <=> Plain!Trans!ContractReference
  <1>1. Rows!Init => Plain!Trans!Init
    <2> SUFFICES ASSUME Rows!Init PROVE Plain!Trans!Init
      OBVIOUS
    <2>1. /\ op \in RowOps /\ a \in Rows!InputsOf(Typed)
          /\ b \in (IF op.name = "merge" THEN Rows!InputsOf(RightRows) ELSE {<<>>})
          /\ passed = 0 /\ joinKeys = <<>> /\ out = [rows |-> <<>>, status |-> "pending", failed |-> 0]
      BY Zenon DEF Rows!Init
    <2>2. \A S : Rows!InputsOf(S) = UNION {[1..n -> S] : n \in 0..4}
      BY Zenon DEF Rows!InputsOf
    <2>3. \A S, T : S \subseteq T => UNION {[1..n -> S] : n \in 0..4} \subseteq Plain!Trans!InputsOf(T)
      BY InputsWiden
    <2>4. op \in Ops /\ Typed \subseteq LeftRecords /\ RightRows \subseteq RightRecords
      BY <2>1, Zenon DEF Ops, LeftRecords, RightRecords
    <2>5. a \in Plain!Trans!InputsOf(LeftRecords)
      BY <2>1, <2>2, <2>3, <2>4, Zenon
    <2>6. b \in (IF op.name = "merge" THEN Plain!Trans!InputsOf(RightRecords) ELSE {<<>>})
      <3>1. CASE op.name = "merge"
        BY <2>1, <2>2, <2>3, <2>4, <3>1, Zenon
      <3>2. CASE op.name # "merge"
        BY <2>1, <3>2, Zenon
      <3> QED BY <3>1, <3>2, Zenon
    <2> QED BY <2>1, <2>4, <2>5, <2>6, Zenon DEF Plain!Trans!Init
  <1>2. [Rows!Next]_(Rows!vars) <=> [Plain!Trans!Next]_(Plain!Trans!vars)
    BY Zenon DEF
      Rows!Next, Plain!Trans!Next, Rows!vars, Plain!Trans!vars, Rows!Dedupe, Plain!Trans!Dedupe, Rows!Contract,
      Plain!Trans!Contract, Rows!Concat, Plain!Trans!Concat, Rows!Union, Plain!Trans!Union, Rows!AppendWithSourceTag,
      Plain!Trans!AppendWithSourceTag, Rows!Index, Plain!Trans!Index, Rows!Join, Plain!Trans!Join, Rows!Return,
      Plain!Trans!Return, Rows!Turn, Plain!Trans!Turn, Rows!Result, Plain!Trans!Result, Rows!DedupeRow,
      Plain!Trans!DedupeRow, Rows!Row, Plain!Trans!Row, Rows!Conforms, Plain!Trans!Conforms, Rows!Emit,
      Plain!Trans!Emit, Rows!Refuse, Plain!Trans!Refuse, Rows!Elements, Plain!Trans!Elements, Rows!Object,
      Plain!Trans!Object, Rows!Override, Plain!Trans!Override, Rows!SourceOf, Plain!Trans!SourceOf, Rows!Joins,
      Plain!Trans!Joins, Rows!AllObjects, Plain!Trans!AllObjects, Rows!SortedKeys, Plain!Trans!SortedKeys, Rows!Id,
      Plain!Trans!Id, Rows!KeysInOrder, Plain!Trans!KeysInOrder, Rows!Has, Plain!Trans!Has, Rows!Joined,
      Plain!Trans!Joined, Rows!Total, Plain!Trans!Total, Rows!ReturnStatus, Plain!Trans!ReturnStatus,
      Rows!PositionOf, Plain!Trans!PositionOf, Rows!ContractMatches, Plain!Trans!ContractMatches, Rows!Null,
      Plain!Trans!Null, Rows!IndexOf, Plain!Trans!IndexOf, Rows!Cardinality, Plain!Trans!Cardinality
  <1>3. Rows!TypeOK <=> Plain!Trans!TypeOK
    BY Zenon DEF
      Rows!TypeOK, Plain!Trans!TypeOK, Rows!Statuses, Plain!Trans!Statuses, Rows!Scalar, Plain!Trans!Scalar,
      Rows!Cardinality, Plain!Trans!Cardinality
  <1>4. Rows!DedupeReference <=> Plain!Trans!DedupeReference
    BY Zenon DEF
      Rows!DedupeReference, Plain!Trans!DedupeReference, Rows!Done, Plain!Trans!Done, Rows!Id, Plain!Trans!Id,
      Rows!Elements, Plain!Trans!Elements, Rows!LastWith, Plain!Trans!LastWith, Rows!FirstWith,
      Plain!Trans!FirstWith, Rows!Null, Plain!Trans!Null, Rows!Cardinality, Plain!Trans!Cardinality
  <1>5. Rows!ContractReference <=> Plain!Trans!ContractReference
    BY Zenon DEF
      Rows!ContractReference, Plain!Trans!ContractReference, Rows!Done, Plain!Trans!Done, Rows!Elements,
      Plain!Trans!Elements, Rows!Meets, Plain!Trans!Meets, Rows!Good, Plain!Trans!Good, Rows!ContractMatches,
      Plain!Trans!ContractMatches, Rows!Cardinality, Plain!Trans!Cardinality
  <1> QED BY <1>1, <1>2, <1>3, <1>4, <1>5

LEMMA MergesSame ==
  /\ Merges!Init => Plain!Trans!Init
  /\ [Merges!Next]_(Merges!vars) <=> [Plain!Trans!Next]_(Plain!Trans!vars)
  /\ Merges!MergeReference <=> Plain!Trans!MergeReference
  /\ Merges!JoinReference <=> Plain!Trans!JoinReference
  <1>1. Merges!Init => Plain!Trans!Init
    <2> SUFFICES ASSUME Merges!Init PROVE Plain!Trans!Init
      OBVIOUS
    <2>1. /\ op \in MergeOps /\ a \in Merges!InputsOf(LeftRows)
          /\ b \in (IF op.name = "merge" THEN Merges!InputsOf(RightRows) ELSE {<<>>})
          /\ passed = 0 /\ joinKeys = <<>> /\ out = [rows |-> <<>>, status |-> "pending", failed |-> 0]
      BY Zenon DEF Merges!Init
    <2>2. \A S : Merges!InputsOf(S) = UNION {[1..n -> S] : n \in 0..2}
      BY Zenon DEF Merges!InputsOf
    <2>3. \A S, T : S \subseteq T => UNION {[1..n -> S] : n \in 0..2} \subseteq Plain!Trans!InputsOf(T)
      BY InputsWiden
    <2>4. op \in Ops /\ LeftRows \subseteq LeftRecords /\ RightRows \subseteq RightRecords
      BY <2>1, Zenon DEF Ops, LeftRecords, RightRecords
    <2>5. a \in Plain!Trans!InputsOf(LeftRecords)
      BY <2>1, <2>2, <2>3, <2>4, Zenon
    <2>6. b \in (IF op.name = "merge" THEN Plain!Trans!InputsOf(RightRecords) ELSE {<<>>})
      <3>1. CASE op.name = "merge"
        BY <2>1, <2>2, <2>3, <2>4, <3>1, Zenon
      <3>2. CASE op.name # "merge"
        BY <2>1, <3>2, Zenon
      <3> QED BY <3>1, <3>2, Zenon
    <2> QED BY <2>1, <2>4, <2>5, <2>6, Zenon DEF Plain!Trans!Init
  <1>2. [Merges!Next]_(Merges!vars) <=> [Plain!Trans!Next]_(Plain!Trans!vars)
    BY Zenon DEF
      Merges!Next, Plain!Trans!Next, Merges!vars, Plain!Trans!vars, Merges!Dedupe, Plain!Trans!Dedupe,
      Merges!Contract, Plain!Trans!Contract, Merges!Concat, Plain!Trans!Concat, Merges!Union, Plain!Trans!Union,
      Merges!AppendWithSourceTag, Plain!Trans!AppendWithSourceTag, Merges!Index, Plain!Trans!Index, Merges!Join,
      Plain!Trans!Join, Merges!Return, Plain!Trans!Return, Merges!Turn, Plain!Trans!Turn, Merges!Result,
      Plain!Trans!Result, Merges!DedupeRow, Plain!Trans!DedupeRow, Merges!Row, Plain!Trans!Row, Merges!Conforms,
      Plain!Trans!Conforms, Merges!Emit, Plain!Trans!Emit, Merges!Refuse, Plain!Trans!Refuse, Merges!Elements,
      Plain!Trans!Elements, Merges!Object, Plain!Trans!Object, Merges!Override, Plain!Trans!Override,
      Merges!SourceOf, Plain!Trans!SourceOf, Merges!Joins, Plain!Trans!Joins, Merges!AllObjects,
      Plain!Trans!AllObjects, Merges!SortedKeys, Plain!Trans!SortedKeys, Merges!Id, Plain!Trans!Id,
      Merges!KeysInOrder, Plain!Trans!KeysInOrder, Merges!Has, Plain!Trans!Has, Merges!Joined, Plain!Trans!Joined,
      Merges!Total, Plain!Trans!Total, Merges!ReturnStatus, Plain!Trans!ReturnStatus, Merges!PositionOf,
      Plain!Trans!PositionOf, Merges!ContractMatches, Plain!Trans!ContractMatches, Merges!Null, Plain!Trans!Null,
      Merges!IndexOf, Plain!Trans!IndexOf, Merges!Cardinality, Plain!Trans!Cardinality
  <1>3. Merges!MergeReference <=> Plain!Trans!MergeReference
    BY Zenon DEF
      Merges!MergeReference, Plain!Trans!MergeReference, Merges!Done, Plain!Trans!Done, Merges!Elements,
      Plain!Trans!Elements, Merges!Row, Plain!Trans!Row, Merges!Cardinality, Plain!Trans!Cardinality
  <1>4. Merges!JoinReference <=> Plain!Trans!JoinReference
    BY Zenon DEF
      Merges!JoinReference, Plain!Trans!JoinReference, Merges!Done, Plain!Trans!Done, Merges!Joins,
      Plain!Trans!Joins, Merges!Distinct, Plain!Trans!Distinct, Merges!Elements, Plain!Trans!Elements, Merges!Pairs,
      Plain!Trans!Pairs, Merges!Lonely, Plain!Trans!Lonely, Merges!Id, Plain!Trans!Id, Merges!Object,
      Plain!Trans!Object, Merges!Override, Plain!Trans!Override, Merges!Null, Plain!Trans!Null, Merges!Cardinality,
      Plain!Trans!Cardinality
  <1> QED BY <1>1, <1>2, <1>3, <1>4

LEMMA TransformParameters ==
  Plain!Trans!TransformsAssumption
  <1>1. ASSUME NEW f, f = [x \in DOMAIN f |-> f[x]], "id" \in DOMAIN f => f.id \in Nat
        PROVE  Plain!Trans!IsRecord(Record(f))
    <2>1. Record(f).f = f /\ Record(f).object = TRUE /\ Record(f) = [object |-> TRUE, f |-> f]
      BY DEF Record
    <2>2. Plain!Trans!Id(Record(f)) \in Nat
      BY <1>1, <2>1 DEF Plain!Trans!Id, Plain!Trans!Null
    <2> QED BY <1>1, <2>1, <2>2 DEF Plain!Trans!IsRecord
  <1>2. Plain!Trans!IsRecord(NoRecord)
    BY DEF NoRecord, Plain!Trans!IsRecord, Plain!Trans!Scalar, Plain!Trans!Id, Plain!Trans!Null
  <1>3. \A n \in Nat : \A v : LET f == [id |-> n, v |-> v] IN f = [x \in DOMAIN f |-> f[x]] /\ f.id \in Nat
    OBVIOUS
  <1>4. \A n \in Nat : \A w : LET f == [id |-> n, w |-> w] IN f = [x \in DOMAIN f |-> f[x]] /\ f.id \in Nat
    OBVIOUS
  <1>5. \A v : LET f == [v |-> v] IN f = [x \in DOMAIN f |-> f[x]] /\ "id" \notin DOMAIN f
    OBVIOUS
  <1>6. \A w : LET f == [w |-> w] IN f = [x \in DOMAIN f |-> f[x]] /\ "id" \notin DOMAIN f
    OBVIOUS
  <1>7. \A n \in Nat : LET f == [id |-> n] IN f = [x \in DOMAIN f |-> f[x]] /\ f.id \in Nat
    OBVIOUS
  <1>8. /\ \A n \in Nat : \A v : Plain!Trans!IsRecord(Record([id |-> n, v |-> v]))
        /\ \A n \in Nat : \A w : Plain!Trans!IsRecord(Record([id |-> n, w |-> w]))
        /\ \A v : Plain!Trans!IsRecord(Record([v |-> v]))
        /\ \A w : Plain!Trans!IsRecord(Record([w |-> w]))
        /\ \A n \in Nat : Plain!Trans!IsRecord(Record([id |-> n]))
    BY <1>1, <1>3, <1>4, <1>5, <1>6, <1>7
  <1>9. \A r \in LeftRecords \cup RightRecords : Plain!Trans!IsRecord(r)
    BY <1>2, <1>8 DEF LeftRecords, RightRecords, Typed, LeftRows, RightRows
  <1>10. \A o \in Ops : Plain!Trans!IsOp(o)
    BY DEF Ops, RowOps, MergeOps, Plain!Trans!IsOp, Plain!Trans!Joins
  <1> QED BY <1>9, <1>10 DEF Plain!Trans!TransformsAssumption, InputRows

LEMMA TransformSteps ==
  ASSUME [AllNext]_allVars
  PROVE  /\ scenario' = scenario
         /\ scenario = "rows" => [Rows!Next]_(Rows!vars)
         /\ scenario = "merges" => [Merges!Next]_(Merges!vars)
  <1>1. \/ DedupeStep \/ PageStep \/ SinkStep \/ NodeStep \/ TransformStep \/ StreamStep \/ SparkStep
        \/ UNCHANGED allVars
    BY Zenon DEF AllNext
  <1>2. scenario' = scenario
    BY <1>1, Zenon DEF allVars, DedupeStep, PageStep, SinkStep, NodeStep, TransformStep, StreamStep, SparkStep
  <1>3. \/ scenario = "rows" /\ Rows!Next
        \/ scenario = "merges" /\ Merges!Next
        \/ UNCHANGED transformVars
    BY <1>1, Zenon DEF allVars, DedupeStep, PageStep, SinkStep, NodeStep, TransformStep, StreamStep, SparkStep
  <1>4. Rows!vars = transformVars /\ Merges!vars = transformVars
    BY Zenon DEF transformVars, Rows!vars, Merges!vars
  <1>5. "rows" # "merges"
    OBVIOUS
  <1>6. /\ scenario = "rows" => [Rows!Next]_(Rows!vars)
        /\ scenario = "merges" => [Merges!Next]_(Merges!vars)
    BY <1>3, <1>4, <1>5, Zenon DEF transformVars, Rows!vars, Merges!vars
  <1> QED BY <1>2, <1>6, Zenon

(* dedupeHandler: one record for each key, the first or the last, in the   *)
(* order in which the keys appear.  contractHandler: what passes conforms, *)
(* what does not is counted, and the order is kept.  MergeArrays: concat,  *)
(* union and tagged append against their definitions, and with unique keys *)
(* the joins are the relational ones.                                      *)
THEOREM TransformsAlwaysAgree == AllSpec => []TransformsAgree
  <1> DEFINE Inv == scenario \in {"rows", "merges"} => Plain!TransInv
  <1>1. AllInit => Inv
    <2> SUFFICES ASSUME AllInit, scenario \in {"rows", "merges"} PROVE Plain!TransInv
      OBVIOUS
    <2>1. (scenario = "rows" => Rows!Init) /\ (scenario = "merges" => Merges!Init)
      BY Zenon DEF AllInit
    <2>2. Plain!Trans!Init
      BY <2>1, RowsSame, MergesSame
    <2> QED BY <2>2, TransformParameters, Plain!TransStarts
  <1>2. Inv /\ [AllNext]_allVars => Inv'
    <2> SUFFICES ASSUME [AllNext]_allVars, scenario \in {"rows", "merges"}, Plain!TransInv
                 PROVE  scenario' = scenario /\ Plain!TransInv'
      BY TransformSteps
    <2>1. [Plain!Trans!Next]_(Plain!Trans!vars)
      BY TransformSteps, RowsSame, MergesSame
    <2> QED BY <2>1, TransformSteps, TransformParameters, Plain!TransSteps
  <1>3. Inv => TransformsAgree
    <2>1. Plain!TransInv => /\ Plain!Trans!TypeOK /\ Plain!Trans!DedupeReference /\ Plain!Trans!ContractReference
                            /\ Plain!Trans!MergeReference /\ Plain!Trans!JoinReference
      BY TransformParameters, Plain!TransImplies DEF Plain!Trans!TransformsAssumption, Plain!InputRecords
    <2> QED BY <2>1, RowsSame, MergesSame DEF TransformsAgree
  <1> QED BY <1>1, <1>2, <1>3, PTL DEF AllSpec

-----------------------------------------------------------------------------
Overlapping == INSTANCE DataProofs WITH
    Sinks <- Unordered, Records <- 3, BatchRows <- 2, SinkAttempts <- 3, SinkOverlap <- TRUE,
    Kind <- "source", Pages <- <<1, 0>>, NodeAttempts <- 2, NodeOverlap <- TRUE,
    MaxPayload <- 50, MaxMerge <- 50, Strategy <- "concat",
    Source <- "sql", PageSize <- 2, MaxPages <- 2, Window <- <<>>, KeyColumn <- FALSE, Edits <- {"add"},
    NullsFirst <- FALSE, Values <- {1, 2}, MaxKey <- 4, Run <- TwoRuns, MaxFails <- 1

LEMMA OverlapsSame ==
  /\ Overlaps!Init <=> Overlapping!Sink!Init
  /\ [Overlaps!Next]_(Overlaps!vars) <=> [Overlapping!Sink!Next]_(Overlapping!Sink!vars)
  /\ Overlaps!SuccessIsDelivered <=> Overlapping!Sink!SuccessIsDelivered
  /\ Overlaps!OnceIfRecognised <=> Overlapping!Sink!OnceIfRecognised
  <1>1. Overlaps!Init <=> Overlapping!Sink!Init
    BY Zenon DEF
      Overlaps!Init, Overlapping!Sink!Init, Overlaps!Record, Overlapping!Sink!Record, Overlaps!Attempt,
      Overlapping!Sink!Attempt, Overlaps!Waiting, Overlapping!Sink!Waiting
  <1>2. [Overlaps!Next]_(Overlaps!vars) <=> [Overlapping!Sink!Next]_(Overlapping!Sink!vars)
    BY Zenon DEF
      Overlaps!Next, Overlapping!Sink!Next, Overlaps!vars, Overlapping!Sink!vars, Overlaps!Attempt,
      Overlapping!Sink!Attempt, Overlaps!InsertBatch, Overlapping!Sink!InsertBatch, Overlaps!CommitTx,
      Overlapping!Sink!CommitTx, Overlaps!BulkWrite, Overlapping!Sink!BulkWrite, Overlaps!ClickhouseInsert,
      Overlapping!Sink!ClickhouseInsert, Overlaps!RecordsInsert, Overlapping!Sink!RecordsInsert, Overlaps!PutObject,
      Overlapping!Sink!PutObject, Overlaps!WebhookPost, Overlapping!Sink!WebhookPost, Overlaps!Produce,
      Overlapping!Sink!Produce, Overlaps!Truncate, Overlapping!Sink!Truncate, Overlaps!Fill, Overlapping!Sink!Fill,
      Overlaps!SheetAppend, Overlapping!Sink!SheetAppend, Overlaps!IcebergLoad, Overlapping!Sink!IcebergLoad,
      Overlaps!IcebergAppend, Overlapping!Sink!IcebergAppend, Overlaps!Answer, Overlapping!Sink!Answer,
      Overlaps!AttemptEnds, Overlapping!Sink!AttemptEnds, Overlaps!Retry, Overlapping!Sink!Retry,
      Overlaps!Transactional, Overlapping!Sink!Transactional, Overlaps!Open, Overlapping!Sink!Open, Overlaps!Batch,
      Overlapping!Sink!Batch, Overlaps!AfterBatch, Overlapping!Sink!AfterBatch, Overlaps!CommitReady,
      Overlapping!Sink!CommitReady, Overlaps!Inserted, Overlapping!Sink!Inserted, Overlaps!Record,
      Overlapping!Sink!Record, Overlaps!Goto, Overlapping!Sink!Goto, Overlaps!Upserted, Overlapping!Sink!Upserted,
      Overlaps!Added, Overlapping!Sink!Added, Overlaps!IdempotencyKey, Overlapping!Sink!IdempotencyKey,
      Overlaps!ProducedAll, Overlapping!Sink!ProducedAll, Overlaps!Committed, Overlapping!Sink!Committed
  <1>3. Overlaps!SuccessIsDelivered <=> Overlapping!Sink!SuccessIsDelivered
    BY Zenon DEF
      Overlaps!SuccessIsDelivered, Overlapping!Sink!SuccessIsDelivered, Overlaps!Record, Overlapping!Sink!Record
  <1>4. Overlaps!OnceIfRecognised <=> Overlapping!Sink!OnceIfRecognised
    BY Zenon DEF
      Overlaps!OnceIfRecognised, Overlapping!Sink!OnceIfRecognised, Overlaps!Recognising,
      Overlapping!Sink!Recognising, Overlaps!Record, Overlapping!Sink!Record
  <1> QED BY <1>1, <1>2, <1>3, <1>4

LEMMA StaleSame ==
  /\ Stale!Init <=> Overlapping!Node!Init
  /\ [Stale!Next]_(Stale!vars) <=> [Overlapping!Node!Next]_(Overlapping!Node!vars)
  /\ Stale!OutputIsAnswered <=> Overlapping!Node!OutputIsAnswered
  <1>1. Stale!Init <=> Overlapping!Node!Init
    BY Zenon DEF
      Stale!Init, Overlapping!Node!Init, Stale!NoRow, Overlapping!Node!NoRow, Stale!Inputs, Overlapping!Node!Inputs,
      Stale!Consolidate, Overlapping!Node!Consolidate, Stale!Given, Overlapping!Node!Given, Stale!FlattenSeq,
      Overlapping!Node!FlattenSeq, Stale!FoldSeq, Overlapping!Node!FoldSeq, Stale!FoldFunction,
      Overlapping!Node!FoldFunction, Stale!FoldFunctionOnSet, Overlapping!Node!FoldFunctionOnSet,
      Stale!MapThenFoldSet, Overlapping!Node!MapThenFoldSet, Stale!Reverse, Overlapping!Node!Reverse
  <1>2. [Stale!Next]_(Stale!vars) <=> [Overlapping!Node!Next]_(Overlapping!Node!vars)
    BY Zenon DEF
      Stale!Next, Overlapping!Node!Next, Stale!vars, Overlapping!Node!vars, Stale!Attempt, Overlapping!Node!Attempt,
      Stale!Refused, Overlapping!Node!Refused, Stale!HandlerFails, Overlapping!Node!HandlerFails, Stale!TooLarge,
      Overlapping!Node!TooLarge, Stale!MergeLimit, Overlapping!Node!MergeLimit, Stale!Write, Overlapping!Node!Write,
      Stale!WriteFails, Overlapping!Node!WriteFails, Stale!Record, Overlapping!Node!Record, Stale!Answer,
      Overlapping!Node!Answer, Stale!Lost, Overlapping!Node!Lost, Stale!Of, Overlapping!Node!Of, Stale!Fail,
      Overlapping!Node!Fail, Stale!Recorded, Overlapping!Node!Recorded, Stale!Readable, Overlapping!Node!Readable,
      Stale!Oversized, Overlapping!Node!Oversized, Stale!MergeAccepted, Overlapping!Node!MergeAccepted,
      Stale!PayloadWrite, Overlapping!Node!PayloadWrite, Stale!Computed, Overlapping!Node!Computed, Stale!PayloadKey,
      Overlapping!Node!PayloadKey, Stale!Stage, Overlapping!Node!Stage, Stale!Consolidate,
      Overlapping!Node!Consolidate, Stale!RecordNodeRun, Overlapping!Node!RecordNodeRun, Stale!Size,
      Overlapping!Node!Size, Stale!StreamFits, Overlapping!Node!StreamFits, Stale!RecordCount,
      Overlapping!Node!RecordCount, Stale!NoRow, Overlapping!Node!NoRow, Stale!FlattenSeq,
      Overlapping!Node!FlattenSeq, Stale!FoldSeq, Overlapping!Node!FoldSeq, Stale!FoldFunction,
      Overlapping!Node!FoldFunction, Stale!FoldFunctionOnSet, Overlapping!Node!FoldFunctionOnSet,
      Stale!MapThenFoldSet, Overlapping!Node!MapThenFoldSet, Stale!Reverse, Overlapping!Node!Reverse
  <1>3. Stale!OutputIsAnswered <=> Overlapping!Node!OutputIsAnswered
    BY Zenon DEF
      Stale!OutputIsAnswered, Overlapping!Node!OutputIsAnswered, Stale!FlattenSeq, Overlapping!Node!FlattenSeq,
      Stale!FoldSeq, Overlapping!Node!FoldSeq, Stale!FoldFunction, Overlapping!Node!FoldFunction,
      Stale!FoldFunctionOnSet, Overlapping!Node!FoldFunctionOnSet, Stale!MapThenFoldSet,
      Overlapping!Node!MapThenFoldSet, Stale!Reverse, Overlapping!Node!Reverse
  <1> QED BY <1>1, <1>2, <1>3

LEMMA UnkeyedSame ==
  /\ Unkeyed!Init <=> Overlapping!Paging!Init
  /\ [Unkeyed!Next]_(Unkeyed!vars) <=> [Overlapping!Paging!Next]_(Overlapping!Paging!vars)
  /\ Unkeyed!SavedIsDelivered <=> Overlapping!Paging!SavedIsDelivered
  /\ Unkeyed!ReadOnce <=> Overlapping!Paging!ReadOnce
  <1>1. Unkeyed!Init <=> Overlapping!Paging!Init
    BY Zenon DEF
      Unkeyed!Init, Overlapping!Paging!Init, Unkeyed!Idle, Overlapping!Paging!Idle, Unkeyed!NoCursor,
      Overlapping!Paging!NoCursor, Unkeyed!Null, Overlapping!Paging!Null
  <1>2. Unkeyed!Keyed = Overlapping!Paging!Keyed
    BY Zenon DEF
      Unkeyed!Keyed, Overlapping!Paging!Keyed
  <1>3. Unkeyed!Idle = Overlapping!Paging!Idle /\ Unkeyed!NoCursor = Overlapping!Paging!NoCursor
    BY Zenon DEF
      Unkeyed!Idle, Overlapping!Paging!Idle, Unkeyed!NoCursor, Overlapping!Paging!NoCursor, Unkeyed!Null,
      Overlapping!Paging!Null
  <1>4. \A cur, keyed : Unkeyed!Selected(cur, keyed) = Overlapping!Paging!Selected(cur, keyed)
    BY Zenon DEF
      Unkeyed!Selected, Overlapping!Paging!Selected, Unkeyed!Selects, Overlapping!Paging!Selects,
      Unkeyed!PlanIncrementalPage, Overlapping!Paging!PlanIncrementalPage, Unkeyed!SnowflakeWhere,
      Overlapping!Paging!SnowflakeWhere, Unkeyed!MongoPageFilter, Overlapping!Paging!MongoPageFilter,
      Unkeyed!InWindow, Overlapping!Paging!InWindow, Unkeyed!After, Overlapping!Paging!After, Unkeyed!Null,
      Overlapping!Paging!Null, Unkeyed!NoCursor, Overlapping!Paging!NoCursor
  <1>5. \A cur, keyed : Unkeyed!Query(cur, keyed) = Overlapping!Paging!Query(cur, keyed)
    <2> TAKE cur, keyed
    <2> DEFINE Ordered(S) == [i \in 1..Overlapping!Paging!Min({Overlapping!Paging!Cardinality(S), 2 + 1}) |->
                                 CHOOSE x \in S : Overlapping!Paging!Place(x, S) = i]
    <2>1. Unkeyed!Query(cur, keyed) = Ordered(Unkeyed!Selected(cur, keyed))
      BY Zenon DEF
        Unkeyed!Query, Unkeyed!Cardinality, Overlapping!Paging!Cardinality, Unkeyed!Min, Overlapping!Paging!Min,
        Unkeyed!Place, Overlapping!Paging!Place, Unkeyed!Precedes, Overlapping!Paging!Precedes, Unkeyed!Null, Overlapping!Paging!Null
    <2>2. Overlapping!Paging!Query(cur, keyed) = Ordered(Overlapping!Paging!Selected(cur, keyed))
      BY Zenon DEF Overlapping!Paging!Query
    <2> HIDE DEF Ordered
    <2> QED BY <1>4, <2>1, <2>2, Zenon
  <1>6. \A rows : Unkeyed!PageEnd(rows) = Overlapping!Paging!PageEnd(rows)
    BY Zenon DEF
      Unkeyed!PageEnd, Overlapping!Paging!PageEnd, Unkeyed!Min, Overlapping!Paging!Min
  <1>7. \A rows, keyed : Unkeyed!Kept(rows, keyed) = Overlapping!Paging!Kept(rows, keyed)
    BY <1>6, Zenon DEF
      Unkeyed!Kept, Overlapping!Paging!Kept
  <1>8. \A rows, keyed : Unkeyed!TooManyTies(rows, keyed) <=> Overlapping!Paging!TooManyTies(rows, keyed)
    BY <1>7, Zenon DEF
      Unkeyed!TooManyTies, Overlapping!Paging!TooManyTies
  <1>9. \A cur, kept, keyed : Unkeyed!NextCursor(cur, kept, keyed) = Overlapping!Paging!NextCursor(cur, kept, keyed)
    BY Zenon DEF
      Unkeyed!NextCursor, Overlapping!Paging!NextCursor
  <1>10. \A cur : Unkeyed!ResumableSource(cur) <=> Overlapping!Paging!ResumableSource(cur)
    BY Zenon DEF
      Unkeyed!ResumableSource, Overlapping!Paging!ResumableSource, Unkeyed!NoCursor, Overlapping!Paging!NoCursor,
      Unkeyed!Null, Overlapping!Paging!Null
  <1>11. \A c : Unkeyed!InsertRow(c) <=> Overlapping!Paging!InsertRow(c)
    BY Zenon DEF
      Unkeyed!InsertRow, Overlapping!Paging!InsertRow, Unkeyed!AlwaysKeyed, Overlapping!Paging!AlwaysKeyed,
      Unkeyed!Null, Overlapping!Paging!Null, Unkeyed!Cardinality, Overlapping!Paging!Cardinality
  <1>12. \A c, n : Unkeyed!InsertTies(c, n) <=> Overlapping!Paging!InsertTies(c, n)
    BY Zenon DEF
      Unkeyed!InsertTies, Overlapping!Paging!InsertTies, Unkeyed!Cardinality, Overlapping!Paging!Cardinality
  <1>13. \A edit : Unkeyed!EditKeyColumn(edit) <=> Overlapping!Paging!EditKeyColumn(edit)
    BY Zenon DEF
      Unkeyed!EditKeyColumn, Overlapping!Paging!EditKeyColumn
  <1>14. \A r : Unkeyed!StartRun(r) <=> Overlapping!Paging!StartRun(r)
    BY Zenon DEF
      Unkeyed!StartRun, Overlapping!Paging!StartRun, Unkeyed!Start, Overlapping!Paging!Start,
      Unkeyed!Keyed, Overlapping!Paging!Keyed, Unkeyed!Idle,
      Overlapping!Paging!Idle, Unkeyed!NoCursor, Overlapping!Paging!NoCursor, Unkeyed!Null, Overlapping!Paging!Null
  <1>15. \A r : Unkeyed!SinksWrite(r) <=> Overlapping!Paging!SinksWrite(r)
    BY Zenon DEF
      Unkeyed!SinksWrite, Overlapping!Paging!SinksWrite, Unkeyed!Range, Overlapping!Paging!Range
  <1>16. \A r : Unkeyed!CommitSourceCursors(r) <=> Overlapping!Paging!CommitSourceCursors(r)
    BY Zenon DEF
      Unkeyed!CommitSourceCursors, Overlapping!Paging!CommitSourceCursors, Unkeyed!Idle, Overlapping!Paging!Idle,
      Unkeyed!NoCursor, Overlapping!Paging!NoCursor, Unkeyed!Null, Overlapping!Paging!Null
  <1>17. \A r : Unkeyed!RunFails(r) <=> Overlapping!Paging!RunFails(r)
    BY Zenon DEF
      Unkeyed!RunFails, Overlapping!Paging!RunFails, Unkeyed!Idle, Overlapping!Paging!Idle, Unkeyed!NoCursor,
      Overlapping!Paging!NoCursor, Unkeyed!Null, Overlapping!Paging!Null
  <1>18. \A r : Unkeyed!FetchSourcePage(r) <=> Overlapping!Paging!FetchSourcePage(r)
    <2> TAKE r
    <2> DEFINE p == pageRun[r]
               rows == Unkeyed!Query(p.cursor, p.keyed)
               kept == Unkeyed!Kept(rows, p.keyed)
               next == Unkeyed!NextCursor(p.cursor, kept, p.keyed)
               rows2 == Overlapping!Paging!Query(p.cursor, p.keyed)
               kept2 == Overlapping!Paging!Kept(rows2, p.keyed)
               next2 == Overlapping!Paging!NextCursor(p.cursor, kept2, p.keyed)
    <2>1. Unkeyed!FetchSourcePage(r) <=>
              PageFetched(2, 2, r, rows, kept, next, Unkeyed!TooManyTies(rows, p.keyed),
                          Unkeyed!ResumableSource(next), Unkeyed!Idle)
      BY Zenon DEF Unkeyed!FetchSourcePage, PageFetched
    <2>2. Overlapping!Paging!FetchSourcePage(r) <=>
              PageFetched(2, 2, r, rows2, kept2, next2, Overlapping!Paging!TooManyTies(rows2, p.keyed),
                          Overlapping!Paging!ResumableSource(next2), Overlapping!Paging!Idle)
      BY Zenon DEF Overlapping!Paging!FetchSourcePage, PageFetched
    <2>3. rows = rows2 /\ kept = kept2 /\ next = next2
      BY <1>5, <1>7, <1>9, Zenon
    <2>4. /\ Unkeyed!Idle = Overlapping!Paging!Idle /\ Unkeyed!ResumableSource(next) = Overlapping!Paging!ResumableSource(next2)
          /\ Unkeyed!TooManyTies(rows, p.keyed) = Overlapping!Paging!TooManyTies(rows2, p.keyed)
      BY <2>3, <1>3, <1>8, <1>10, Zenon DEF Unkeyed!ResumableSource, Overlapping!Paging!ResumableSource, Unkeyed!TooManyTies, Overlapping!Paging!TooManyTies
    <2> QED BY <2>1, <2>2, <2>3, <2>4, Zenon
  <1>19. [Unkeyed!Next]_(Unkeyed!vars) <=> [Overlapping!Paging!Next]_(Overlapping!Paging!vars)
    BY <1>11, <1>12, <1>13, <1>14, <1>15, <1>16, <1>17, <1>18, Zenon DEF
      Unkeyed!Next, Overlapping!Paging!Next, Unkeyed!vars, Overlapping!Paging!vars
  <1>20. Unkeyed!SavedIsDelivered <=> Overlapping!Paging!SavedIsDelivered
    BY <1>2, <1>4, Zenon DEF
      Unkeyed!SavedIsDelivered, Overlapping!Paging!SavedIsDelivered, Unkeyed!Wanted, Overlapping!Paging!Wanted
  <1>21. Unkeyed!ReadOnce <=> Overlapping!Paging!ReadOnce
    BY Zenon DEF
      Unkeyed!ReadOnce, Overlapping!Paging!ReadOnce, Unkeyed!IsInjective, Overlapping!Paging!IsInjective
  <1> QED BY <1>1, <1>19, <1>20, <1>21

LEMMA OverlappingParameters ==
  Overlapping!Sink!SinkAssumption /\ Overlapping!Node!NodeRunsAssumption /\ Overlapping!PageAssumption
  <1>1. Overlapping!Sink!SinkAssumption
    BY DEF Overlapping!Sink!SinkAssumption, Overlapping!Sink!AllSinks, Overlapping!Sink!Transactional,
           Overlapping!Sink!OneRequest, Unordered
  <1>2. Overlapping!Node!NodeRunsAssumption
    BY DEF Overlapping!Node!NodeRunsAssumption
  <1>3. Overlapping!PageAssumption
    BY DEF Overlapping!PageAssumption, Overlapping!Paging!PagingAssumption
  <1> QED BY <1>1, <1>2, <1>3

LEMMA OverlappingStarts ==
  ASSUME AllInit
  PROVE  /\ scenario = "overlaps" => Overlapping!SinkInv
         /\ scenario = "stale" => Overlapping!NodeInv
         /\ scenario = "unkeyed" => Overlapping!PageInv
  BY DataStarts, OverlappingParameters, OverlapsSame, StaleSame, UnkeyedSame, Overlapping!SinkStarts, Overlapping!NodeStarts, Overlapping!PageStarts

LEMMA OverlappingSteps ==
  ASSUME [AllNext]_allVars
  PROVE  /\ scenario = "overlaps" /\ Overlapping!SinkInv => Overlapping!SinkInv'
         /\ scenario = "stale" /\ Overlapping!NodeInv => Overlapping!NodeInv'
         /\ scenario = "unkeyed" /\ Overlapping!PageInv => Overlapping!PageInv'
  <1>1. scenario = "overlaps" /\ Overlapping!SinkInv => Overlapping!SinkInv'
    BY DataSteps, OverlappingParameters, OverlapsSame, Overlapping!SinkSteps
  <1>2. scenario = "stale" /\ Overlapping!NodeInv => Overlapping!NodeInv'
    BY DataSteps, OverlappingParameters, StaleSame, Overlapping!NodeSteps
  <1>3. scenario = "unkeyed" /\ Overlapping!PageInv => Overlapping!PageInv'
    BY DataSteps, OverlappingParameters, UnkeyedSame, Overlapping!PageSteps
  <1> QED BY <1>1, <1>2, <1>3

LEMMA OverlappingShows ==
  /\ Overlapping!SinkInv => Overlaps!SuccessIsDelivered /\ Overlaps!OnceIfRecognised
  /\ Overlapping!NodeInv => Stale!OutputIsAnswered
  /\ Overlapping!PageInv => Unkeyed!SavedIsDelivered /\ Unkeyed!ReadOnce
  <1>1. Overlapping!SinkInv => Overlaps!SuccessIsDelivered /\ Overlaps!OnceIfRecognised
    <2>1. Overlapping!SinkInv => sink \in Unordered
      BY DEF Overlapping!SinkInv, Overlapping!SinkShape
    <2> QED BY <2>1, OverlappingParameters, OverlapsSame, Overlapping!SinkImplies DEF Overlapping!Truncating, Unordered
  <1>2. Overlapping!NodeInv => Stale!OutputIsAnswered
    BY OverlappingParameters, StaleSame, Overlapping!NodeImplies
  <1>3. Overlapping!PageInv => Unkeyed!SavedIsDelivered /\ Unkeyed!ReadOnce
    BY OverlappingParameters, UnkeyedSame, Overlapping!PageImplies
  <1> QED BY <1>1, <1>2, <1>3

(* The sinks: a node that succeeded has put every record where it belongs, *)
(* and the sinks that write at once, or recognise a repeated delivery,     *)
(* show all records of an attempt or none, and none twice.                 *)
THEOREM SinksAlwaysDeliver == AllSpec => []SinksDeliver
  <1> DEFINE Inv == /\ scenario = "retries" => Plain!SinkInv
                    /\ scenario = "overlaps" => Overlapping!SinkInv
  <1>1. AllInit => Inv
    BY PlainStarts, OverlappingStarts
  <1>2. Inv /\ [AllNext]_allVars => Inv'
    BY DataSteps, PlainSteps, OverlappingSteps
  <1>3. Inv => SinksDeliver
    BY PlainShows, OverlappingShows DEF SinksDeliver
  <1> QED BY <1>1, <1>2, <1>3, PTL DEF AllSpec

-----------------------------------------------------------------------------
Dispatched == INSTANCE DataProofs WITH
    Sinks <- EverySink, Records <- 3, BatchRows <- 2, SinkAttempts <- 3, SinkOverlap <- FALSE,
    Kind <- "dispatch", Pages <- <<2>>, NodeAttempts <- 3, NodeOverlap <- TRUE,
    MaxPayload <- 50, MaxMerge <- 50, Strategy <- "concat",
    Source <- "mongo", PageSize <- 1, MaxPages <- 2, Window <- <<>>, KeyColumn <- TRUE, Edits <- {},
    NullsFirst <- TRUE, Values <- {1, 2}, MaxKey <- 4, Run <- TwoRuns, MaxFails <- 1

LEMMA DispatchSame ==
  /\ Dispatch!Init <=> Dispatched!Node!Init
  /\ [Dispatch!Next]_(Dispatch!vars) <=> [Dispatched!Node!Next]_(Dispatched!Node!vars)
  /\ Dispatch!OutputIsAnswered <=> Dispatched!Node!OutputIsAnswered
  <1>1. Dispatch!Init <=> Dispatched!Node!Init
    BY Zenon DEF
      Dispatch!Init, Dispatched!Node!Init, Dispatch!NoRow, Dispatched!Node!NoRow, Dispatch!Inputs,
      Dispatched!Node!Inputs, Dispatch!Consolidate, Dispatched!Node!Consolidate, Dispatch!Given,
      Dispatched!Node!Given, Dispatch!FlattenSeq, Dispatched!Node!FlattenSeq, Dispatch!FoldSeq,
      Dispatched!Node!FoldSeq, Dispatch!FoldFunction, Dispatched!Node!FoldFunction, Dispatch!FoldFunctionOnSet,
      Dispatched!Node!FoldFunctionOnSet, Dispatch!MapThenFoldSet, Dispatched!Node!MapThenFoldSet, Dispatch!Reverse,
      Dispatched!Node!Reverse
  <1>2. [Dispatch!Next]_(Dispatch!vars) <=> [Dispatched!Node!Next]_(Dispatched!Node!vars)
    BY Zenon DEF
      Dispatch!Next, Dispatched!Node!Next, Dispatch!vars, Dispatched!Node!vars, Dispatch!Attempt,
      Dispatched!Node!Attempt, Dispatch!Refused, Dispatched!Node!Refused, Dispatch!HandlerFails,
      Dispatched!Node!HandlerFails, Dispatch!TooLarge, Dispatched!Node!TooLarge, Dispatch!MergeLimit,
      Dispatched!Node!MergeLimit, Dispatch!Write, Dispatched!Node!Write, Dispatch!WriteFails,
      Dispatched!Node!WriteFails, Dispatch!Record, Dispatched!Node!Record, Dispatch!Answer, Dispatched!Node!Answer,
      Dispatch!Lost, Dispatched!Node!Lost, Dispatch!Of, Dispatched!Node!Of, Dispatch!Fail, Dispatched!Node!Fail,
      Dispatch!Recorded, Dispatched!Node!Recorded, Dispatch!Readable, Dispatched!Node!Readable, Dispatch!Oversized,
      Dispatched!Node!Oversized, Dispatch!MergeAccepted, Dispatched!Node!MergeAccepted, Dispatch!PayloadWrite,
      Dispatched!Node!PayloadWrite, Dispatch!Computed, Dispatched!Node!Computed, Dispatch!PayloadKey,
      Dispatched!Node!PayloadKey, Dispatch!Stage, Dispatched!Node!Stage, Dispatch!Consolidate,
      Dispatched!Node!Consolidate, Dispatch!RecordNodeRun, Dispatched!Node!RecordNodeRun, Dispatch!Size,
      Dispatched!Node!Size, Dispatch!StreamFits, Dispatched!Node!StreamFits, Dispatch!RecordCount,
      Dispatched!Node!RecordCount, Dispatch!NoRow, Dispatched!Node!NoRow, Dispatch!FlattenSeq,
      Dispatched!Node!FlattenSeq, Dispatch!FoldSeq, Dispatched!Node!FoldSeq, Dispatch!FoldFunction,
      Dispatched!Node!FoldFunction, Dispatch!FoldFunctionOnSet, Dispatched!Node!FoldFunctionOnSet,
      Dispatch!MapThenFoldSet, Dispatched!Node!MapThenFoldSet, Dispatch!Reverse, Dispatched!Node!Reverse
  <1>3. Dispatch!OutputIsAnswered <=> Dispatched!Node!OutputIsAnswered
    BY Zenon DEF
      Dispatch!OutputIsAnswered, Dispatched!Node!OutputIsAnswered, Dispatch!FlattenSeq, Dispatched!Node!FlattenSeq,
      Dispatch!FoldSeq, Dispatched!Node!FoldSeq, Dispatch!FoldFunction, Dispatched!Node!FoldFunction,
      Dispatch!FoldFunctionOnSet, Dispatched!Node!FoldFunctionOnSet, Dispatch!MapThenFoldSet,
      Dispatched!Node!MapThenFoldSet, Dispatch!Reverse, Dispatched!Node!Reverse
  <1> QED BY <1>1, <1>2, <1>3

LEMMA MongoSame ==
  /\ Mongo!Init <=> Dispatched!Paging!Init
  /\ [Mongo!Next]_(Mongo!vars) <=> [Dispatched!Paging!Next]_(Dispatched!Paging!vars)
  /\ Mongo!SavedIsDelivered <=> Dispatched!Paging!SavedIsDelivered
  /\ Mongo!ReadOnce <=> Dispatched!Paging!ReadOnce
  <1>1. Mongo!Init <=> Dispatched!Paging!Init
    BY Zenon DEF
      Mongo!Init, Dispatched!Paging!Init, Mongo!Idle, Dispatched!Paging!Idle, Mongo!NoCursor,
      Dispatched!Paging!NoCursor, Mongo!Null, Dispatched!Paging!Null
  <1>2. Mongo!Keyed = Dispatched!Paging!Keyed
    BY Zenon DEF
      Mongo!Keyed, Dispatched!Paging!Keyed
  <1>3. Mongo!Idle = Dispatched!Paging!Idle /\ Mongo!NoCursor = Dispatched!Paging!NoCursor
    BY Zenon DEF
      Mongo!Idle, Dispatched!Paging!Idle, Mongo!NoCursor, Dispatched!Paging!NoCursor, Mongo!Null,
      Dispatched!Paging!Null
  <1>4. \A cur, keyed : Mongo!Selected(cur, keyed) = Dispatched!Paging!Selected(cur, keyed)
    BY Zenon DEF
      Mongo!Selected, Dispatched!Paging!Selected, Mongo!Selects, Dispatched!Paging!Selects,
      Mongo!PlanIncrementalPage, Dispatched!Paging!PlanIncrementalPage, Mongo!SnowflakeWhere,
      Dispatched!Paging!SnowflakeWhere, Mongo!MongoPageFilter, Dispatched!Paging!MongoPageFilter, Mongo!InWindow,
      Dispatched!Paging!InWindow, Mongo!After, Dispatched!Paging!After, Mongo!Null, Dispatched!Paging!Null,
      Mongo!NoCursor, Dispatched!Paging!NoCursor
  <1>5. \A cur, keyed : Mongo!Query(cur, keyed) = Dispatched!Paging!Query(cur, keyed)
    <2> TAKE cur, keyed
    <2> DEFINE Ordered(S) == [i \in 1..Dispatched!Paging!Min({Dispatched!Paging!Cardinality(S), 1 + 1}) |->
                                 CHOOSE x \in S : Dispatched!Paging!Place(x, S) = i]
    <2>1. Mongo!Query(cur, keyed) = Ordered(Mongo!Selected(cur, keyed))
      BY Zenon DEF
        Mongo!Query, Mongo!Cardinality, Dispatched!Paging!Cardinality, Mongo!Min, Dispatched!Paging!Min,
        Mongo!Place, Dispatched!Paging!Place, Mongo!Precedes, Dispatched!Paging!Precedes, Mongo!Null, Dispatched!Paging!Null
    <2>2. Dispatched!Paging!Query(cur, keyed) = Ordered(Dispatched!Paging!Selected(cur, keyed))
      BY Zenon DEF Dispatched!Paging!Query
    <2> HIDE DEF Ordered
    <2> QED BY <1>4, <2>1, <2>2, Zenon
  <1>6. \A rows : Mongo!PageEnd(rows) = Dispatched!Paging!PageEnd(rows)
    BY Zenon DEF
      Mongo!PageEnd, Dispatched!Paging!PageEnd, Mongo!Min, Dispatched!Paging!Min
  <1>7. \A rows, keyed : Mongo!Kept(rows, keyed) = Dispatched!Paging!Kept(rows, keyed)
    BY <1>6, Zenon DEF
      Mongo!Kept, Dispatched!Paging!Kept
  <1>8. \A rows, keyed : Mongo!TooManyTies(rows, keyed) <=> Dispatched!Paging!TooManyTies(rows, keyed)
    BY <1>7, Zenon DEF
      Mongo!TooManyTies, Dispatched!Paging!TooManyTies
  <1>9. \A cur, kept, keyed : Mongo!NextCursor(cur, kept, keyed) = Dispatched!Paging!NextCursor(cur, kept, keyed)
    BY Zenon DEF
      Mongo!NextCursor, Dispatched!Paging!NextCursor
  <1>10. \A cur : Mongo!ResumableSource(cur) <=> Dispatched!Paging!ResumableSource(cur)
    BY Zenon DEF
      Mongo!ResumableSource, Dispatched!Paging!ResumableSource, Mongo!NoCursor, Dispatched!Paging!NoCursor,
      Mongo!Null, Dispatched!Paging!Null
  <1>11. \A c : Mongo!InsertRow(c) <=> Dispatched!Paging!InsertRow(c)
    BY Zenon DEF
      Mongo!InsertRow, Dispatched!Paging!InsertRow, Mongo!AlwaysKeyed, Dispatched!Paging!AlwaysKeyed, Mongo!Null,
      Dispatched!Paging!Null, Mongo!Cardinality, Dispatched!Paging!Cardinality
  <1>12. \A c, n : Mongo!InsertTies(c, n) <=> Dispatched!Paging!InsertTies(c, n)
    BY Zenon DEF
      Mongo!InsertTies, Dispatched!Paging!InsertTies, Mongo!Cardinality, Dispatched!Paging!Cardinality
  <1>13. \A edit : Mongo!EditKeyColumn(edit) <=> Dispatched!Paging!EditKeyColumn(edit)
    BY Zenon DEF
      Mongo!EditKeyColumn, Dispatched!Paging!EditKeyColumn
  <1>14. \A r : Mongo!StartRun(r) <=> Dispatched!Paging!StartRun(r)
    BY Zenon DEF
      Mongo!Start, Dispatched!Paging!Start, Mongo!StartRun, Dispatched!Paging!StartRun, Mongo!Keyed, Dispatched!Paging!Keyed, Mongo!Idle,
      Dispatched!Paging!Idle, Mongo!NoCursor, Dispatched!Paging!NoCursor, Mongo!Null, Dispatched!Paging!Null
  <1>15. \A r : Mongo!SinksWrite(r) <=> Dispatched!Paging!SinksWrite(r)
    BY Zenon DEF
      Mongo!SinksWrite, Dispatched!Paging!SinksWrite, Mongo!Range, Dispatched!Paging!Range
  <1>16. \A r : Mongo!CommitSourceCursors(r) <=> Dispatched!Paging!CommitSourceCursors(r)
    BY Zenon DEF
      Mongo!CommitSourceCursors, Dispatched!Paging!CommitSourceCursors, Mongo!Idle, Dispatched!Paging!Idle,
      Mongo!NoCursor, Dispatched!Paging!NoCursor, Mongo!Null, Dispatched!Paging!Null
  <1>17. \A r : Mongo!RunFails(r) <=> Dispatched!Paging!RunFails(r)
    BY Zenon DEF
      Mongo!RunFails, Dispatched!Paging!RunFails, Mongo!Idle, Dispatched!Paging!Idle, Mongo!NoCursor,
      Dispatched!Paging!NoCursor, Mongo!Null, Dispatched!Paging!Null
  <1>18. \A r : Mongo!FetchSourcePage(r) <=> Dispatched!Paging!FetchSourcePage(r)
    <2> TAKE r
    <2> DEFINE p == pageRun[r]
               rows == Mongo!Query(p.cursor, p.keyed)
               kept == Mongo!Kept(rows, p.keyed)
               next == Mongo!NextCursor(p.cursor, kept, p.keyed)
               rows2 == Dispatched!Paging!Query(p.cursor, p.keyed)
               kept2 == Dispatched!Paging!Kept(rows2, p.keyed)
               next2 == Dispatched!Paging!NextCursor(p.cursor, kept2, p.keyed)
    <2>1. Mongo!FetchSourcePage(r) <=>
              PageFetched(1, 2, r, rows, kept, next, Mongo!TooManyTies(rows, p.keyed),
                          Mongo!ResumableSource(next), Mongo!Idle)
      BY Zenon DEF Mongo!FetchSourcePage, PageFetched
    <2>2. Dispatched!Paging!FetchSourcePage(r) <=>
              PageFetched(1, 2, r, rows2, kept2, next2, Dispatched!Paging!TooManyTies(rows2, p.keyed),
                          Dispatched!Paging!ResumableSource(next2), Dispatched!Paging!Idle)
      BY Zenon DEF Dispatched!Paging!FetchSourcePage, PageFetched
    <2>3. rows = rows2 /\ kept = kept2 /\ next = next2
      BY <1>5, <1>7, <1>9, Zenon
    <2>4. /\ Mongo!Idle = Dispatched!Paging!Idle /\ Mongo!ResumableSource(next) = Dispatched!Paging!ResumableSource(next2)
          /\ Mongo!TooManyTies(rows, p.keyed) = Dispatched!Paging!TooManyTies(rows2, p.keyed)
      BY <2>3, <1>3, <1>8, <1>10, Zenon DEF Mongo!ResumableSource, Dispatched!Paging!ResumableSource, Mongo!TooManyTies, Dispatched!Paging!TooManyTies
    <2> QED BY <2>1, <2>2, <2>3, <2>4, Zenon
  <1>19. [Mongo!Next]_(Mongo!vars) <=> [Dispatched!Paging!Next]_(Dispatched!Paging!vars)
    BY <1>11, <1>12, <1>13, <1>14, <1>15, <1>16, <1>17, <1>18, Zenon DEF
      Mongo!Next, Dispatched!Paging!Next, Mongo!vars, Dispatched!Paging!vars
  <1>20. Mongo!SavedIsDelivered <=> Dispatched!Paging!SavedIsDelivered
    BY <1>2, <1>4, Zenon DEF
      Mongo!SavedIsDelivered, Dispatched!Paging!SavedIsDelivered, Mongo!Wanted, Dispatched!Paging!Wanted
  <1>21. Mongo!ReadOnce <=> Dispatched!Paging!ReadOnce
    BY Zenon DEF
      Mongo!ReadOnce, Dispatched!Paging!ReadOnce, Mongo!IsInjective, Dispatched!Paging!IsInjective
  <1> QED BY <1>1, <1>19, <1>20, <1>21

LEMMA DispatchedParameters ==
  Dispatched!Node!NodeRunsAssumption /\ Dispatched!PageAssumption
  <1>1. Dispatched!Node!NodeRunsAssumption
    BY DEF Dispatched!Node!NodeRunsAssumption
  <1>2. Dispatched!PageAssumption
    BY DEF Dispatched!PageAssumption, Dispatched!Paging!PagingAssumption
  <1> QED BY <1>1, <1>2

LEMMA DispatchedStarts ==
  ASSUME AllInit
  PROVE  /\ scenario = "dispatch" => Dispatched!NodeInv
         /\ scenario = "mongo" => Dispatched!PageInv
  BY DataStarts, DispatchedParameters, DispatchSame, MongoSame, Dispatched!NodeStarts, Dispatched!PageStarts

LEMMA DispatchedSteps ==
  ASSUME [AllNext]_allVars
  PROVE  /\ scenario = "dispatch" /\ Dispatched!NodeInv => Dispatched!NodeInv'
         /\ scenario = "mongo" /\ Dispatched!PageInv => Dispatched!PageInv'
  <1>1. scenario = "dispatch" /\ Dispatched!NodeInv => Dispatched!NodeInv'
    BY DataSteps, DispatchedParameters, DispatchSame, Dispatched!NodeSteps
  <1>2. scenario = "mongo" /\ Dispatched!PageInv => Dispatched!PageInv'
    BY DataSteps, DispatchedParameters, MongoSame, Dispatched!PageSteps
  <1> QED BY <1>1, <1>2

LEMMA DispatchedShows ==
  /\ Dispatched!NodeInv => Dispatch!OutputIsAnswered
  /\ Dispatched!PageInv => Mongo!SavedIsDelivered /\ Mongo!ReadOnce
  <1>1. Dispatched!NodeInv => Dispatch!OutputIsAnswered
    BY DispatchedParameters, DispatchSame, Dispatched!NodeImplies
  <1>2. Dispatched!PageInv => Mongo!SavedIsDelivered /\ Mongo!ReadOnce
    BY DispatchedParameters, MongoSame, Dispatched!PageImplies
  <1> QED BY <1>1, <1>2

-----------------------------------------------------------------------------
Merged == INSTANCE DataProofs WITH
    Sinks <- EverySink, Records <- 3, BatchRows <- 2, SinkAttempts <- 3, SinkOverlap <- FALSE,
    Kind <- "merge", Pages <- <<2, 2>>, NodeAttempts <- 3, NodeOverlap <- FALSE,
    MaxPayload <- 50, MaxMerge <- 9, Strategy <- "concat",
    Source <- "sql", PageSize <- 2, MaxPages <- 2, Window <- <<2, 4>>, KeyColumn <- FALSE, Edits <- {},
    NullsFirst <- FALSE, Values <- {1, 2, 3, 4}, MaxKey <- 5, Run <- {"r1"}, MaxFails <- 1

LEMMA MergeSame ==
  /\ Merge!Init <=> Merged!Node!Init
  /\ [Merge!Next]_(Merge!vars) <=> [Merged!Node!Next]_(Merged!Node!vars)
  /\ Merge!SuccessCounted <=> Merged!Node!SuccessCounted
  /\ Merge!FailureVisible <=> Merged!Node!FailureVisible
  /\ Merge!OutputIsAnswered <=> Merged!Node!OutputIsAnswered
  <1>1. Merge!Init <=> Merged!Node!Init
    BY Zenon DEF
      Merge!Init, Merged!Node!Init, Merge!NoRow, Merged!Node!NoRow, Merge!Inputs, Merged!Node!Inputs,
      Merge!Consolidate, Merged!Node!Consolidate, Merge!Given, Merged!Node!Given, Merge!FlattenSeq,
      Merged!Node!FlattenSeq, Merge!FoldSeq, Merged!Node!FoldSeq, Merge!FoldFunction, Merged!Node!FoldFunction,
      Merge!FoldFunctionOnSet, Merged!Node!FoldFunctionOnSet, Merge!MapThenFoldSet, Merged!Node!MapThenFoldSet,
      Merge!Reverse, Merged!Node!Reverse
  <1>2. [Merge!Next]_(Merge!vars) <=> [Merged!Node!Next]_(Merged!Node!vars)
    BY Zenon DEF
      Merge!Next, Merged!Node!Next, Merge!vars, Merged!Node!vars, Merge!Attempt, Merged!Node!Attempt, Merge!Refused,
      Merged!Node!Refused, Merge!HandlerFails, Merged!Node!HandlerFails, Merge!TooLarge, Merged!Node!TooLarge,
      Merge!MergeLimit, Merged!Node!MergeLimit, Merge!Write, Merged!Node!Write, Merge!WriteFails,
      Merged!Node!WriteFails, Merge!Record, Merged!Node!Record, Merge!Answer, Merged!Node!Answer, Merge!Lost,
      Merged!Node!Lost, Merge!Of, Merged!Node!Of, Merge!Fail, Merged!Node!Fail, Merge!Recorded, Merged!Node!Recorded,
      Merge!Readable, Merged!Node!Readable, Merge!Oversized, Merged!Node!Oversized, Merge!MergeAccepted,
      Merged!Node!MergeAccepted, Merge!PayloadWrite, Merged!Node!PayloadWrite, Merge!Computed, Merged!Node!Computed,
      Merge!PayloadKey, Merged!Node!PayloadKey, Merge!Stage, Merged!Node!Stage, Merge!Consolidate,
      Merged!Node!Consolidate, Merge!RecordNodeRun, Merged!Node!RecordNodeRun, Merge!Size, Merged!Node!Size,
      Merge!StreamFits, Merged!Node!StreamFits, Merge!RecordCount, Merged!Node!RecordCount, Merge!NoRow,
      Merged!Node!NoRow, Merge!FlattenSeq, Merged!Node!FlattenSeq, Merge!FoldSeq, Merged!Node!FoldSeq,
      Merge!FoldFunction, Merged!Node!FoldFunction, Merge!FoldFunctionOnSet, Merged!Node!FoldFunctionOnSet,
      Merge!MapThenFoldSet, Merged!Node!MapThenFoldSet, Merge!Reverse, Merged!Node!Reverse
  <1>3. Merge!SuccessCounted <=> Merged!Node!SuccessCounted
    BY Zenon DEF
      Merge!SuccessCounted, Merged!Node!SuccessCounted, Merge!FlattenSeq, Merged!Node!FlattenSeq, Merge!FoldSeq,
      Merged!Node!FoldSeq, Merge!FoldFunction, Merged!Node!FoldFunction, Merge!FoldFunctionOnSet,
      Merged!Node!FoldFunctionOnSet, Merge!MapThenFoldSet, Merged!Node!MapThenFoldSet, Merge!Reverse,
      Merged!Node!Reverse
  <1>4. Merge!FailureVisible <=> Merged!Node!FailureVisible
    BY Zenon DEF
      Merge!FailureVisible, Merged!Node!FailureVisible, Merge!FlattenSeq, Merged!Node!FlattenSeq, Merge!FoldSeq,
      Merged!Node!FoldSeq, Merge!FoldFunction, Merged!Node!FoldFunction, Merge!FoldFunctionOnSet,
      Merged!Node!FoldFunctionOnSet, Merge!MapThenFoldSet, Merged!Node!MapThenFoldSet, Merge!Reverse,
      Merged!Node!Reverse
  <1>5. Merge!OutputIsAnswered <=> Merged!Node!OutputIsAnswered
    BY Zenon DEF
      Merge!OutputIsAnswered, Merged!Node!OutputIsAnswered, Merge!FlattenSeq, Merged!Node!FlattenSeq, Merge!FoldSeq,
      Merged!Node!FoldSeq, Merge!FoldFunction, Merged!Node!FoldFunction, Merge!FoldFunctionOnSet,
      Merged!Node!FoldFunctionOnSet, Merge!MapThenFoldSet, Merged!Node!MapThenFoldSet, Merge!Reverse,
      Merged!Node!Reverse
  <1> QED BY <1>1, <1>2, <1>3, <1>4, <1>5

LEMMA WindowedSame ==
  /\ Windowed!Init <=> Merged!Paging!Init
  /\ [Windowed!Next]_(Windowed!vars) <=> [Merged!Paging!Next]_(Merged!Paging!vars)
  /\ Windowed!TypeOK <=> Merged!Paging!TypeOK
  /\ Windowed!SavedIsDelivered <=> Merged!Paging!SavedIsDelivered
  <1>1. Windowed!Init <=> Merged!Paging!Init
    BY Zenon DEF
      Windowed!Init, Merged!Paging!Init, Windowed!Idle, Merged!Paging!Idle, Windowed!NoCursor,
      Merged!Paging!NoCursor, Windowed!Null, Merged!Paging!Null
  <1>2. Windowed!Keyed = Merged!Paging!Keyed
    BY Zenon DEF
      Windowed!Keyed, Merged!Paging!Keyed
  <1>3. Windowed!Idle = Merged!Paging!Idle /\ Windowed!NoCursor = Merged!Paging!NoCursor
    BY Zenon DEF
      Windowed!Idle, Merged!Paging!Idle, Windowed!NoCursor, Merged!Paging!NoCursor, Windowed!Null, Merged!Paging!Null
  <1>4. \A cur, keyed : Windowed!Selected(cur, keyed) = Merged!Paging!Selected(cur, keyed)
    BY Zenon DEF
      Windowed!Selected, Merged!Paging!Selected, Windowed!Selects, Merged!Paging!Selects,
      Windowed!PlanIncrementalPage, Merged!Paging!PlanIncrementalPage, Windowed!SnowflakeWhere,
      Merged!Paging!SnowflakeWhere, Windowed!MongoPageFilter, Merged!Paging!MongoPageFilter, Windowed!InWindow,
      Merged!Paging!InWindow, Windowed!After, Merged!Paging!After, Windowed!Null, Merged!Paging!Null,
      Windowed!NoCursor, Merged!Paging!NoCursor
  <1>5. \A cur, keyed : Windowed!Query(cur, keyed) = Merged!Paging!Query(cur, keyed)
    <2> TAKE cur, keyed
    <2> DEFINE Ordered(S) == [i \in 1..Merged!Paging!Min({Merged!Paging!Cardinality(S), 2 + 1}) |->
                                 CHOOSE x \in S : Merged!Paging!Place(x, S) = i]
    <2>1. Windowed!Query(cur, keyed) = Ordered(Windowed!Selected(cur, keyed))
      BY Zenon DEF
        Windowed!Query, Windowed!Cardinality, Merged!Paging!Cardinality, Windowed!Min, Merged!Paging!Min,
        Windowed!Place, Merged!Paging!Place, Windowed!Precedes, Merged!Paging!Precedes, Windowed!Null, Merged!Paging!Null
    <2>2. Merged!Paging!Query(cur, keyed) = Ordered(Merged!Paging!Selected(cur, keyed))
      BY Zenon DEF Merged!Paging!Query
    <2> HIDE DEF Ordered
    <2> QED BY <1>4, <2>1, <2>2, Zenon
  <1>6. \A rows : Windowed!PageEnd(rows) = Merged!Paging!PageEnd(rows)
    BY Zenon DEF
      Windowed!PageEnd, Merged!Paging!PageEnd, Windowed!Min, Merged!Paging!Min
  <1>7. \A rows, keyed : Windowed!Kept(rows, keyed) = Merged!Paging!Kept(rows, keyed)
    BY <1>6, Zenon DEF
      Windowed!Kept, Merged!Paging!Kept
  <1>8. \A rows, keyed : Windowed!TooManyTies(rows, keyed) <=> Merged!Paging!TooManyTies(rows, keyed)
    BY <1>7, Zenon DEF
      Windowed!TooManyTies, Merged!Paging!TooManyTies
  <1>9. \A cur, kept, keyed : Windowed!NextCursor(cur, kept, keyed) = Merged!Paging!NextCursor(cur, kept, keyed)
    BY Zenon DEF
      Windowed!NextCursor, Merged!Paging!NextCursor
  <1>10. \A cur : Windowed!ResumableSource(cur) <=> Merged!Paging!ResumableSource(cur)
    BY Zenon DEF
      Windowed!ResumableSource, Merged!Paging!ResumableSource, Windowed!NoCursor, Merged!Paging!NoCursor,
      Windowed!Null, Merged!Paging!Null
  <1>11. \A c : Windowed!InsertRow(c) <=> Merged!Paging!InsertRow(c)
    BY Zenon DEF
      Windowed!InsertRow, Merged!Paging!InsertRow, Windowed!AlwaysKeyed, Merged!Paging!AlwaysKeyed, Windowed!Null,
      Merged!Paging!Null, Windowed!Cardinality, Merged!Paging!Cardinality
  <1>12. \A c, n : Windowed!InsertTies(c, n) <=> Merged!Paging!InsertTies(c, n)
    BY Zenon DEF
      Windowed!InsertTies, Merged!Paging!InsertTies, Windowed!Cardinality, Merged!Paging!Cardinality
  <1>13. \A edit : Windowed!EditKeyColumn(edit) <=> Merged!Paging!EditKeyColumn(edit)
    BY Zenon DEF
      Windowed!EditKeyColumn, Merged!Paging!EditKeyColumn
  <1>14. \A r : Windowed!StartRun(r) <=> Merged!Paging!StartRun(r)
    BY Zenon DEF
      Windowed!Start, Merged!Paging!Start, Windowed!StartRun, Merged!Paging!StartRun, Windowed!Keyed, Merged!Paging!Keyed, Windowed!Idle,
      Merged!Paging!Idle, Windowed!NoCursor, Merged!Paging!NoCursor, Windowed!Null, Merged!Paging!Null
  <1>15. \A r : Windowed!SinksWrite(r) <=> Merged!Paging!SinksWrite(r)
    BY Zenon DEF
      Windowed!SinksWrite, Merged!Paging!SinksWrite, Windowed!Range, Merged!Paging!Range
  <1>16. \A r : Windowed!CommitSourceCursors(r) <=> Merged!Paging!CommitSourceCursors(r)
    BY Zenon DEF
      Windowed!CommitSourceCursors, Merged!Paging!CommitSourceCursors, Windowed!Idle, Merged!Paging!Idle,
      Windowed!NoCursor, Merged!Paging!NoCursor, Windowed!Null, Merged!Paging!Null
  <1>17. \A r : Windowed!RunFails(r) <=> Merged!Paging!RunFails(r)
    BY Zenon DEF
      Windowed!RunFails, Merged!Paging!RunFails, Windowed!Idle, Merged!Paging!Idle, Windowed!NoCursor,
      Merged!Paging!NoCursor, Windowed!Null, Merged!Paging!Null
  <1>18. \A r : Windowed!FetchSourcePage(r) <=> Merged!Paging!FetchSourcePage(r)
    <2> TAKE r
    <2> DEFINE p == pageRun[r]
               rows == Windowed!Query(p.cursor, p.keyed)
               kept == Windowed!Kept(rows, p.keyed)
               next == Windowed!NextCursor(p.cursor, kept, p.keyed)
               rows2 == Merged!Paging!Query(p.cursor, p.keyed)
               kept2 == Merged!Paging!Kept(rows2, p.keyed)
               next2 == Merged!Paging!NextCursor(p.cursor, kept2, p.keyed)
    <2>1. Windowed!FetchSourcePage(r) <=>
              PageFetched(2, 2, r, rows, kept, next, Windowed!TooManyTies(rows, p.keyed),
                          Windowed!ResumableSource(next), Windowed!Idle)
      BY Zenon DEF Windowed!FetchSourcePage, PageFetched
    <2>2. Merged!Paging!FetchSourcePage(r) <=>
              PageFetched(2, 2, r, rows2, kept2, next2, Merged!Paging!TooManyTies(rows2, p.keyed),
                          Merged!Paging!ResumableSource(next2), Merged!Paging!Idle)
      BY Zenon DEF Merged!Paging!FetchSourcePage, PageFetched
    <2>3. rows = rows2 /\ kept = kept2 /\ next = next2
      BY <1>5, <1>7, <1>9, Zenon
    <2>4. /\ Windowed!Idle = Merged!Paging!Idle /\ Windowed!ResumableSource(next) = Merged!Paging!ResumableSource(next2)
          /\ Windowed!TooManyTies(rows, p.keyed) = Merged!Paging!TooManyTies(rows2, p.keyed)
      BY <2>3, <1>3, <1>8, <1>10, Zenon DEF Windowed!ResumableSource, Merged!Paging!ResumableSource, Windowed!TooManyTies, Merged!Paging!TooManyTies
    <2> QED BY <2>1, <2>2, <2>3, <2>4, Zenon
  <1>19. [Windowed!Next]_(Windowed!vars) <=> [Merged!Paging!Next]_(Merged!Paging!vars)
    BY <1>11, <1>12, <1>13, <1>14, <1>15, <1>16, <1>17, <1>18, Zenon DEF
      Windowed!Next, Merged!Paging!Next, Windowed!vars, Merged!Paging!vars
  <1>20. Windowed!TypeOK <=> Merged!Paging!TypeOK
    BY Zenon DEF
      Windowed!TypeOK, Merged!Paging!TypeOK, Windowed!Range, Merged!Paging!Range, Windowed!Null, Merged!Paging!Null
  <1>21. Windowed!SavedIsDelivered <=> Merged!Paging!SavedIsDelivered
    BY <1>2, <1>4, Zenon DEF
      Windowed!SavedIsDelivered, Merged!Paging!SavedIsDelivered, Windowed!Wanted, Merged!Paging!Wanted
  <1> QED BY <1>1, <1>19, <1>20, <1>21

LEMMA MergedParameters ==
  Merged!Node!NodeRunsAssumption /\ Merged!PageAssumption
  <1>1. Merged!Node!NodeRunsAssumption
    BY DEF Merged!Node!NodeRunsAssumption
  <1>2. Merged!PageAssumption
    BY DEF Merged!PageAssumption, Merged!Paging!PagingAssumption
  <1> QED BY <1>1, <1>2

LEMMA MergedStarts ==
  ASSUME AllInit
  PROVE  /\ scenario = "merge" => Merged!NodeInv
         /\ scenario = "window" => Merged!PageInv
  BY DataStarts, MergedParameters, MergeSame, WindowedSame, Merged!NodeStarts, Merged!PageStarts

LEMMA MergedSteps ==
  ASSUME [AllNext]_allVars
  PROVE  /\ scenario = "merge" /\ Merged!NodeInv => Merged!NodeInv'
         /\ scenario = "window" /\ Merged!PageInv => Merged!PageInv'
  <1>1. scenario = "merge" /\ Merged!NodeInv => Merged!NodeInv'
    BY DataSteps, MergedParameters, MergeSame, Merged!NodeSteps
  <1>2. scenario = "window" /\ Merged!PageInv => Merged!PageInv'
    BY DataSteps, MergedParameters, WindowedSame, Merged!PageSteps
  <1> QED BY <1>1, <1>2

LEMMA MergedShows ==
  /\ Merged!NodeInv => Merge!SuccessCounted /\ Merge!FailureVisible /\ Merge!OutputIsAnswered
  /\ Merged!PageInv => Windowed!TypeOK /\ Windowed!SavedIsDelivered
  <1>1. Merged!NodeInv => Merge!SuccessCounted /\ Merge!FailureVisible /\ Merge!OutputIsAnswered
    BY MergedParameters, MergeSame, Merged!NodeImplies
  <1>2. Merged!PageInv => Windowed!TypeOK /\ Windowed!SavedIsDelivered
    BY MergedParameters, WindowedSame, Merged!PageImplies
  <1> QED BY <1>1, <1>2

(* planIncrementalPage, CommitSourceCursors: what the saved cursor will    *)
(* not select any more has reached the sinks, and a run reads no row twice.*)
THEOREM PagesAlwaysExact == AllSpec => []PagesExact
  <1> DEFINE Inv == /\ scenario = "keyed" => Plain!PageInv
                    /\ scenario = "unkeyed" => Overlapping!PageInv
                    /\ scenario = "mongo" => Dispatched!PageInv
                    /\ scenario = "window" => Merged!PageInv
  <1>1. AllInit => Inv
    BY PlainStarts, OverlappingStarts, DispatchedStarts, MergedStarts
  <1>2. Inv /\ [AllNext]_allVars => Inv'
    BY DataSteps, PlainSteps, OverlappingSteps, DispatchedSteps, MergedSteps
  <1>3. Inv => PagesExact
    BY PlainShows, OverlappingShows, DispatchedShows, MergedShows DEF PagesExact
  <1> QED BY <1>1, <1>2, <1>3, PTL DEF AllSpec

-----------------------------------------------------------------------------
Limited == INSTANCE DataProofs WITH
    Sinks <- EverySink, Records <- 3, BatchRows <- 2, SinkAttempts <- 3, SinkOverlap <- FALSE,
    Kind <- "source", Pages <- <<2, 1>>, NodeAttempts <- 2, NodeOverlap <- FALSE,
    MaxPayload <- 4, MaxMerge <- 6, Strategy <- "concat",
    Source <- "sql", PageSize <- 2, MaxPages <- 2, Window <- <<>>, KeyColumn <- TRUE, Edits <- {},
    NullsFirst <- FALSE, Values <- {1, 2}, MaxKey <- 4, Run <- TwoRuns, MaxFails <- 1

LEMMA LimitsSame ==
  /\ Limits!Init <=> Limited!Node!Init
  /\ [Limits!Next]_(Limits!vars) <=> [Limited!Node!Next]_(Limited!Node!vars)
  /\ Limits!FailureVisible <=> Limited!Node!FailureVisible
  <1>1. Limits!Init <=> Limited!Node!Init
    BY Zenon DEF
      Limits!Init, Limited!Node!Init, Limits!NoRow, Limited!Node!NoRow, Limits!Inputs, Limited!Node!Inputs,
      Limits!Consolidate, Limited!Node!Consolidate, Limits!Given, Limited!Node!Given, Limits!FlattenSeq,
      Limited!Node!FlattenSeq, Limits!FoldSeq, Limited!Node!FoldSeq, Limits!FoldFunction, Limited!Node!FoldFunction,
      Limits!FoldFunctionOnSet, Limited!Node!FoldFunctionOnSet, Limits!MapThenFoldSet, Limited!Node!MapThenFoldSet,
      Limits!Reverse, Limited!Node!Reverse
  <1>2. [Limits!Next]_(Limits!vars) <=> [Limited!Node!Next]_(Limited!Node!vars)
    BY Zenon DEF
      Limits!Next, Limited!Node!Next, Limits!vars, Limited!Node!vars, Limits!Attempt, Limited!Node!Attempt,
      Limits!Refused, Limited!Node!Refused, Limits!HandlerFails, Limited!Node!HandlerFails, Limits!TooLarge,
      Limited!Node!TooLarge, Limits!MergeLimit, Limited!Node!MergeLimit, Limits!Write, Limited!Node!Write,
      Limits!WriteFails, Limited!Node!WriteFails, Limits!Record, Limited!Node!Record, Limits!Answer,
      Limited!Node!Answer, Limits!Lost, Limited!Node!Lost, Limits!Of, Limited!Node!Of, Limits!Fail,
      Limited!Node!Fail, Limits!Recorded, Limited!Node!Recorded, Limits!Readable, Limited!Node!Readable,
      Limits!Oversized, Limited!Node!Oversized, Limits!MergeAccepted, Limited!Node!MergeAccepted,
      Limits!PayloadWrite, Limited!Node!PayloadWrite, Limits!Computed, Limited!Node!Computed, Limits!PayloadKey,
      Limited!Node!PayloadKey, Limits!Stage, Limited!Node!Stage, Limits!Consolidate, Limited!Node!Consolidate,
      Limits!RecordNodeRun, Limited!Node!RecordNodeRun, Limits!Size, Limited!Node!Size, Limits!StreamFits,
      Limited!Node!StreamFits, Limits!RecordCount, Limited!Node!RecordCount, Limits!NoRow, Limited!Node!NoRow,
      Limits!FlattenSeq, Limited!Node!FlattenSeq, Limits!FoldSeq, Limited!Node!FoldSeq, Limits!FoldFunction,
      Limited!Node!FoldFunction, Limits!FoldFunctionOnSet, Limited!Node!FoldFunctionOnSet, Limits!MapThenFoldSet,
      Limited!Node!MapThenFoldSet, Limits!Reverse, Limited!Node!Reverse
  <1>3. Limits!FailureVisible <=> Limited!Node!FailureVisible
    BY Zenon DEF
      Limits!FailureVisible, Limited!Node!FailureVisible, Limits!FlattenSeq, Limited!Node!FlattenSeq, Limits!FoldSeq,
      Limited!Node!FoldSeq, Limits!FoldFunction, Limited!Node!FoldFunction, Limits!FoldFunctionOnSet,
      Limited!Node!FoldFunctionOnSet, Limits!MapThenFoldSet, Limited!Node!MapThenFoldSet, Limits!Reverse,
      Limited!Node!Reverse
  <1> QED BY <1>1, <1>2, <1>3

LEMMA LimitedParameters ==
  Limited!Node!NodeRunsAssumption
  <1>1. Limited!Node!NodeRunsAssumption
    BY DEF Limited!Node!NodeRunsAssumption
  <1> QED BY <1>1

LEMMA LimitedStarts ==
  ASSUME AllInit
  PROVE  scenario = "limits" => Limited!NodeInv
  BY DataStarts, LimitedParameters, LimitsSame, Limited!NodeStarts

LEMMA LimitedSteps ==
  ASSUME [AllNext]_allVars
  PROVE  scenario = "limits" /\ Limited!NodeInv => Limited!NodeInv'
  BY DataSteps, LimitedParameters, LimitsSame, Limited!NodeSteps

LEMMA LimitedShows ==
  Limited!NodeInv => Limits!FailureVisible
  BY LimitedParameters, LimitsSame, Limited!NodeImplies

-----------------------------------------------------------------------------
(* recordNodeRun, executeActivity: the row of a node counts the records of *)
(* its output once or tells of its failure, and the output is what the     *)
(* answered attempts wrote.                                                *)
THEOREM NodesAlwaysReported == AllSpec => []NodesReported
  <1> DEFINE Inv == /\ scenario = "source" => Plain!NodeInv
                    /\ scenario = "stale" => Overlapping!NodeInv
                    /\ scenario = "dispatch" => Dispatched!NodeInv
                    /\ scenario = "merge" => Merged!NodeInv
                    /\ scenario = "limits" => Limited!NodeInv
  <1>1. AllInit => Inv
    BY PlainStarts, OverlappingStarts, DispatchedStarts, MergedStarts, LimitedStarts
  <1>2. Inv /\ [AllNext]_allVars => Inv'
    BY DataSteps, PlainSteps, OverlappingSteps, DispatchedSteps, MergedSteps, LimitedSteps
  <1>3. Inv => NodesReported
    BY PlainShows, OverlappingShows, DispatchedShows, MergedShows, LimitedShows DEF NodesReported
  <1> QED BY <1>1, <1>2, <1>3, PTL DEF AllSpec

=============================================================================
