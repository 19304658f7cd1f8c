---------------------------- MODULE SinkDelivery ----------------------------
(***************************************************************************)
(* One sink node of one execution, and what its Temporal attempts leave at *)
(* the destination.  An attempt may fail before, between and after its     *)
(* writes; it may write and never be heard of (the answer is lost or the   *)
(* worker dies); and with Overlap an attempt whose heartbeat timed out     *)
(* goes on writing beside its successor.                                   *)
(*                                                                         *)
(* The records of the input are numbered; dest counts the copies that a    *)
(* reader of the destination sees.                                         *)
(***************************************************************************)
EXTENDS Integers, FiniteSets

CONSTANTS
    Sinks,       \* the activity types under study
    Records,     \* how many records the input has
    BatchRows,   \* dbBatchSize
    MaxAttempts, \* MaximumAttempts of the retry policy
    Overlap      \* may a timed-out attempt go on?

Transactional == {"postgres", "postgres-key", "mysql-key", "snowflake"}
OneRequest == {"clickhouse", "records", "webhook", "s3"}
AllSinks == Transactional \cup OneRequest
              \cup {"mongo", "kafka", "sftp", "gsheets-replace", "gsheets-append", "iceberg"}

SinkAssumption ==
    /\ Sinks \subseteq AllSinks /\ Overlap \in BOOLEAN
    /\ {Records, BatchRows, MaxAttempts} \subseteq Nat \ {0}

VARIABLES
    sink,    \* the activity type of this node
    dest,    \* dest[i]: copies of record i at the destination
    heard,   \* deliveries (idempotency keys) that the receiver has processed
    node,    \* "running", "success" or "failed"
    current, \* the attempt whose answer counts
    attempt  \* attempt[a]: progress of attempt a

vars == <<sink, dest, heard, node, current, attempt>>

Record == 1..Records
Attempt == 1..MaxAttempts
Waiting == [at |-> "waiting", next |-> 1]

TypeOK ==
    /\ sink \in Sinks /\ dest \in [Record -> 0..MaxAttempts] /\ heard \subseteq Nat
    /\ node \in {"running", "success", "failed"} /\ current \in Attempt
    /\ \A a \in Attempt :
        /\ attempt[a].at \in {"waiting", "open", "halfway", "written", "over"}
        /\ attempt[a].next \in 1..Records + 1

Init ==
    /\ sink \in Sinks /\ dest = [i \in Record |-> 0] /\ heard = {} /\ node = "running"
    /\ current = 1
    /\ attempt = [a \in Attempt |-> IF a = 1 THEN [Waiting EXCEPT !.at = "open"] ELSE Waiting]

Open(a) == attempt[a].at = "open"
Goto(a, stage) == attempt' = [attempt EXCEPT ![a].at = stage]
Batch(a) == {i \in Record : i >= attempt[a].next /\ i < attempt[a].next + BatchRows}
AfterBatch(a) == IF attempt[a].next + BatchRows > Records THEN Records + 1 ELSE attempt[a].next + BatchRows

Added(S) == [i \in Record |-> IF i \in S THEN dest[i] + 1 ELSE dest[i]]
Upserted(S) == [i \in Record |-> IF i \in S THEN 1 ELSE dest[i]]

-----------------------------------------------------------------------------
(* insertBatchesInTx and the loop of postgresSink: batches are sent inside *)
(* a transaction, and nobody sees them before it commits.                  *)
InsertBatch(a) ==
    /\ sink \in Transactional /\ Open(a) /\ Batch(a) # {}
    /\ attempt' = [attempt EXCEPT ![a].next = AfterBatch(a)]
    /\ UNCHANGED <<sink, dest, heard, node, current>>

(* ON CONFLICT with a conflictKey, ON DUPLICATE KEY UPDATE in MySQL.       *)
Inserted(S) == IF sink \in {"postgres-key", "mysql-key"} THEN Upserted(S) ELSE Added(S)

EarlyCommit(a) == TRUE
CommitReady(a) == Batch(a) = {}
CommitTx(a) ==
    /\ sink \in Transactional /\ Open(a) /\ CommitReady(a)
    /\ dest' = Inserted({i \in Record : i < attempt[a].next}) /\ Goto(a, "written")
    /\ UNCHANGED <<sink, heard, node, current>>

(* mongoSink: each BulkWrite of upserts is on its own; one that fails half *)
(* way has written the records before the failing one.                     *)
BulkWrite(a) ==
    /\ sink = "mongo" /\ Open(a)
    /\ \/ /\ dest' = Upserted(Batch(a))
          /\ attempt' = [attempt EXCEPT ![a].next = AfterBatch(a),
                                        ![a].at = IF AfterBatch(a) > Records THEN "written" ELSE @]
       \/ \E bad \in Batch(a) : dest' = Upserted({i \in Batch(a) : i < bad}) /\ Goto(a, "over")
    /\ UNCHANGED <<sink, heard, node, current>>

(* One request that the destination takes whole.                           *)
ClickhouseInsert(a) ==
    /\ sink = "clickhouse" /\ Open(a) /\ dest' = Added(Record) /\ Goto(a, "written")
    /\ UNCHANGED <<sink, heard, node, current>>

(* sink_records is read with FINAL, which keeps one row per dedup_key.     *)
RecordsInsert(a) ==
    /\ sink = "records" /\ Open(a) /\ dest' = Upserted(Record) /\ Goto(a, "written")
    /\ UNCHANGED <<sink, heard, node, current>>

PutObject(a) ==
    /\ sink = "s3" /\ Open(a) /\ dest' = [i \in Record |-> 1] /\ Goto(a, "written")
    /\ UNCHANGED <<sink, heard, node, current>>

(* The key is derived from tenant, execution, node and batch: the same for *)
(* every attempt.                                                          *)
IdempotencyKey(a, i) == i
WebhookPost(a) ==
    /\ sink = "webhook" /\ Open(a) /\ Goto(a, "written")
    /\ dest' = IF IdempotencyKey(a, 0) \in heard THEN dest ELSE Added(Record)
    /\ heard' = heard \cup {IdempotencyKey(a, 0)}
    /\ UNCHANGED <<sink, node, current>>

(* kafkaSink: any of the records may have been produced when it fails; a   *)
(* consumer drops the records whose header it has seen.                    *)
ProducedAny(S) == TRUE
ProducedAll(S) == S = Record
Produce(a) == \E S \in SUBSET Record :
    /\ sink = "kafka" /\ Open(a) /\ Goto(a, IF ProducedAll(S) THEN "written" ELSE "over")
    /\ dest' = Added({i \in S : IdempotencyKey(a, i) \notin heard})
    /\ heard' = heard \cup {IdempotencyKey(a, i) : i \in S}
    /\ UNCHANGED <<sink, node, current>>

(* The file is created empty, or the sheet cleared, before it is filled.   *)
Truncate(a) ==
    /\ sink \in {"sftp", "gsheets-replace"} /\ Open(a)
    /\ dest' = [i \in Record |-> 0] /\ Goto(a, "halfway")
    /\ UNCHANGED <<sink, heard, node, current>>

Fill(a) ==
    /\ sink \in {"sftp", "gsheets-replace"} /\ attempt[a].at = "halfway"
    /\ dest' = [i \in Record |-> 1] /\ Goto(a, "written")
    /\ UNCHANGED <<sink, heard, node, current>>

SheetAppend(a) ==
    /\ sink = "gsheets-append" /\ Open(a) /\ dest' = Added(Record) /\ Goto(a, "written")
    /\ UNCHANGED <<sink, heard, node, current>>

(* appendIcebergTable: the snapshots tell whether an earlier attempt of    *)
(* this node in this execution committed; the append is a step of its own. *)
NoneCommitted(a) == FALSE
Committed(a) == 0 \in heard
IcebergLoad(a) ==
    /\ sink = "iceberg" /\ Open(a) /\ Goto(a, IF Committed(a) THEN "written" ELSE "halfway")
    /\ UNCHANGED <<sink, dest, heard, node, current>>

IcebergAppend(a) ==
    /\ sink = "iceberg" /\ attempt[a].at = "halfway"
    /\ dest' = Added(Record) /\ heard' = heard \cup {0} /\ Goto(a, "written")
    /\ UNCHANGED <<sink, node, current>>

-----------------------------------------------------------------------------
(* Temporal.                                                               *)
Answer(a) ==
    /\ a = current /\ attempt[a].at = "written" /\ node = "running"
    /\ node' = "success" /\ Goto(a, "over")
    /\ UNCHANGED <<sink, dest, heard, current>>

(* An error, a dead worker or a lost answer, at any point.                 *)
AttemptEnds(a) ==
    /\ attempt[a].at \in {"open", "halfway", "written"} /\ (a = current => node # "success")
    /\ Goto(a, "over")
    /\ UNCHANGED <<sink, dest, heard, node, current>>

Retry(a) ==
    /\ a = current /\ node = "running"
    /\ attempt[a].at = "over" \/ (Overlap /\ attempt[a].at # "waiting")
    /\ IF a = MaxAttempts
       THEN node' = "failed" /\ UNCHANGED <<current, attempt>>
       ELSE /\ current' = a + 1 /\ attempt' = [attempt EXCEPT ![a + 1].at = "open"]
            /\ UNCHANGED node
    /\ UNCHANGED <<sink, dest, heard>>

Next == \E a \in Attempt :
    \/ InsertBatch(a) \/ CommitTx(a) \/ BulkWrite(a)
    \/ ClickhouseInsert(a) \/ RecordsInsert(a) \/ PutObject(a) \/ WebhookPost(a) \/ Produce(a)
    \/ Truncate(a) \/ Fill(a) \/ SheetAppend(a) \/ IcebergLoad(a) \/ IcebergAppend(a)
    \/ Answer(a) \/ AttemptEnds(a) \/ Retry(a)

Spec == Init /\ [][Next]_vars

-----------------------------------------------------------------------------
(* A node that succeeded has put every record where it belongs, whatever   *)
(* its earlier attempts left behind.                                       *)
SuccessIsDelivered == node = "success" => \A i \in Record : dest[i] > 0

(* A transaction, an object, a snapshot or a request shows all records of  *)
(* an attempt or none, also when the node fails for good.                  *)
Whole == Transactional \cup OneRequest \cup {"iceberg", "gsheets-append"}
AllOrNone == sink \in Whole => \A i, j \in Record : dest[i] = dest[j]

(* The sinks that recognise a repeated delivery (a key, a content hash, an *)
(* overwritten object, a snapshot that names the execution) never show a   *)
(* record twice, also when an attempt wrote and was never heard of.        *)
Recognising == {"postgres-key", "mysql-key", "mongo", "records", "s3", "webhook", "kafka", "sftp",
                "gsheets-replace", "iceberg"}
OnceIfRecognised == sink \in Recognising => \A i \in Record : dest[i] <= 1

=============================================================================
