----------------------------- MODULE DataProofs -----------------------------
(***************************************************************************)
(* How records go through a run, for every value of the constants: the     *)
(* writes of a sink node, the accounts of a node and its attempts, the     *)
(* pages of a source with the cursor between them, the batches of a stream *)
(* with its offsets, the snapshots of a Spark job, and the transforms.     *)
(***************************************************************************)
EXTENDS Integers, Sequences, FiniteSetTheorems, WellFoundedInduction, TLAPS

-----------------------------------------------------------------------------
(* Sinks.                                                                  *)

CONSTANTS Sinks, Records, BatchRows, SinkAttempts, SinkOverlap
VARIABLES sink, dest, heard, sinkNode, current, attempt

Sink == INSTANCE SinkDelivery WITH node <- sinkNode, MaxAttempts <- SinkAttempts, Overlap <- SinkOverlap

Record == Sink!Record
Attempt == Sink!Attempt
Progress == [at : {"waiting", "open", "halfway", "written", "over"}, next : 1..Records + 1]

(* The sinks that empty the destination before they fill it.               *)
Truncating == sink \in {"sftp", "gsheets-replace"}
Landed == \A i \in Record : dest[i] > 0
Over == {a \in Attempt : attempt[a].at \in {"written", "over"}}

(* The attempts that have begun are those up to the current one; without   *)
(* overlap the others are over.                                            *)
SinkShape ==
    /\ sink \in Sinks /\ heard \subseteq Nat /\ dest \in [Record -> Nat]
    /\ sinkNode \in {"running", "success", "failed"} /\ current \in Attempt
    /\ attempt \in [Attempt -> Progress]
    /\ \A a \in Attempt : attempt[a].at = "waiting" <=> current < a
    /\ ~ SinkOverlap => \A a \in Attempt : a # current => attempt[a].at \in {"waiting", "over"}
    /\ \A a \in Attempt : attempt[a].at = "halfway" => Truncating \/ sink = "iceberg"
    /\ sinkNode = "success" => attempt[current].at = "over"

(* Once an attempt has written, every record has landed, unless a stale    *)
(* attempt can empty the destination again; and what the receiver has      *)
(* heard of, or a cursor has passed, has landed.                           *)
SinkLanded ==
    /\ ~ (SinkOverlap /\ Truncating) =>
          /\ sinkNode = "success" => Landed
          /\ \A a \in Attempt : attempt[a].at = "written" => Landed
    /\ sink = "mongo" => \A a \in Attempt : \A i \in Record : i < attempt[a].next => dest[i] > 0
    /\ sink = "kafka" => \A i \in Record : i \in heard => dest[i] > 0
    /\ sink \in {"webhook", "iceberg"} /\ 0 \in heard => Landed

(* A receiver that recognises repeated deliveries has a record exactly     *)
(* when it has heard of it.                                                *)
SinkOnce ==
    /\ sink = "kafka" => \A i \in Record : i \notin heard => dest[i] = 0
    /\ (sink = "webhook" \/ (sink = "iceberg" /\ ~ SinkOverlap)) /\ 0 \notin heard =>
          \A i \in Record : dest[i] = 0
    /\ sink = "iceberg" /\ ~ SinkOverlap => \A a \in Attempt : attempt[a].at = "halfway" => 0 \notin heard
    /\ ~ (SinkOverlap /\ sink = "iceberg") => Sink!OnceIfRecognised

(* An attempt adds at most one copy of a record.                           *)
SinkBounded ==
    \A i \in Record : IF sink = "mongo" THEN dest[i] <= 1 ELSE dest[i] <= Cardinality(Over)

SinkInv == SinkShape /\ SinkLanded /\ SinkOnce /\ Sink!AllOrNone /\ SinkBounded

LEMMA SinkConstants ==
  ASSUME Sink!SinkAssumption
  PROVE  /\ Records \in Nat \ {0} /\ BatchRows \in Nat \ {0} /\ SinkAttempts \in Nat \ {0}
         /\ SinkOverlap \in BOOLEAN /\ Sinks \subseteq Sink!AllSinks
         /\ Record = 1..Records /\ Attempt = 1..SinkAttempts /\ IsFiniteSet(Attempt)
  <1>1. Attempt = 1..SinkAttempts /\ Record = 1..Records
    BY DEF Attempt, Record, Sink!Attempt, Sink!Record
  <1>2. Records \in Nat \ {0} /\ BatchRows \in Nat \ {0} /\ SinkAttempts \in Nat \ {0}
    BY DEF Sink!SinkAssumption
  <1> QED BY <1>1, <1>2, FS_Interval DEF Sink!SinkAssumption

LEMMA SinkStarts ==
  ASSUME Sink!SinkAssumption, Sink!Init
  PROVE  SinkInv
  <1>0. /\ Records \in Nat \ {0} /\ SinkAttempts \in Nat \ {0} /\ Record = 1..Records
        /\ Attempt = 1..SinkAttempts /\ IsFiniteSet(Attempt) /\ Sinks \subseteq Sink!AllSinks
    BY SinkConstants
  <1>1. /\ sink \in Sinks /\ dest = [i \in Record |-> 0] /\ heard = {} /\ sinkNode = "running" /\ current = 1
        /\ attempt = [a \in Attempt |-> IF a = 1 THEN [Sink!Waiting EXCEPT !.at = "open"] ELSE Sink!Waiting]
    BY DEF Sink!Init, Record, Attempt
  <1>2. \A a \in Attempt : attempt[a] = [at |-> IF a = 1 THEN "open" ELSE "waiting", next |-> 1]
    BY <1>1 DEF Sink!Waiting
  <1>9. ASSUME NEW a \in Attempt
        PROVE  attempt[a].next = 1 /\ (a = 1 => attempt[a].at = "open") /\ (a # 1 => attempt[a].at = "waiting")
    <2>1. attempt[a] = [at |-> IF a = 1 THEN "open" ELSE "waiting", next |-> 1]
      BY <1>2
    <2>2. CASE a = 1
      <3>1. attempt[a] = [at |-> "open", next |-> 1]
        BY <2>1, <2>2
      <3> QED BY <2>2, <3>1
    <2>3. CASE a # 1
      <3>1. attempt[a] = [at |-> "waiting", next |-> 1]
        BY <2>1, <2>3
      <3> QED BY <2>3, <3>1
    <2> QED BY <2>2, <2>3
  <1>3. SinkShape
    <2>1. 1 \in 1..Records + 1 /\ 1 \in Attempt
      BY <1>0
    <2>2. [at |-> "open", next |-> 1] \in Progress /\ [at |-> "waiting", next |-> 1] \in Progress
      BY <2>1 DEF Progress
    <2>3. \A a \in Attempt : attempt[a] \in Progress
      BY <1>2, <2>2
    <2>4. attempt \in [Attempt -> Progress]
      BY <1>1, <2>3
    <2>5. \A a \in Attempt : attempt[a].at = "waiting" <=> current < a
      BY <1>0, <1>1, <1>9
    <2>6. dest \in [Record -> Nat] /\ heard \subseteq Nat
      BY <1>1
    <2>7. \A a \in Attempt : a # current => attempt[a].at = "waiting"
      BY <1>1, <1>9
    <2>8. \A a \in Attempt : attempt[a].at # "halfway"
      BY <1>9
    <2> QED BY <1>1, <2>1, <2>4, <2>5, <2>6, <2>7, <2>8 DEF SinkShape
  <1>4. SinkLanded
    <2>1. \A a \in Attempt : attempt[a].at # "written" /\ attempt[a].next = 1
      BY <1>9
    <2>2. \A i \in Record : ~ (i < 1)
      BY <1>0
    <2> QED BY <1>1, <2>1, <2>2 DEF SinkLanded
  <1>5. SinkOnce /\ Sink!AllOrNone
    <2>1. \A i \in Record : dest[i] = 0
      BY <1>1
    <2>2. \A a \in Attempt : attempt[a].at # "halfway"
      BY <1>9
    <2> QED BY <1>1, <2>1, <2>2 DEF SinkOnce, Sink!AllOrNone, Sink!OnceIfRecognised, Record
  <1>6. SinkBounded
    <2>1. Cardinality(Over) \in Nat
      BY <1>0, FS_Subset, FS_CardinalityType DEF Over
    <2> QED BY <1>1, <2>1 DEF SinkBounded
  <1> QED BY <1>3, <1>4, <1>5, <1>6 DEF SinkInv

(* How many attempts are over after one goes to another stage.             *)
LEMMA SinkGoes ==
  ASSUME Sink!SinkAssumption, SinkShape, NEW a \in Attempt, NEW stage \in {"halfway", "written", "over"},
         Sink!Goto(a, stage), attempt[a].at \in {"open", "halfway", "written"},
         attempt[a].at = "written" => stage = "over",
         UNCHANGED <<sink, sinkNode, current>>,
         sinkNode = "success" => a # current,
         stage = "halfway" => Truncating \/ sink = "iceberg"
  PROVE  /\ \A b \in Attempt : /\ attempt'[b].at = IF b = a THEN stage ELSE attempt[b].at
                               /\ attempt'[b].next = attempt[b].next
         /\ heard' \subseteq Nat /\ dest' \in [Record -> Nat] => SinkShape'
         /\ Cardinality(Over) \in Nat /\ Cardinality(Over)' \in Nat
         /\ Cardinality(Over)' >= Cardinality(Over)
         /\ stage # "halfway" => Cardinality(Over)' > 0
         /\ stage # "halfway" /\ attempt[a].at # "written" => Cardinality(Over)' = Cardinality(Over) + 1
  <1>1. attempt \in [Attempt -> Progress] /\ attempt' = [attempt EXCEPT ![a].at = stage]
    BY DEF SinkShape, Sink!Goto
  <1>2. /\ attempt' \in [Attempt -> Progress]
        /\ \A b \in Attempt : /\ attempt'[b].at = IF b = a THEN stage ELSE attempt[b].at
                              /\ attempt'[b].next = attempt[b].next
    BY <1>1 DEF Progress
  <1>3. ASSUME heard' \subseteq Nat, dest' \in [Record -> Nat] PROVE SinkShape'
    BY <1>2, <1>3 DEF SinkShape, Truncating
  <1>4. IsFiniteSet(Over) /\ a \in Attempt
    BY SinkConstants, FS_Subset DEF Over
  <1>5. CASE stage = "halfway"
    <2>1. Over' = Over
      BY <1>2, <1>5 DEF Over
    <2> QED BY <1>2, <1>3, <1>4, <1>5, <2>1, FS_CardinalityType
  <1>6. CASE stage # "halfway" /\ attempt[a].at # "written"
    <2>1. Over' = Over \cup {a} /\ a \notin Over
      BY <1>2, <1>6 DEF Over
    <2>2. Cardinality(Over)' = Cardinality(Over) + 1
      BY <1>4, <2>1, FS_AddElement
    <2> QED BY <1>2, <1>3, <1>4, <1>6, <2>2, FS_CardinalityType
  <1>7. CASE attempt[a].at = "written"
    <2>1. Over' = Over /\ a \in Over
      BY <1>2, <1>7 DEF Over
    <2>2. Cardinality(Over) # 0
      BY <1>4, <2>1, FS_EmptySet
    <2> QED BY <1>2, <1>3, <1>4, <1>7, <2>1, <2>2, FS_CardinalityType
  <1> QED BY <1>5, <1>6, <1>7

(* An attempt on which the node depends is not over.                       *)
LEMMA SinkBusy ==
  ASSUME SinkShape, NEW a \in Attempt, attempt[a].at \in {"open", "halfway"}
  PROVE  /\ sinkNode = "success" => a # current
         /\ ~ SinkOverlap => (a = current /\ sinkNode # "success"
                              /\ \A b \in Attempt : b # a => attempt[b].at \in {"waiting", "over"})
  BY DEF SinkShape

(* A step that puts all records at the destination.                        *)
LEMMA SinkFills ==
  ASSUME Sink!SinkAssumption, SinkInv, NEW a \in Attempt, attempt[a].at \in {"open", "halfway"},
         Sink!Goto(a, "written"), UNCHANGED <<sink, sinkNode, current>>,
         dest' \in [Record -> Nat], \A i \in Record : dest'[i] > 0 /\ dest'[i] <= dest[i] + 1,
         heard' \subseteq Nat, sink \notin {"mongo", "kafka"},
         sink \in {"webhook", "iceberg"} => 0 \in heard',
         Sink!AllOrNone', ~ (SinkOverlap /\ sink = "iceberg") => Sink!OnceIfRecognised'
  PROVE  SinkInv'
  <1>1. SinkShape /\ SinkLanded /\ SinkBounded
    BY DEF SinkInv
  <1>2. sink' = sink /\ sinkNode' = sinkNode /\ current' = current
    OBVIOUS
  <1>3. /\ sinkNode = "success" => a # current
        /\ ~ SinkOverlap => \A b \in Attempt : b # a => attempt[b].at \in {"waiting", "over"}
    BY <1>1, SinkBusy
  <1>4. /\ \A b \in Attempt : attempt'[b].at = IF b = a THEN "written" ELSE attempt[b].at
        /\ SinkShape' /\ Cardinality(Over) \in Nat /\ Cardinality(Over)' = Cardinality(Over) + 1
    BY <1>1, <1>2, <1>3, SinkGoes
  <1>5. Landed'
    BY DEF Landed, Record, Sink!Record
  <1>6. SinkLanded'
    BY <1>2, <1>5 DEF SinkLanded
  <1>7. SinkOnce'
    <2>1. sink = "iceberg" /\ ~ SinkOverlap => \A b \in Attempt : attempt'[b].at # "halfway"
      BY <1>3, <1>4
    <2> QED BY <1>2, <2>1 DEF SinkOnce, Attempt, Sink!Attempt
  <1>8. SinkBounded'
    <2>1. ASSUME NEW i \in Record PROVE dest'[i] <= Cardinality(Over)'
      <3>1. dest[i] <= Cardinality(Over) /\ dest'[i] <= dest[i] + 1 /\ dest[i] \in Nat /\ dest'[i] \in Nat
        BY <1>1 DEF SinkBounded, SinkShape
      <3> QED BY <1>4, <3>1
    <2> QED BY <1>2, <2>1 DEF SinkBounded, Record, Sink!Record
  <1> QED BY <1>4, <1>6, <1>7, <1>8 DEF SinkInv

(* A step of an attempt that leaves the destination as it is.              *)
LEMMA SinkLeaves ==
  ASSUME Sink!SinkAssumption, SinkInv, NEW a \in Attempt, NEW stage \in {"halfway", "written", "over"},
         Sink!Goto(a, stage), attempt[a].at \in {"open", "halfway", "written"},
         attempt[a].at = "written" => stage = "over", sinkNode = "success" => a # current,
         UNCHANGED <<sink, dest, heard, sinkNode, current>>,
         stage = "halfway" => sink = "iceberg" /\ 0 \notin heard, stage = "written" => Landed
  PROVE  SinkInv'
  <1>1. SinkShape /\ SinkLanded /\ SinkOnce /\ Sink!AllOrNone /\ SinkBounded
    BY DEF SinkInv
  <1>2. sink' = sink /\ sinkNode' = sinkNode /\ current' = current /\ dest' = dest /\ heard' = heard
    OBVIOUS
  <1>3. /\ \A b \in Attempt : /\ attempt'[b].at = IF b = a THEN stage ELSE attempt[b].at
                              /\ attempt'[b].next = attempt[b].next
        /\ heard' \subseteq Nat /\ dest' \in [Record -> Nat] => SinkShape'
        /\ Cardinality(Over) \in Nat /\ Cardinality(Over)' \in Nat /\ Cardinality(Over)' >= Cardinality(Over)
    BY <1>1, <1>2, SinkGoes
  <1>4. SinkShape'
    BY <1>1, <1>2, <1>3 DEF SinkShape
  <1>5. Landed' <=> Landed
    BY <1>2 DEF Landed, Record, Sink!Record
  <1>6. SinkLanded'
    BY <1>1, <1>2, <1>3, <1>5 DEF SinkLanded, Truncating, Attempt, Sink!Attempt, Record, Sink!Record
  <1>7. SinkOnce' /\ Sink!AllOrNone'
    BY <1>1, <1>2, <1>3 DEF SinkOnce, Sink!OnceIfRecognised, Sink!AllOrNone, Attempt, Sink!Attempt, Record, Sink!Record
  <1>8. SinkBounded'
    <2>1. ASSUME NEW i \in Record
          PROVE  IF sink' = "mongo" THEN dest'[i] <= 1 ELSE dest'[i] <= Cardinality(Over)'
      <3>1. dest[i] \in Nat
        BY <1>1 DEF SinkShape
      <3> QED BY <1>1, <1>2, <1>3, <3>1 DEF SinkBounded
    <2> QED BY <2>1 DEF SinkBounded, Record, Sink!Record
  <1> QED BY <1>4, <1>6, <1>7, <1>8 DEF SinkInv

(* The steps of one attempt.                                               *)
LEMMA SinkCommits ==
  ASSUME Sink!SinkAssumption, SinkInv, NEW a \in Attempt, Sink!CommitTx(a)
  PROVE  SinkInv'
  <1>1. SinkShape /\ SinkLanded /\ SinkOnce /\ Sink!AllOrNone
    BY DEF SinkInv
  <1>2. /\ sink \in Sink!Transactional /\ attempt[a].at = "open" /\ Sink!Batch(a) = {}
        /\ dest' = Sink!Inserted({i \in Record : i < attempt[a].next}) /\ Sink!Goto(a, "written")
        /\ sink' = sink /\ heard' = heard /\ sinkNode' = sinkNode /\ current' = current
    BY DEF Sink!CommitTx, Sink!Open, Sink!CommitReady, Record
  <1>3. \A i \in Record : i < attempt[a].next
    <2>1. attempt[a].next \in 1..Records + 1
      BY <1>1 DEF SinkShape, Progress
    <2>2. SUFFICES ASSUME NEW i \in Record, i >= attempt[a].next PROVE FALSE
      BY <2>1, SinkConstants
    <2>3. attempt[a].next \in Record /\ attempt[a].next < attempt[a].next + BatchRows
      BY <2>1, <2>2, SinkConstants
    <2>4. attempt[a].next \in Sink!Batch(a)
      BY <2>1, <2>3 DEF Sink!Batch, Record
    <2> QED BY <1>2, <2>4
  <1>4. {i \in Record : i < attempt[a].next} = Record
    BY <1>3
  <1>5. dest' = Sink!Inserted(Record)
    BY <1>2, <1>4
  <1>6. dest' = IF sink \in {"postgres-key", "mysql-key"} THEN [i \in Record |-> 1] ELSE [i \in Record |-> dest[i] + 1]
    BY <1>5 DEF Sink!Inserted, Sink!Added, Sink!Upserted, Record
  <1>7. /\ dest' \in [Record -> Nat]
        /\ \A i \in Record : dest'[i] = IF sink \in {"postgres-key", "mysql-key"} THEN 1 ELSE dest[i] + 1
        /\ \A i \in Record : dest[i] \in Nat
    BY <1>1, <1>6 DEF SinkShape
  <1>8. \A i \in Record : dest'[i] > 0 /\ dest'[i] <= dest[i] + 1
    BY <1>7
  <1>9. Sink!AllOrNone'
    BY <1>1, <1>2, <1>7 DEF Sink!AllOrNone, Sink!Whole, Record, Sink!Record
  <1>10. Sink!OnceIfRecognised'
    <2>1. sink \in Sink!Recognising => sink \in {"postgres-key", "mysql-key"}
      BY <1>2 DEF Sink!Recognising, Sink!Transactional
    <2>2. sink \in Sink!Recognising => \A i \in Record : dest'[i] <= 1
      BY <1>7, <2>1
    <2> QED BY <1>2, <2>2 DEF Sink!OnceIfRecognised, Sink!Recognising, Record, Sink!Record
  <1>11. heard' \subseteq Nat /\ sink \notin {"mongo", "kafka", "webhook", "iceberg"}
    BY <1>1, <1>2 DEF SinkShape, Sink!Transactional
  <1> QED BY <1>2, <1>7, <1>8, <1>9, <1>10, <1>11, SinkFills

LEMMA SinkRequests ==
  ASSUME Sink!SinkAssumption, SinkInv, NEW a \in Attempt,
         \/ Sink!ClickhouseInsert(a) \/ Sink!RecordsInsert(a) \/ Sink!PutObject(a) \/ Sink!SheetAppend(a)
         \/ Sink!Fill(a)
  PROVE  SinkInv'
  <1>1. SinkShape /\ Sink!AllOrNone
    BY DEF SinkInv
  <1>2. /\ attempt[a].at \in {"open", "halfway"} /\ Sink!Goto(a, "written")
        /\ sink' = sink /\ heard' = heard /\ sinkNode' = sinkNode /\ current' = current
        /\ sink \in {"clickhouse", "records", "s3", "gsheets-append", "sftp", "gsheets-replace"}
        /\ dest' = IF sink \in {"clickhouse", "gsheets-append"} THEN [i \in Record |-> dest[i] + 1]
                   ELSE [i \in Record |-> 1]
    BY DEF Sink!ClickhouseInsert, Sink!RecordsInsert, Sink!PutObject, Sink!SheetAppend, Sink!Fill, Sink!Open,
           Sink!Added, Sink!Upserted, Record
  <1>3. /\ dest' \in [Record -> Nat]
        /\ \A i \in Record : dest'[i] = IF sink \in {"clickhouse", "gsheets-append"} THEN dest[i] + 1 ELSE 1
        /\ \A i \in Record : dest[i] \in Nat
    BY <1>1, <1>2 DEF SinkShape
  <1>4. \A i \in Record : dest'[i] > 0 /\ dest'[i] <= dest[i] + 1
    BY <1>3
  <1>5. Sink!AllOrNone'
    <2>1. \A i, j \in Record : sink \in Sink!Whole => dest[i] = dest[j]
      BY <1>1 DEF Sink!AllOrNone, Record
    <2>2. sink \in {"clickhouse", "gsheets-append"} => sink \in Sink!Whole
      BY DEF Sink!Whole, Sink!OneRequest
    <2>3. \A i, j \in Record : dest'[i] = dest'[j]
      BY <1>3, <2>1, <2>2
    <2> QED BY <1>2, <2>3 DEF Sink!AllOrNone, Record, Sink!Record
  <1>6. Sink!OnceIfRecognised'
    BY <1>2, <1>3 DEF Sink!OnceIfRecognised, Sink!Recognising, Record, Sink!Record
  <1>7. heard' \subseteq Nat /\ sink \notin {"mongo", "kafka", "webhook", "iceberg"}
    BY <1>1, <1>2 DEF SinkShape
  <1> QED BY <1>2, <1>3, <1>4, <1>5, <1>6, <1>7, SinkFills

LEMMA SinkPosts ==
  ASSUME Sink!SinkAssumption, SinkInv, NEW a \in Attempt, Sink!WebhookPost(a)
  PROVE  SinkInv'
  <1>1. SinkShape /\ SinkLanded /\ SinkOnce /\ Sink!AllOrNone
    BY DEF SinkInv
  <1>2. /\ sink = "webhook" /\ attempt[a].at = "open" /\ Sink!Goto(a, "written")
        /\ dest' = (IF 0 \in heard THEN dest ELSE [i \in Record |-> dest[i] + 1]) /\ heard' = heard \cup {0}
        /\ sink' = sink /\ sinkNode' = sinkNode /\ current' = current
    BY DEF Sink!WebhookPost, Sink!Open, Sink!IdempotencyKey, Sink!Added, Record
  <1>3. (0 \in heard => Landed) /\ (0 \notin heard => \A i \in Record : dest[i] = 0) /\ Sink!OnceIfRecognised
    BY <1>1, <1>2 DEF SinkLanded, SinkOnce
  <1>4. \A i \in Record : dest[i] \in Nat /\ dest[i] <= 1
    BY <1>1, <1>2, <1>3 DEF SinkShape, Sink!OnceIfRecognised, Sink!Recognising, Record
  <1>5. CASE 0 \in heard
    <2>1. dest' = dest /\ dest' \in [Record -> Nat] /\ \A i \in Record : dest[i] > 0
      BY <1>1, <1>2, <1>3, <1>5 DEF Landed, SinkShape
    <2>2. Sink!AllOrNone' /\ Sink!OnceIfRecognised'
      BY <1>1, <1>2, <1>3, <2>1 DEF Sink!AllOrNone, Sink!OnceIfRecognised
    <2>3. \A i \in Record : dest'[i] > 0 /\ dest'[i] <= dest[i] + 1
      BY <1>4, <2>1
    <2>4. heard' \subseteq Nat /\ 0 \in heard'
      BY <1>1, <1>2 DEF SinkShape
    <2> QED BY <1>2, <2>1, <2>2, <2>3, <2>4, SinkFills
  <1>6. CASE 0 \notin heard
    <2>1. dest' \in [Record -> Nat] /\ \A i \in Record : dest'[i] = 1 /\ dest[i] = 0
      BY <1>1, <1>2, <1>3, <1>6 DEF SinkShape
    <2>2. Sink!AllOrNone' /\ Sink!OnceIfRecognised'
      BY <1>2, <2>1 DEF Sink!AllOrNone, Sink!OnceIfRecognised, Record, Sink!Record
    <2>3. \A i \in Record : dest'[i] > 0 /\ dest'[i] <= dest[i] + 1
      BY <2>1
    <2>4. heard' \subseteq Nat /\ 0 \in heard'
      BY <1>1, <1>2 DEF SinkShape
    <2> QED BY <1>2, <2>1, <2>2, <2>3, <2>4, SinkFills
  <1> QED BY <1>5, <1>6

LEMMA SinkAppends ==
  ASSUME Sink!SinkAssumption, SinkInv, NEW a \in Attempt, Sink!IcebergLoad(a) \/ Sink!IcebergAppend(a)
  PROVE  SinkInv'
  <1>1. SinkShape /\ SinkLanded /\ SinkOnce /\ Sink!AllOrNone
    BY DEF SinkInv
  <1>2. CASE Sink!IcebergLoad(a)
    <2>1. /\ sink = "iceberg" /\ attempt[a].at = "open" /\ Sink!Goto(a, IF 0 \in heard THEN "written" ELSE "halfway")
          /\ sink' = sink /\ dest' = dest /\ heard' = heard /\ sinkNode' = sinkNode /\ current' = current
      BY <1>2 DEF Sink!IcebergLoad, Sink!Open, Sink!Committed
    <2>2. sinkNode = "success" => a # current
      BY <1>1, <2>1, SinkBusy
    <2>3. 0 \in heard => Landed
      BY <1>1, <2>1 DEF SinkLanded
    <2>4. CASE 0 \in heard
      BY <2>1, <2>2, <2>3, <2>4, SinkLeaves
    <2>5. CASE 0 \notin heard
      BY <2>1, <2>2, <2>5, SinkLeaves
    <2> QED BY <2>4, <2>5
  <1>3. CASE Sink!IcebergAppend(a)
    <2>1. /\ sink = "iceberg" /\ attempt[a].at = "halfway" /\ Sink!Goto(a, "written")
          /\ dest' = [i \in Record |-> dest[i] + 1] /\ heard' = heard \cup {0}
          /\ sink' = sink /\ sinkNode' = sinkNode /\ current' = current
      BY <1>3 DEF Sink!IcebergAppend, Sink!Added, Record
    <2>2. /\ dest' \in [Record -> Nat] /\ \A i \in Record : dest'[i] = dest[i] + 1 /\ dest[i] \in Nat
      BY <1>1, <2>1 DEF SinkShape
    <2>3. \A i \in Record : dest'[i] > 0 /\ dest'[i] <= dest[i] + 1
      BY <2>2
    <2>4. Sink!AllOrNone'
      BY <1>1, <2>1, <2>2 DEF Sink!AllOrNone, Sink!Whole, Record, Sink!Record
    <2>5. ~ SinkOverlap => \A i \in Record : dest[i] = 0
      BY <1>1, <2>1 DEF SinkOnce
    <2>6. ~ SinkOverlap => Sink!OnceIfRecognised'
      BY <2>2, <2>5 DEF Sink!OnceIfRecognised, Record, Sink!Record
    <2>7. heard' \subseteq Nat /\ 0 \in heard'
      BY <1>1, <2>1 DEF SinkShape
    <2> QED BY <2>1, <2>2, <2>3, <2>4, <2>6, <2>7, SinkFills
  <1> QED BY <1>2, <1>3

LEMMA SinkProduces ==
  ASSUME Sink!SinkAssumption, SinkInv, NEW a \in Attempt, Sink!Produce(a)
  PROVE  SinkInv'
  <1>1. SinkShape /\ SinkLanded /\ SinkOnce /\ Sink!AllOrNone /\ SinkBounded
    BY DEF SinkInv
  <1>2. PICK S \in SUBSET Record :
          /\ sink = "kafka" /\ attempt[a].at = "open" /\ Sink!Goto(a, IF S = Record THEN "written" ELSE "over")
          /\ dest' = [i \in Record |-> IF i \in {k \in S : k \notin heard} THEN dest[i] + 1 ELSE dest[i]]
          /\ heard' = heard \cup {i : i \in S}
          /\ sink' = sink /\ sinkNode' = sinkNode /\ current' = current
    BY DEF Sink!Produce, Sink!ProducedAll, Sink!IdempotencyKey, Sink!Added, Sink!Open, Record
  <1> DEFINE stage == IF S = Record THEN "written" ELSE "over"
  <1>3. stage \in {"written", "over"} /\ Sink!Goto(a, stage) /\ (stage = "written" => S = Record)
    <2>1. CASE S = Record
      BY <1>2, <2>1
    <2>2. CASE S # Record
      BY <1>2, <2>2
    <2> QED BY <2>1, <2>2
  <1> HIDE DEF stage
  <1>4. sinkNode = "success" => a # current
    BY <1>1, <1>2, SinkBusy
  <1>5. heard' \subseteq Nat /\ dest' \in [Record -> Nat]
    <2>1. heard \subseteq Nat /\ dest \in [Record -> Nat] /\ S \subseteq Record /\ Record \subseteq Nat
      BY <1>1, SinkConstants DEF SinkShape
    <2>2. \A i \in Record : dest[i] \in Nat /\ dest[i] + 1 \in Nat
      BY <2>1
    <2>3. dest' \in [Record -> Nat]
      BY <1>2, <2>2
    <2>4. \A k \in heard' : k \in heard \/ k \in S
      BY <1>2
    <2>5. heard' \subseteq Nat
      BY <2>1, <2>4
    <2> QED BY <2>3, <2>5
  <1>6. /\ \A b \in Attempt : attempt'[b].at = IF b = a THEN stage ELSE attempt[b].at
        /\ SinkShape' /\ Cardinality(Over) \in Nat /\ Cardinality(Over)' = Cardinality(Over) + 1
    BY <1>1, <1>2, <1>3, <1>4, <1>5, SinkGoes
  <1>7. ASSUME NEW i \in Record
        PROVE  /\ dest[i] \in Nat /\ dest'[i] \in Nat /\ i \in Nat
               /\ dest'[i] = IF i \in S /\ i \notin heard THEN dest[i] + 1 ELSE dest[i]
               /\ (i \in heard => dest[i] > 0) /\ (i \notin heard => dest[i] = 0) /\ dest[i] <= 1
               /\ dest[i] <= Cardinality(Over)
    BY <1>1, <1>2, SinkConstants
       DEF SinkShape, SinkLanded, SinkOnce, SinkBounded, Sink!OnceIfRecognised, Sink!Recognising, Record
  <1>8. Landed => Landed'
    <2>1. \A i \in Record : dest[i] > 0 => dest'[i] > 0
      BY <1>7
    <2> QED BY <2>1 DEF Landed, Record, Sink!Record
  <1>9. SinkLanded'
    <2>1. S = Record => Landed'
      <3>1. \A i \in Record : i \in S => dest'[i] > 0
        BY <1>7
      <3> QED BY <3>1 DEF Landed, Record, Sink!Record
    <2>2. \A i \in Record : i \in heard' => dest'[i] > 0
      BY <1>2, <1>7
    <2>3. (sinkNode = "success" => Landed) /\ \A b \in Attempt : attempt[b].at = "written" => Landed
      BY <1>1, <1>2 DEF SinkLanded, Truncating
    <2> QED BY <1>2, <1>3, <1>6, <1>8, <2>1, <2>2, <2>3 DEF SinkLanded, Attempt, Sink!Attempt, Record, Sink!Record
  <1>10. SinkOnce'
    <2>1. \A i \in Record : dest'[i] <= 1 /\ (i \notin heard' => dest'[i] = 0)
      BY <1>2, <1>7
    <2> QED BY <1>2, <2>1 DEF SinkOnce, Sink!OnceIfRecognised, Record, Sink!Record
  <1>11. SinkBounded'
    <2>1. \A i \in Record : dest'[i] <= Cardinality(Over)'
      BY <1>6, <1>7
    <2> QED BY <1>2, <2>1 DEF SinkBounded, Record, Sink!Record
  <1>12. Sink!AllOrNone'
    BY <1>2 DEF Sink!AllOrNone, Sink!Whole, Sink!Transactional, Sink!OneRequest
  <1> QED BY <1>6, <1>9, <1>10, <1>11, <1>12 DEF SinkInv

LEMMA SinkTruncates ==
  ASSUME Sink!SinkAssumption, SinkInv, NEW a \in Attempt, Sink!Truncate(a)
  PROVE  SinkInv'
  <1>1. SinkShape
    BY DEF SinkInv
  <1>2. /\ Truncating /\ attempt[a].at = "open" /\ Sink!Goto(a, "halfway") /\ dest' = [i \in Record |-> 0]
        /\ sink' = sink /\ heard' = heard /\ sinkNode' = sinkNode /\ current' = current
    BY DEF Sink!Truncate, Sink!Open, Truncating, Record
  <1>3. /\ sinkNode = "success" => a # current
        /\ ~ SinkOverlap => (sinkNode # "success" /\ \A b \in Attempt : b # a => attempt[b].at \in {"waiting", "over"})
    BY <1>1, <1>2, SinkBusy
  <1>4. heard' \subseteq Nat /\ dest' \in [Record -> Nat]
    BY <1>1, <1>2 DEF SinkShape
  <1>5. /\ \A b \in Attempt : attempt'[b].at = IF b = a THEN "halfway" ELSE attempt[b].at
        /\ SinkShape' /\ Cardinality(Over)' \in Nat
    BY <1>1, <1>2, <1>3, <1>4, SinkGoes
  <1>6. \A i \in Record : dest'[i] = 0
    BY <1>2
  <1>7. SinkLanded'
    <2>1. ~ SinkOverlap => \A b \in Attempt : attempt'[b].at # "written"
      BY <1>3, <1>5
    <2> QED BY <1>2, <1>3, <2>1 DEF SinkLanded, Truncating, Attempt, Sink!Attempt
  <1>8. SinkOnce' /\ Sink!AllOrNone'
    BY <1>2, <1>6 DEF SinkOnce, Truncating, Sink!OnceIfRecognised, Sink!AllOrNone, Record, Sink!Record
  <1>9. SinkBounded'
    BY <1>5, <1>6 DEF SinkBounded, Record, Sink!Record
  <1> QED BY <1>5, <1>7, <1>8, <1>9 DEF SinkInv

(* A step that moves the cursor of one attempt.                            *)
LEMMA SinkWrites ==
  ASSUME Sink!SinkAssumption, SinkInv, NEW a \in Attempt, Sink!BulkWrite(a) \/ Sink!InsertBatch(a)
  PROVE  SinkInv'
  <1> DEFINE n == attempt[a].next
             m == Sink!AfterBatch(a)
  <1>1. SinkShape /\ SinkLanded /\ SinkOnce /\ Sink!AllOrNone /\ SinkBounded
    BY DEF SinkInv
  <1>2. /\ n \in 1..Records + 1 /\ m \in 1..Records + 1
        /\ \A i \in Record : i < m => i < n \/ i \in Sink!Batch(a)
    <2>1. n \in 1..Records + 1
      BY <1>1 DEF SinkShape, Progress
    <2> QED BY <2>1, SinkConstants DEF Sink!AfterBatch, Sink!Batch, Record
  <1> HIDE DEF n, m
  <1>3. CASE /\ sink = "mongo" /\ attempt[a].at = "open"
             /\ dest' = [i \in Record |-> IF i \in Sink!Batch(a) THEN 1 ELSE dest[i]]
             /\ attempt' = [attempt EXCEPT ![a].next = m, ![a].at = IF m > Records THEN "written" ELSE @]
             /\ sink' = sink /\ heard' = heard /\ sinkNode' = sinkNode /\ current' = current
    <2>1. /\ sink = "mongo" /\ attempt[a].at = "open"
          /\ dest' = [i \in Record |-> IF i \in Sink!Batch(a) THEN 1 ELSE dest[i]]
          /\ attempt' = [attempt EXCEPT ![a].next = m, ![a].at = IF m > Records THEN "written" ELSE @]
          /\ sink' = sink /\ heard' = heard /\ sinkNode' = sinkNode /\ current' = current
      BY <1>3
    <2>2. PICK stage \in {"open", "written"} : stage = (IF m > Records THEN "written" ELSE "open")
      OBVIOUS
    <2>a. stage = (IF m > Records THEN "written" ELSE attempt[a].at) /\ (stage = "written" => m > Records)
      <3>1. CASE m > Records
        BY <2>2, <3>1
      <3>2. CASE ~ (m > Records)
        BY <2>1, <2>2, <3>2
      <3> QED BY <3>1, <3>2
    <2>3. /\ attempt' \in [Attempt -> Progress]
          /\ \A b \in Attempt : /\ attempt'[b].at = IF b = a THEN stage ELSE attempt[b].at
                                /\ attempt'[b].next = IF b = a THEN m ELSE attempt[b].next
      BY <1>1, <1>2, <2>1, <2>a DEF SinkShape, Progress
    <2>4. sinkNode = "success" => a # current
      BY <1>1, <2>1, SinkBusy
    <2>5. ASSUME NEW i \in Record
          PROVE  /\ dest[i] \in Nat /\ dest'[i] \in Nat /\ i \in Nat /\ dest[i] <= 1
                 /\ dest'[i] = IF i \in Sink!Batch(a) THEN 1 ELSE dest[i]
                 /\ (i < n => dest[i] > 0)
      BY <1>1, <2>1, SinkConstants
         DEF SinkShape, SinkLanded, SinkOnce, Sink!OnceIfRecognised, Sink!Recognising, Record, n
    <2>6. SinkShape'
      BY <1>1, <2>1, <2>3, <2>4 DEF SinkShape, Truncating
    <2>7. ASSUME NEW i \in Record PROVE /\ dest'[i] <= 1 /\ (dest[i] > 0 => dest'[i] > 0) /\ (i < m => dest'[i] > 0)
      BY <1>2, <2>5
    <2>8. Landed => Landed'
      BY <2>7 DEF Landed, Record, Sink!Record
    <2>9. m > Records => Landed'
      <3>1. m > Records => \A i \in Record : i < m
        BY <1>2, SinkConstants
      <3> QED BY <2>7, <3>1 DEF Landed, Record, Sink!Record
    <2>10. SinkLanded'
      <3>1. (sinkNode = "success" => Landed) /\ \A b \in Attempt : attempt[b].at = "written" => Landed
        BY <1>1, <2>1 DEF SinkLanded, Truncating
      <3>2. \A b \in Attempt : attempt'[b].at = "written" => Landed'
        BY <2>a, <2>3, <2>8, <2>9, <3>1
      <3>3. \A b \in Attempt : \A i \in Record : i < attempt[b].next => dest[i] > 0
        BY <1>1, <2>1 DEF SinkLanded
      <3>4. \A b \in Attempt : \A i \in Record : i < attempt'[b].next => dest'[i] > 0
        BY <2>3, <2>7, <3>3
      <3> QED BY <2>1, <2>8, <3>1, <3>2, <3>4 DEF SinkLanded, Attempt, Sink!Attempt, Record, Sink!Record
    <2>11. SinkOnce' /\ SinkBounded'
      BY <2>1, <2>7 DEF SinkOnce, SinkBounded, Sink!OnceIfRecognised, Record, Sink!Record
    <2>12. Sink!AllOrNone'
      BY <2>1 DEF Sink!AllOrNone, Sink!Whole, Sink!Transactional, Sink!OneRequest
    <2> QED BY <2>6, <2>10, <2>11, <2>12 DEF SinkInv
  <1>4. CASE Sink!InsertBatch(a)
    <2>1. /\ sink \in Sink!Transactional /\ attempt' = [attempt EXCEPT ![a].next = m]
          /\ sink' = sink /\ dest' = dest /\ heard' = heard /\ sinkNode' = sinkNode /\ current' = current
      BY <1>4 DEF Sink!InsertBatch, m
    <2>2. attempt' \in [Attempt -> Progress] /\ \A b \in Attempt : attempt'[b].at = attempt[b].at
      BY <1>1, <1>2, <2>1 DEF SinkShape, Progress
    <2>3. SinkShape'
      BY <1>1, <2>1, <2>2 DEF SinkShape, Truncating
    <2>4. Over' = Over /\ (Landed' <=> Landed)
      BY <2>1, <2>2 DEF Over, Landed, Attempt, Sink!Attempt, Record, Sink!Record
    <2>5. SinkLanded'
      BY <1>1, <2>1, <2>2, <2>4 DEF SinkLanded, Truncating, Attempt, Sink!Attempt, Record, Sink!Record, Sink!Transactional
    <2>6. SinkOnce' /\ Sink!AllOrNone'
      BY <1>1, <2>1, <2>2
         DEF SinkOnce, Sink!OnceIfRecognised, Sink!AllOrNone, Attempt, Sink!Attempt, Record, Sink!Record
    <2>7. SinkBounded'
      BY <1>1, <2>1, <2>4 DEF SinkBounded, Record, Sink!Record
    <2> QED BY <2>3, <2>5, <2>6, <2>7 DEF SinkInv
  <1>5. ASSUME NEW bad \in Record, sink = "mongo", attempt[a].at = "open", Sink!Goto(a, "over"),
               dest' = [i \in Record |-> IF i \in {k \in Sink!Batch(a) : k < bad} THEN 1 ELSE dest[i]],
               sink' = sink, heard' = heard, sinkNode' = sinkNode, current' = current
        PROVE  SinkInv'
    <2>1. sinkNode = "success" => a # current
      BY <1>1, <1>5, SinkBusy
    <2>2. ASSUME NEW i \in Record
          PROVE  /\ dest[i] \in Nat /\ dest[i] <= 1 /\ dest'[i] \in {1, dest[i]}
      BY <1>1, <1>5, SinkConstants
         DEF SinkShape, SinkOnce, Sink!OnceIfRecognised, Sink!Recognising, Record
    <2>3. heard' \subseteq Nat /\ dest' \in [Record -> Nat]
      BY <1>1, <1>5, <2>2 DEF SinkShape
    <2>4. /\ \A b \in Attempt : attempt'[b].at = IF b = a THEN "over" ELSE attempt[b].at
          /\ SinkShape'
      BY <1>1, <1>5, <2>1, <2>3, SinkGoes
    <2>5. \A b \in Attempt : attempt'[b].next = attempt[b].next
      BY <1>1, <1>5 DEF Sink!Goto, SinkShape, Progress
    <2>6. \A i \in Record : dest'[i] <= 1 /\ (dest[i] > 0 => dest'[i] > 0)
      BY <2>2
    <2>7. Landed => Landed'
      BY <2>6 DEF Landed, Record, Sink!Record
    <2>8. SinkLanded'
      <3>1. /\ sinkNode = "success" => Landed
            /\ \A b \in Attempt : attempt[b].at = "written" => Landed
            /\ \A b \in Attempt : \A i \in Record : i < attempt[b].next => dest[i] > 0
        BY <1>1, <1>5 DEF SinkLanded, Truncating
      <3>2. \A b \in Attempt : attempt'[b].at = "written" => attempt[b].at = "written"
        BY <2>4
      <3>3. \A b \in Attempt : \A i \in Record : i < attempt'[b].next => dest'[i] > 0
        BY <2>5, <2>6, <3>1
      <3> QED BY <1>5, <2>7, <3>1, <3>2, <3>3 DEF SinkLanded, Attempt, Sink!Attempt, Record, Sink!Record
    <2>9. SinkOnce' /\ SinkBounded'
      BY <1>5, <2>6 DEF SinkOnce, SinkBounded, Sink!OnceIfRecognised, Record, Sink!Record
    <2>10. Sink!AllOrNone'
      BY <1>5 DEF Sink!AllOrNone, Sink!Whole, Sink!Transactional, Sink!OneRequest
    <2> QED BY <2>4, <2>8, <2>9, <2>10 DEF SinkInv
  <1>6. CASE Sink!BulkWrite(a)
    <2>1. Sink!Batch(a) \subseteq Record
      BY DEF Sink!Batch, Record
    <2> QED BY <1>3, <1>5, <1>6, <2>1 DEF Sink!BulkWrite, Sink!Open, Sink!Upserted, Record, m
  <1> QED BY <1>4, <1>6

LEMMA SinkEnds ==
  ASSUME Sink!SinkAssumption, SinkInv, NEW a \in Attempt, Sink!Answer(a) \/ Sink!AttemptEnds(a)
  PROVE  SinkInv'
  <1>1. SinkShape /\ SinkLanded /\ SinkOnce /\ Sink!AllOrNone /\ SinkBounded
    BY DEF SinkInv
  <1>2. CASE Sink!AttemptEnds(a)
    <2>1. /\ attempt[a].at \in {"open", "halfway", "written"} /\ Sink!Goto(a, "over")
          /\ (sinkNode = "success" => a # current)
          /\ sink' = sink /\ dest' = dest /\ heard' = heard /\ sinkNode' = sinkNode /\ current' = current
      BY <1>2 DEF Sink!AttemptEnds
    <2> QED BY <2>1, SinkLeaves
  <1>3. CASE Sink!Answer(a)
    <2>1. /\ a = current /\ attempt[a].at = "written" /\ sinkNode' = "success"
          /\ attempt' = [attempt EXCEPT ![a].at = "over"]
          /\ sink' = sink /\ dest' = dest /\ heard' = heard /\ current' = current
      BY <1>3 DEF Sink!Answer, Sink!Goto
    <2>2. /\ attempt' \in [Attempt -> Progress]
          /\ \A b \in Attempt : /\ attempt'[b].at = IF b = a THEN "over" ELSE attempt[b].at
                                /\ attempt'[b].next = attempt[b].next
      BY <1>1, <2>1 DEF SinkShape, Progress
    <2>3. SinkShape'
      BY <1>1, <2>1, <2>2 DEF SinkShape, Truncating
    <2>4. Over' = Over
      BY <2>1, <2>2 DEF Over, Attempt, Sink!Attempt
    <2>5. Landed' <=> Landed
      BY <2>1 DEF Landed, Record, Sink!Record
    <2>6. SinkLanded'
      BY <1>1, <2>1, <2>2, <2>5 DEF SinkLanded, Truncating, Attempt, Sink!Attempt, Record, Sink!Record
    <2>7. SinkOnce' /\ Sink!AllOrNone'
      BY <1>1, <2>1, <2>2
         DEF SinkOnce, Sink!OnceIfRecognised, Sink!AllOrNone, Attempt, Sink!Attempt, Record, Sink!Record
    <2>8. SinkBounded'
      BY <1>1, <2>1, <2>4 DEF SinkBounded, Record, Sink!Record
    <2> QED BY <2>3, <2>6, <2>7, <2>8 DEF SinkInv
  <1> QED BY <1>2, <1>3

LEMMA SinkRetries ==
  ASSUME Sink!SinkAssumption, SinkInv, NEW a \in Attempt, Sink!Retry(a)
  PROVE  SinkInv'
  <1>1. SinkShape /\ SinkLanded /\ SinkOnce /\ Sink!AllOrNone /\ SinkBounded
    BY DEF SinkInv
  <1>2. /\ a = current /\ sinkNode = "running"
        /\ (attempt[a].at = "over" \/ (SinkOverlap /\ attempt[a].at # "waiting"))
        /\ sink' = sink /\ dest' = dest /\ heard' = heard
    BY DEF Sink!Retry
  <1>3. SinkOnce' /\ Sink!AllOrNone' /\ SinkBounded' /\ SinkLanded' /\ SinkShape'
    <2>1. CASE a = SinkAttempts
      <3>1. sinkNode' = "failed" /\ current' = current /\ attempt' = attempt
        BY <2>1 DEF Sink!Retry
      <3>2. Over' = Over /\ (Landed' <=> Landed)
        BY <1>2, <3>1 DEF Over, Landed, Attempt, Sink!Attempt, Record, Sink!Record
      <3>3. SinkOnce' /\ Sink!AllOrNone'
        BY <1>1, <1>2, <3>1
           DEF SinkOnce, Sink!OnceIfRecognised, Sink!AllOrNone, Attempt, Sink!Attempt, Record, Sink!Record
      <3>4. SinkBounded' /\ SinkLanded'
        BY <1>1, <1>2, <3>1, <3>2
           DEF SinkBounded, SinkLanded, Truncating, Attempt, Sink!Attempt, Record, Sink!Record
      <3>5. SinkShape'
        BY <1>1, <1>2, <3>1 DEF SinkShape, Truncating
      <3> QED BY <3>3, <3>4, <3>5
    <2>2. CASE a # SinkAttempts
      <3>1. sinkNode' = sinkNode /\ current' = a + 1 /\ attempt' = [attempt EXCEPT ![a + 1].at = "open"]
        BY <2>2 DEF Sink!Retry
      <3>2. a + 1 \in Attempt /\ attempt[a + 1].at = "waiting"
        <4>1. a + 1 \in Attempt /\ a < a + 1
          BY <2>2, SinkConstants
        <4> QED BY <1>1, <1>2, <4>1 DEF SinkShape
      <3>3. /\ attempt' \in [Attempt -> Progress]
            /\ \A b \in Attempt : /\ attempt'[b].at = IF b = a + 1 THEN "open" ELSE attempt[b].at
                                  /\ attempt'[b].next = attempt[b].next
        BY <1>1, <3>1, <3>2 DEF SinkShape, Progress
      <3>4. Over' = Over
        BY <3>2, <3>3 DEF Over, Attempt, Sink!Attempt
      <3>5. Landed' <=> Landed
        BY <1>2 DEF Landed, Record, Sink!Record
      <3>6. SinkOnce' /\ Sink!AllOrNone'
        BY <1>1, <1>2, <3>3
           DEF SinkOnce, Sink!OnceIfRecognised, Sink!AllOrNone, Attempt, Sink!Attempt, Record, Sink!Record
      <3>7. SinkBounded'
        BY <1>1, <1>2, <3>4 DEF SinkBounded, Record, Sink!Record
      <3>8. SinkLanded'
        BY <1>1, <1>2, <3>1, <3>3, <3>5 DEF SinkLanded, Truncating, Attempt, Sink!Attempt, Record, Sink!Record
      <3>9. SinkShape'
        <4>1. \A b \in Attempt : attempt'[b].at = "waiting" <=> current' < b
          <5>1. SUFFICES ASSUME NEW b \in Attempt PROVE attempt'[b].at = "waiting" <=> a + 1 < b
            BY <3>1
          <5>2. attempt[b].at = "waiting" <=> a < b
            BY <1>1, <1>2 DEF SinkShape
          <5> QED BY <3>3, <5>2, SinkConstants
        <4>2. ~ SinkOverlap => \A b \in Attempt : b # current' => attempt'[b].at \in {"waiting", "over"}
          BY <1>1, <1>2, <3>1, <3>3 DEF SinkShape
        <4>3. \A b \in Attempt : attempt'[b].at = "halfway" => Truncating \/ sink = "iceberg"
          BY <1>1, <3>3 DEF SinkShape
        <4> QED BY <1>1, <1>2, <3>1, <3>2, <3>3, <4>1, <4>2, <4>3
                DEF SinkShape, Truncating, Attempt, Sink!Attempt, Record, Sink!Record
      <3> QED BY <3>6, <3>7, <3>8, <3>9
    <2> QED BY <2>1, <2>2
  <1> QED BY <1>3 DEF SinkInv

LEMMA SinkIdle ==
  ASSUME SinkInv, UNCHANGED Sink!vars
  PROVE  SinkInv'
  <1>1. /\ sink' = sink /\ dest' = dest /\ heard' = heard /\ sinkNode' = sinkNode /\ current' = current
        /\ attempt' = attempt
    BY DEF Sink!vars
  <1>2. /\ SinkShape' <=> SinkShape
    BY <1>1 DEF SinkShape, Truncating, Attempt, Sink!Attempt, Record, Sink!Record, Progress
  <1>3. SinkLanded' <=> SinkLanded
    BY <1>1 DEF SinkLanded, Landed, Truncating, Attempt, Sink!Attempt, Record, Sink!Record
  <1>4. (SinkOnce' <=> SinkOnce) /\ (Sink!AllOrNone' <=> Sink!AllOrNone)
    BY <1>1 DEF SinkOnce, Sink!OnceIfRecognised, Sink!AllOrNone, Attempt, Sink!Attempt, Record, Sink!Record
  <1>5. SinkBounded' <=> SinkBounded
    <2>1. Over' = Over
      BY <1>1 DEF Over, Attempt, Sink!Attempt
    <2> QED BY <1>1, <2>1 DEF SinkBounded, Record, Sink!Record
  <1> QED BY <1>2, <1>3, <1>4, <1>5 DEF SinkInv

LEMMA SinkSteps ==
  ASSUME Sink!SinkAssumption, SinkInv, [Sink!Next]_(Sink!vars)
  PROVE  SinkInv'
  <1>1. ASSUME NEW a \in Attempt,
               \/ Sink!InsertBatch(a) \/ Sink!CommitTx(a) \/ Sink!BulkWrite(a)
               \/ Sink!ClickhouseInsert(a) \/ Sink!RecordsInsert(a) \/ Sink!PutObject(a) \/ Sink!WebhookPost(a)
               \/ Sink!Produce(a) \/ Sink!Truncate(a) \/ Sink!Fill(a) \/ Sink!SheetAppend(a)
               \/ Sink!IcebergLoad(a) \/ Sink!IcebergAppend(a) \/ Sink!Answer(a) \/ Sink!AttemptEnds(a)
               \/ Sink!Retry(a)
        PROVE  SinkInv'
    BY <1>1, SinkCommits, SinkRequests, SinkPosts, SinkAppends, SinkProduces, SinkTruncates, SinkWrites, SinkEnds,
       SinkRetries
  <1>2. CASE Sink!Next
    <2>1. PICK a \in Attempt :
               \/ Sink!InsertBatch(a) \/ Sink!CommitTx(a) \/ Sink!BulkWrite(a)
               \/ Sink!ClickhouseInsert(a) \/ Sink!RecordsInsert(a) \/ Sink!PutObject(a) \/ Sink!WebhookPost(a)
               \/ Sink!Produce(a) \/ Sink!Truncate(a) \/ Sink!Fill(a) \/ Sink!SheetAppend(a)
               \/ Sink!IcebergLoad(a) \/ Sink!IcebergAppend(a) \/ Sink!Answer(a) \/ Sink!AttemptEnds(a)
               \/ Sink!Retry(a)
      BY <1>2 DEF Sink!Next, Attempt
    <2> QED BY <1>1, <2>1
  <1>3. CASE UNCHANGED Sink!vars
    BY <1>3, SinkIdle
  <1> QED BY <1>2, <1>3

(* The counts stay within what the policy allows.                          *)
LEMMA SinkImplies ==
  ASSUME Sink!SinkAssumption, SinkInv
  PROVE  /\ Sink!AllOrNone
         /\ ~ (SinkOverlap /\ sink = "iceberg") => Sink!OnceIfRecognised
         /\ ~ (SinkOverlap /\ Truncating) => Sink!SuccessIsDelivered
         /\ Sink!TypeOK
  <1>1. SinkShape /\ SinkLanded /\ SinkOnce /\ Sink!AllOrNone /\ SinkBounded
    BY DEF SinkInv
  <1>2. ~ (SinkOverlap /\ Truncating) => Sink!SuccessIsDelivered
    BY <1>1 DEF SinkLanded, Landed, Sink!SuccessIsDelivered, Record
  <1>3. Sink!TypeOK
    <2>1. Cardinality(Over) <= SinkAttempts /\ Cardinality(Over) \in Nat
      <3>1. Over \subseteq Attempt /\ IsFiniteSet(Attempt) /\ Cardinality(Attempt) = SinkAttempts
        <4>1. SinkAttempts \in Nat \ {0} /\ Attempt = 1..SinkAttempts /\ IsFiniteSet(Attempt)
          BY SinkConstants
        <4>2. Cardinality(1..SinkAttempts) = IF 1 > SinkAttempts THEN 0 ELSE SinkAttempts - 1 + 1
          BY <4>1, FS_Interval
        <4> QED BY <4>1, <4>2 DEF Over
      <3> QED BY <3>1, FS_Subset, FS_CardinalityType
    <2>2. \A i \in Record : dest[i] \in 0..SinkAttempts
      BY <1>1, <2>1, SinkConstants DEF SinkBounded, SinkShape
    <2>3. \A a \in Attempt : /\ attempt[a].at \in {"waiting", "open", "halfway", "written", "over"}
                             /\ attempt[a].next \in 1..Records + 1
      BY <1>1 DEF SinkShape, Progress
    <2>4. dest \in [Record -> 0..SinkAttempts]
      BY <1>1, <2>2 DEF SinkShape
    <2> QED BY <1>1, <2>3, <2>4 DEF SinkShape, Sink!TypeOK, Record, Attempt
  <1> QED BY <1>1, <1>2, <1>3 DEF SinkOnce

(* The sinks of internal/connectors, with any number of records, attempts  *)
(* and rows of a batch: a node that succeeded has put every record where   *)
(* it belongs, and each destination keeps its promise about repeated       *)
(* deliveries, unless a timed-out attempt may go on writing to a sink that *)
(* cannot tell.                                                            *)
THEOREM SinksKeepRecords ==
  ASSUME Sink!SinkAssumption
  PROVE  Sink!Spec => [](/\ Sink!TypeOK /\ Sink!AllOrNone
                         /\ ~ (SinkOverlap /\ Truncating) => Sink!SuccessIsDelivered
                         /\ ~ (SinkOverlap /\ sink = "iceberg") => Sink!OnceIfRecognised)
  <1>1. Sink!Init => SinkInv
    BY SinkStarts
  <1>2. SinkInv /\ [Sink!Next]_(Sink!vars) => SinkInv'
    BY SinkSteps
  <1>3. SinkInv => /\ Sink!TypeOK /\ Sink!AllOrNone
                   /\ ~ (SinkOverlap /\ Truncating) => Sink!SuccessIsDelivered
                   /\ ~ (SinkOverlap /\ sink = "iceberg") => Sink!OnceIfRecognised
    BY SinkImplies
  <1> QED BY <1>1, <1>2, <1>3, PTL DEF Sink!Spec

-----------------------------------------------------------------------------
(* Nodes.                                                                  *)

CONSTANTS Kind, Pages, NodeAttempts, NodeOverlap, MaxPayload, MaxMerge, Strategy
VARIABLES row, store, atts, step, tries, refs, node, output, cause, answered, unrecorded

Node == INSTANCE NodeRuns WITH MaxAttempts <- NodeAttempts, Overlap <- NodeOverlap, dropped <- unrecorded

(* Induction over the natural numbers, for a set.                          *)
LEMMA SetInduction ==
  ASSUME NEW S, 0 \in S, \A n \in Nat : n \in S => n + 1 \in S
  PROVE  \A n \in Nat : n \in S
  <1> DEFINE T == {n \in Nat : n \notin S}
             R == {p \in Nat \X Nat : p[1] < p[2]}
  <1>1. SUFFICES ASSUME T # {} PROVE FALSE
    OBVIOUS
  <1>2. PICK n \in T : \A m \in T : <<m, n>> \notin R
    <2>1. T \subseteq Nat
      OBVIOUS
    <2>2. IsWellFoundedOn(R, Nat)
      BY NatLessThanWellFounded DEF OpToRel
    <2> HIDE DEF T, R
    <2> QED BY <1>1, <2>1, <2>2, WFMin
  <1>3. n \in Nat /\ n \notin S /\ n # 0 /\ n - 1 \in Nat /\ n - 1 + 1 = n
    BY <1>2
  <1>4. <<n - 1, n>> \in R
    BY <1>3
  <1>5. n - 1 \in S
    BY <1>2, <1>3, <1>4
  <1>6. n - 1 + 1 \in S
    BY <1>3, <1>5
  <1> QED BY <1>3, <1>6

(* FlattenSeq: its recursive function exists, and an appended sequence     *)
(* goes to the end.                                                        *)
Part(f, ss, i) == IF i = 1 THEN ss[i] ELSE f[i - 1] \o ss[i]
Unfold(f, ss, n) == [i \in 1..n |-> Part(f, ss, i)]
Flat(f, ss, n) == f = Unfold(f, ss, n)

LEMMA UnfoldShape ==
  ASSUME NEW f, NEW ss, NEW n
  PROVE  Unfold(f, ss, n) = [i \in 1..n |-> Unfold(f, ss, n)[i]]
  BY DEF Unfold

LEMMA FlatAt ==
  ASSUME NEW f, NEW ss, NEW n, Flat(f, ss, n), NEW i \in 1..n
  PROVE  f[i] = Part(f, ss, i)
  <1>1. Unfold(f, ss, n)[i] = Part(f, ss, i)
    BY Zenon DEF Unfold
  <1> QED BY <1>1, Zenon DEF Flat

LEMMA FlattenDefined ==
  ASSUME NEW ss, Len(ss) \in Nat
  PROVE  \E f : Flat(f, ss, Len(ss))
  <1> DEFINE S == {n \in Nat : \E f : Flat(f, ss, n)}
  <1>1. 0 \in S
    <2> DEFINE f == [i \in 1..0 |-> ss[i]]
    <2>1. Flat(f, ss, 0)
      BY DEF Flat, Unfold, Part
    <2> QED BY <2>1
  <1>2. ASSUME NEW n \in Nat, n \in S PROVE n + 1 \in S
    <2>1. PICK f : Flat(f, ss, n)
      BY <1>2
    <2> DEFINE last == IF n = 0 THEN ss[1] ELSE f[n] \o ss[n + 1]
               g == [i \in 1..n + 1 |-> IF i = n + 1 THEN last ELSE f[i]]
               h == Unfold(g, ss, n + 1)
    <2>2. ASSUME NEW i \in 1..n + 1 PROVE g[i] = h[i]
      <3>1. h[i] = Part(g, ss, i)
        BY Zenon DEF Unfold
      <3>2. g[i] = IF i = n + 1 THEN last ELSE f[i]
        BY Zenon
      <3>3. i # 1 => i - 1 \in 1..n /\ i - 1 \in 1..n + 1 /\ i - 1 # n + 1
        OBVIOUS
      <3>4. i # 1 => g[i - 1] = f[i - 1]
        BY <3>3
      <3> HIDE DEF g, h
      <3>5. CASE i = n + 1
        <4>1. CASE n = 0
          BY <3>1, <3>2, <3>5, <4>1 DEF Part
        <4>2. CASE n # 0
          <5>1. i # 1 /\ i - 1 = n
            BY <3>5, <4>2
          <5> QED BY <3>1, <3>2, <3>4, <3>5, <4>2, <5>1 DEF Part
        <4> QED BY <4>1, <4>2
      <3>6. CASE i # n + 1
        <4>1. i \in 1..n
          BY <3>6
        <4>2. f[i] = Part(f, ss, i)
          BY <2>1, <4>1, FlatAt, Zenon
        <4> QED BY <3>1, <3>2, <3>4, <3>6, <4>2 DEF Part
      <3> QED BY <3>5, <3>6
    <2>3. g = h
      <3>1. h = [i \in 1..n + 1 |-> h[i]]
        BY UnfoldShape, Zenon
      <3>2. g = [i \in 1..n + 1 |-> g[i]]
        BY Zenon
      <3> HIDE DEF g, h
      <3> QED BY <2>2, <3>1, <3>2
    <2>4. Flat(g, ss, n + 1)
      BY <2>3, Zenon DEF Flat
    <2> HIDE DEF g
    <2> QED BY <2>4
  <1> HIDE DEF S
  <1>3. \A n \in Nat : n \in S
    BY <1>1, <1>2, SetInduction
  <1>4. Len(ss) \in S
    BY <1>3
  <1> QED BY <1>4 DEF S

LEMMA FlattenValue ==
  ASSUME NEW ss, Len(ss) \in Nat \ {0}
  PROVE  \E f : Flat(f, ss, Len(ss)) /\ Node!FlattenSeq(ss) = f[Len(ss)]
  <1>1. \E f : Flat(f, ss, Len(ss))
    BY FlattenDefined
  <1>2. Node!FlattenSeq(ss) = (CHOOSE f : Flat(f, ss, Len(ss)))[Len(ss)]
    BY DEF Node!FlattenSeq, Flat, Unfold, Part
  <1>3. Flat(CHOOSE f : Flat(f, ss, Len(ss)), ss, Len(ss))
    BY <1>1, Zenon
  <1> QED BY <1>2, <1>3

LEMMA FlattenAppend ==
  ASSUME NEW X, NEW ss \in Seq(Seq(X)), NEW s \in Seq(X)
  PROVE  /\ Node!FlattenSeq(ss) \in Seq(X)
         /\ Node!FlattenSeq(Append(ss, s)) = Node!FlattenSeq(ss) \o s
  <1> DEFINE tt == Append(ss, s)
  <1>1. /\ tt \in Seq(Seq(X)) /\ Len(tt) = Len(ss) + 1 /\ Len(ss) \in Nat /\ tt[Len(tt)] = s
        /\ \A i \in 1..Len(ss) : tt[i] = ss[i] /\ ss[i] \in Seq(X)
    OBVIOUS
  <1> HIDE DEF tt
  <1>2. PICK g : Flat(g, tt, Len(tt)) /\ Node!FlattenSeq(tt) = g[Len(tt)]
    <2>1. Len(tt) \in Nat \ {0}
      BY <1>1
    <2> QED BY <2>1, FlattenValue
  <1>3. CASE Len(ss) = 0
    <2>1. ss = <<>> /\ Node!FlattenSeq(ss) = ss
      BY <1>3 DEF Node!FlattenSeq
    <2>a. 1 \in 1..Len(tt) /\ Len(tt) = 1
      BY <1>1, <1>3
    <2>b. g[1] = Part(g, tt, 1)
      BY <1>2, <2>a, FlatAt, Zenon
    <2>2. g[1] = tt[1]
      BY <2>b DEF Part
    <2>3. Node!FlattenSeq(tt) = s
      BY <1>1, <1>2, <2>a, <2>2
    <2>4. <<>> \o s = s /\ <<>> \in Seq(X)
      OBVIOUS
    <2> QED BY <2>1, <2>3, <2>4 DEF tt
  <1>4. CASE Len(ss) # 0
    <2>1. PICK f : Flat(f, ss, Len(ss)) /\ Node!FlattenSeq(ss) = f[Len(ss)]
      BY <1>1, <1>4, FlattenValue
    <2> DEFINE S == {n \in Nat : n \in 1..Len(ss) => f[n] = g[n] /\ f[n] \in Seq(X)}
    <2>2. 0 \in S
      OBVIOUS
    <2>3. ASSUME NEW n \in Nat, n \in S PROVE n + 1 \in S
      <3>1. SUFFICES ASSUME NEW k \in Nat, k = n + 1, k \in 1..Len(ss) PROVE f[k] = g[k] /\ f[k] \in Seq(X)
        OBVIOUS
      <3>2. k \in 1..Len(tt) /\ tt[k] = ss[k] /\ ss[k] \in Seq(X)
        BY <1>1, <3>1
      <3>3. f[k] = Part(f, ss, k)
        BY <2>1, <3>1, FlatAt, Zenon
      <3>4. g[k] = Part(g, tt, k)
        BY <1>2, <3>2, FlatAt, Zenon
      <3>5. CASE k = 1
        BY <3>2, <3>3, <3>4, <3>5 DEF Part
      <3>6. CASE k # 1
        <4>1. f[n] = g[n] /\ f[n] \in Seq(X) /\ k - 1 = n
          BY <1>1, <2>3, <3>1, <3>6
        <4>2. Part(f, ss, k) = f[n] \o ss[k] /\ Part(g, tt, k) = g[n] \o tt[k]
          BY <3>6, <4>1, Zenon DEF Part
        <4> QED BY <3>2, <3>3, <3>4, <4>1, <4>2
      <3> QED BY <3>5, <3>6
    <2> HIDE DEF S
    <2>4. Len(ss) \in S
      BY <1>1, <2>2, <2>3, SetInduction
    <2>5. f[Len(ss)] = g[Len(ss)] /\ f[Len(ss)] \in Seq(X)
      BY <1>1, <1>4, <2>4 DEF S
    <2>6. g[Len(tt)] = g[Len(ss)] \o s
      <3>1. Len(tt) \in 1..Len(tt) /\ Len(tt) # 1 /\ Len(tt) - 1 = Len(ss)
        BY <1>1, <1>4
      <3>2. g[Len(tt)] = Part(g, tt, Len(tt))
        BY <1>2, <3>1, FlatAt, Zenon
      <3> QED BY <1>1, <3>1, <3>2 DEF Part
    <2> QED BY <1>2, <2>1, <2>5, <2>6 DEF tt
  <1> QED BY <1>1, <1>3, <1>4

Payload == Seq(Nat \X Nat)
Attempted == [call : 1..Node!Consolidate, stage : Node!Stages, live : BOOLEAN, key : Nat, wrote : Payload]
Count == [status : {"none", "success", "failed"}, count : Nat, attempt : Nat]
Held == [i \in 1..Len(refs) |-> store[refs[i]]]
Wrote(a) == atts[a].stage \in {"written", "recorded"}

(* At most one attempt is awaited, the last one, and for the call at hand; *)
(* what an attempt wrote stays under its key.                              *)
NodeShape ==
    /\ row \in Count /\ unrecorded \in BOOLEAN
    /\ store \in Seq(Payload) /\ answered \in Payload /\ atts \in Seq(Attempted)
    /\ refs \in Seq(Nat) /\ \A i \in 1..Len(refs) : refs[i] \in 1..Len(store)
    /\ step \in 1..Node!Consolidate /\ (Kind # "source" => step = Node!Consolidate) /\ tries \in 0..NodeAttempts
    /\ node \in {"running", "success", "failed"} /\ (node = "failed" => cause # "none")
    /\ output \in 0..Len(store) /\ (node = "success" <=> output # 0)
    /\ \A a \in 1..Len(atts) : atts[a].live =>
          a = Len(atts) /\ node = "running" /\ atts[a].call = step /\ atts[a].stage # "ended"
    /\ \A a \in 1..Len(atts) : Wrote(a) => atts[a].key \in 1..Len(store) /\ store[atts[a].key] = atts[a].wrote

(* The answers so far are the payloads that the workflow holds, page after *)
(* page, and the output is that, or what a dispatched node answered.       *)
NodeAnswers ==
    /\ Kind # "dispatch" => answered = Node!FlattenSeq(Held)
    /\ Kind = "source" /\ step = 1 /\ node # "success" => answered = <<>>
    /\ \A a \in 1..Len(atts) : atts[a].live /\ Wrote(a) /\ Node!Of(a) = "merge" => atts[a].wrote = answered
    /\ Node!OutputIsAnswered

(* Without overlap an attempt that is not awaited is over, and the row is  *)
(* the one that the last attempt left.                                     *)
NodeRow == ~ NodeOverlap =>
    /\ \A a \in 1..Len(atts) : ~ atts[a].live => atts[a].stage = "ended"
    /\ \A a \in 1..Len(atts) : atts[a].stage = "recorded" /\ Node!Of(a) # "page" /\ ~ unrecorded =>
          row.status = "success" /\ row.count = Len(atts[a].wrote)
    /\ Node!FailureVisible
    /\ Kind # "source" \/ Len(Pages) > 1 => Node!SuccessCounted

NodeInv == NodeShape /\ NodeAnswers /\ NodeRow

LEMMA NodeConstants ==
  ASSUME Node!NodeRunsAssumption
  PROVE  /\ Kind \in {"source", "merge", "dispatch"} /\ NodeOverlap \in BOOLEAN /\ NodeAttempts \in Nat \ {0}
         /\ Pages \in Seq(Nat) /\ Len(Pages) \in Nat \ {0} /\ Node!Consolidate = Len(Pages) + 1
         /\ \A p \in 1..Len(Pages) : Pages[p] \in Nat
  <1>1. Pages \in Seq(Nat) /\ Len(Pages) > 0
    BY DEF Node!NodeRunsAssumption
  <1> QED BY <1>1 DEF Node!NodeRunsAssumption, Node!Consolidate

(* FlattenSeq of a sequence of payloads is a payload.                      *)
LEMMA FlattenType ==
  ASSUME NEW ss \in Seq(Payload)
  PROVE  Node!FlattenSeq(ss) \in Payload
  <1>1. <<>> \in Seq(Nat \X Nat)
    OBVIOUS
  <1>2. ss \in Seq(Seq(Nat \X Nat))
    BY DEF Payload
  <1> HIDE DEF Node!FlattenSeq
  <1> QED BY <1>1, <1>2, FlattenAppend DEF Payload

LEMMA NodeStarts ==
  ASSUME Node!NodeRunsAssumption, Node!Init
  PROVE  NodeInv
  <1>1. /\ row = Node!NoRow /\ store = Node!Inputs /\ refs = [p \in 1..Len(Node!Inputs) |-> p]
        /\ answered = (IF Kind = "merge" THEN Node!FlattenSeq(Node!Inputs) ELSE <<>>)
        /\ step = (IF Kind = "source" THEN 1 ELSE Node!Consolidate)
        /\ atts = <<>> /\ tries = 0 /\ node = "running" /\ output = 0 /\ cause = "none" /\ unrecorded = FALSE
    BY DEF Node!Init
  <1>2. /\ Kind \in {"source", "merge", "dispatch"} /\ Len(Pages) \in Nat \ {0}
        /\ Node!Consolidate = Len(Pages) + 1 /\ NodeAttempts \in Nat
        /\ \A p \in 1..Len(Pages) : Pages[p] \in Nat
    BY NodeConstants
  <1>3. \A p \in 1..Len(Pages) : Node!Given(p) \in Payload
    <2>1. SUFFICES ASSUME NEW p \in 1..Len(Pages) PROVE Node!Given(p) \in Payload
      OBVIOUS
    <2>2. Pages[p] \in Nat
      BY <1>2
    <2>3. \A j \in 1..Pages[p] : <<0, 10 * p + j>> \in Nat \X Nat
      BY <1>2, <2>2
    <2> QED BY <2>2, <2>3 DEF Node!Given, Payload
  <1>4. Node!Inputs \in Seq(Payload)
    BY <1>2, <1>3 DEF Node!Inputs
  <1>5. Held = store /\ store \in Seq(Payload)
    BY <1>1, <1>4 DEF Held
  <1>6. <<>> \in Payload /\ answered \in Payload
    BY <1>1, <1>4, FlattenType DEF Payload
  <1>7. NodeShape
    <2>1. row \in Count
      BY <1>1 DEF Node!NoRow, Count
    <2>2. refs \in Seq(Nat) /\ \A i \in 1..Len(refs) : refs[i] \in 1..Len(store)
      BY <1>1, <1>4
    <2>3. atts \in Seq(Attempted) /\ Len(atts) = 0
      BY <1>1
    <2>4. output \in 0..Len(store)
      BY <1>1, <1>4
    <2>5. step \in 1..Node!Consolidate /\ (Kind # "source" => step = Node!Consolidate) /\ tries \in 0..NodeAttempts
      BY <1>1, <1>2
    <2>6. \A a \in 1..Len(atts) : FALSE
      BY <2>3
    <2>7. unrecorded \in BOOLEAN /\ node = "running" /\ output = 0
      BY <1>1
    <2> QED BY <1>5, <1>6, <2>1, <2>2, <2>3, <2>4, <2>5, <2>6, <2>7 DEF NodeShape
  <1>8. NodeAnswers
    <2>1. Kind = "source" => Node!FlattenSeq(store) = <<>>
      BY <1>1 DEF Node!Inputs, Node!FlattenSeq
    <2>2. Len(atts) = 0
      BY <1>1
    <2>3. Kind # "dispatch" => answered = Node!FlattenSeq(Held)
      <3>1. Node!FlattenSeq(Held) = Node!FlattenSeq(store)
        BY <1>5
      <3>2. CASE Kind = "source"
        BY <1>1, <2>1, <3>1, <3>2
      <3>3. CASE Kind = "merge"
        BY <1>1, <3>1, <3>3
      <3> QED BY <1>2, <3>2, <3>3
    <2> QED BY <1>1, <2>2, <2>3 DEF NodeAnswers, Node!OutputIsAnswered
  <1>9. NodeRow
    <2>1. Len(atts) = 0
      BY <1>1
    <2> QED BY <1>1, <2>1 DEF NodeRow, Node!FailureVisible, Node!SuccessCounted
  <1> QED BY <1>7, <1>8, <1>9 DEF NodeInv

(* The row after a statement that may be lost.                             *)
LEMMA NodeRecorded ==
  ASSUME NodeShape, NEW status \in {"success", "failed"}, NEW n \in Nat, NEW append \in BOOLEAN,
         Node!Recorded(status, n, append)
  PROVE  /\ row' \in Count /\ unrecorded' \in BOOLEAN /\ (unrecorded => unrecorded')
         /\ ~ unrecorded' => row'.status = status /\ (~ append => row'.count = n)
  <1>1. row \in Count /\ unrecorded \in BOOLEAN
    BY DEF NodeShape
  <1>2. CASE row' = Node!RecordNodeRun(status, n, append) /\ unrecorded' = unrecorded
    <2>1. Node!RecordCount(status, n, append) \in Nat /\ (~ append => Node!RecordCount(status, n, append) = n)
      BY <1>1 DEF Node!RecordCount, Count
    <2>2. row.attempt \in Nat
      BY <1>1 DEF Count
    <2> QED BY <1>1, <1>2, <2>1, <2>2 DEF Node!RecordNodeRun, Count
  <1>3. CASE row' = row /\ unrecorded' = TRUE
    BY <1>1, <1>3
  <1> QED BY <1>2, <1>3 DEF Node!Recorded

LEMMA NodeTyped ==
  ASSUME NodeShape, NEW a \in 1..Len(atts)
  PROVE  /\ atts[a] \in Attempted /\ atts[a].call \in 1..Node!Consolidate /\ atts[a].wrote \in Payload
         /\ Len(atts[a].wrote) \in Nat
  <1>1. atts[a] \in Attempted
    BY DEF NodeShape
  <1>2. atts[a].wrote \in Payload /\ atts[a].call \in 1..Node!Consolidate
    BY <1>1 DEF Attempted
  <1>3. Len(atts[a].wrote) \in Nat
    BY <1>2 DEF Payload
  <1> QED BY <1>1, <1>2, <1>3

(* One attempt changes, the others keep their places.                      *)
LEMMA NodeTurns ==
  ASSUME NodeShape, NEW a \in 1..Len(atts), NEW r \in Attempted, atts' = [atts EXCEPT ![a] = r]
  PROVE  /\ atts' \in Seq(Attempted) /\ Len(atts') = Len(atts) /\ Len(atts) \in Nat
         /\ atts'[a] = r /\ \A b \in 1..Len(atts) : b # a => atts'[b] = atts[b]
         /\ \A b \in 1..Len(atts) : atts[b] \in Attempted
  BY DEF NodeShape

(* An attempt ends: what others wrote stays, and the row tells of failures *)
(* of the handler.                                                         *)
LEMMA NodeEnds ==
  ASSUME Node!NodeRunsAssumption, NodeInv, NEW a \in 1..Len(atts), NEW r \in Attempted,
         atts' = [atts EXCEPT ![a] = r], ~ r.live, r.call = atts[a].call, r.key = atts[a].key,
         r.wrote = atts[a].wrote, r.stage \in {atts[a].stage, "ended"}, ~ NodeOverlap => r.stage = "ended",
         row' \in Count, unrecorded' \in BOOLEAN, unrecorded => unrecorded', ~ NodeOverlap => atts[a].live,
         UNCHANGED <<store, step, tries, refs, output, answered>>,
         \/ node' = node /\ cause' = cause
         \/ /\ atts[a].live /\ node' = "failed" /\ cause' # "none"
            /\ ~ unrecorded' /\ cause' \in {"handler", "merge-limit"} => row'.status = "failed"
  PROVE  NodeInv'
  <1>1. NodeShape /\ NodeAnswers /\ NodeRow
    BY DEF NodeInv
  <1>2. /\ atts' \in Seq(Attempted) /\ Len(atts') = Len(atts) /\ Len(atts) \in Nat
        /\ atts'[a] = r /\ \A b \in 1..Len(atts) : b # a => atts'[b] = atts[b]
    BY <1>1, NodeTurns
  <1>3. store' = store /\ step' = step /\ tries' = tries /\ refs' = refs /\ output' = output /\ answered' = answered
    OBVIOUS
  <1>4. atts[a].live => a = Len(atts) /\ node = "running"
    BY <1>1 DEF NodeShape
  <1>5. ASSUME NEW b \in 1..Len(atts), atts'[b].live
        PROVE  b # a /\ atts'[b] = atts[b] /\ b = Len(atts) /\ node = "running" /\ node' = "running"
               /\ atts[b].call = step /\ atts[b].stage # "ended"
    <2>1. b # a /\ atts'[b] = atts[b]
      BY <1>2, <1>5
    <2>2. b = Len(atts) /\ node = "running" /\ atts[b].call = step /\ atts[b].stage # "ended"
      BY <1>1, <1>5, <2>1 DEF NodeShape
    <2>3. ~ atts[a].live
      BY <1>4, <2>1, <2>2
    <2> QED BY <2>1, <2>2, <2>3
  <1>6. ASSUME NEW b \in 1..Len(atts), atts'[b].stage \in {"written", "recorded"}
        PROVE  /\ atts[b].stage = atts'[b].stage /\ atts'[b].key = atts[b].key /\ atts'[b].wrote = atts[b].wrote
               /\ atts'[b].call = atts[b].call /\ Wrote(b)
    BY <1>2, <1>6 DEF Wrote
  <1>7. NodeShape'
    <2>1. node' \in {"running", "success", "failed"} /\ (node' = "failed" => cause' # "none")
      BY <1>1 DEF NodeShape
    <2>2. node' = "success" <=> output' # 0
      BY <1>1, <1>3, <1>4 DEF NodeShape
    <2>3. \A b \in 1..Len(atts) : atts'[b].stage \in {"written", "recorded"} =>
            atts'[b].key \in 1..Len(store) /\ store[atts'[b].key] = atts'[b].wrote
      BY <1>1, <1>6 DEF NodeShape
    <2> QED BY <1>1, <1>2, <1>3, <1>5, <2>1, <2>2, <2>3 DEF NodeShape, Wrote
  <1>8. NodeAnswers'
    <2>1. Held' = Held
      BY <1>3 DEF Held
    <2>2. ASSUME NEW b \in 1..Len(atts), atts'[b].live, Wrote(b)', Node!Of(b)' = "merge"
          PROVE  atts'[b].wrote = answered
      <3>1. atts'[b] = atts[b]
        BY <1>5, <2>2
      <3>2. atts[b].live /\ Wrote(b) /\ Node!Of(b) = "merge"
        BY <2>2, <3>1 DEF Wrote, Node!Of
      <3> QED BY <1>1, <3>1, <3>2 DEF NodeAnswers
    <2>3. node' = "success" <=> node = "success"
      BY <1>4
    <2> QED BY <1>1, <1>2, <1>3, <2>1, <2>2, <2>3 DEF NodeAnswers, Node!OutputIsAnswered
  <1>9. NodeRow'
    <2>1. SUFFICES ASSUME ~ NodeOverlap PROVE NodeRow'
      BY DEF NodeRow
    <2>2. atts[a].live /\ node = "running"
      BY <1>4, <2>1
    <2>3. \A b \in 1..Len(atts) : atts'[b].stage = "ended"
      <3>1. SUFFICES ASSUME NEW b \in 1..Len(atts) PROVE atts'[b].stage = "ended"
        OBVIOUS
      <3>2. CASE b = a
        BY <1>2, <2>1, <3>2
      <3>3. CASE b # a
        <4>1. ~ atts[b].live
          BY <1>1, <1>4, <2>2, <3>3 DEF NodeShape
        <4>2. atts[b].stage = "ended"
          BY <1>1, <2>1, <4>1 DEF NodeRow
        <4> QED BY <1>2, <3>3, <4>2
      <3> QED BY <3>2, <3>3
    <2>4. Node!FailureVisible'
      <3>1. node' = "failed" /\ cause' \in {"handler", "merge-limit"} /\ ~ unrecorded' => row'.status = "failed"
        BY <2>2
      <3> QED BY <3>1 DEF Node!FailureVisible
    <2>5. node' # "success"
      BY <2>2
    <2> QED BY <1>2, <2>3, <2>4, <2>5 DEF NodeRow, Node!SuccessCounted
  <1> QED BY <1>7, <1>8, <1>9 DEF NodeInv

LEMMA NodeFails ==
  ASSUME Node!NodeRunsAssumption, NodeInv, NEW a \in 1..Len(atts), atts[a].stage = "started",
         NEW why, why # "none", NEW retryable \in BOOLEAN, Node!Fail(a, why, retryable),
         row' \in Count, unrecorded' \in BOOLEAN, unrecorded => unrecorded',
         ~ unrecorded' /\ why \in {"handler", "merge-limit"} => row'.status = "failed"
  PROVE  NodeInv'
  <1> DEFINE r == [atts[a] EXCEPT !.stage = "ended", !.live = FALSE]
  <1>1. NodeShape /\ NodeRow
    BY DEF NodeInv
  <1>2. atts[a] \in Attempted
    BY <1>1 DEF NodeShape
  <1>3. /\ r \in Attempted /\ ~ r.live /\ r.call = atts[a].call /\ r.key = atts[a].key
        /\ r.wrote = atts[a].wrote /\ r.stage = "ended"
    BY <1>2 DEF Attempted, Node!Stages
  <1>4. atts' = [atts EXCEPT ![a] = r]
    BY <1>1 DEF Node!Fail, NodeShape
  <1>5. /\ UNCHANGED <<store, step, tries, refs, output, answered>>
        /\ \/ node' = node /\ cause' = cause
           \/ atts[a].live /\ node' = "failed" /\ cause' = why
    BY DEF Node!Fail
  <1>6. ~ NodeOverlap => atts[a].live
    BY <1>1 DEF NodeRow
  <1> HIDE DEF r
  <1>7. \/ node' = node /\ cause' = cause
        \/ /\ atts[a].live /\ node' = "failed" /\ cause' # "none"
           /\ ~ unrecorded' /\ cause' \in {"handler", "merge-limit"} => row'.status = "failed"
    BY <1>5
  <1> QED BY <1>3, <1>4, <1>5, <1>6, <1>7, NodeEnds

(* The ends of an attempt, each with what it leaves in the row.            *)
LEMMA NodeErrors ==
  ASSUME Node!NodeRunsAssumption, NodeInv, NEW a \in 1..Len(atts),
         \/ Node!Refused(a) \/ Node!HandlerFails(a) \/ Node!TooLarge(a) \/ Node!MergeLimit(a) \/ Node!WriteFails(a)
  PROVE  NodeInv'
  <1>1. NodeShape
    BY DEF NodeInv
  <1>2. row \in Count /\ unrecorded \in BOOLEAN
    BY <1>1 DEF NodeShape
  <1>3. CASE Node!Refused(a)
    <2>1. atts[a].stage = "started" /\ Node!Fail(a, "refused", FALSE) /\ row' = row /\ unrecorded' = unrecorded
      BY <1>3 DEF Node!Refused
    <2> QED BY <1>2, <2>1, NodeFails
  <1>4. CASE Node!Recorded("failed", 0, FALSE) /\ atts[a].stage = "started"
             /\ \E why \in {"handler", "merge-limit"} : \E retryable \in BOOLEAN : Node!Fail(a, why, retryable)
    <2>1. PICK why \in {"handler", "merge-limit"}, retryable \in BOOLEAN : Node!Fail(a, why, retryable)
      BY <1>4
    <2>2. /\ row' \in Count /\ unrecorded' \in BOOLEAN /\ (unrecorded => unrecorded')
          /\ ~ unrecorded' => row'.status = "failed"
      BY <1>1, <1>4, NodeRecorded
    <2> QED BY <1>4, <2>1, <2>2, NodeFails
  <1>5. CASE Node!HandlerFails(a)
    BY <1>4, <1>5 DEF Node!HandlerFails
  <1>6. CASE Node!TooLarge(a)
    BY <1>4, <1>6 DEF Node!TooLarge
  <1>7. CASE Node!MergeLimit(a)
    BY <1>4, <1>7 DEF Node!MergeLimit
  <1>8. CASE Node!WriteFails(a)
    <2>1. CASE Node!Of(a) = "merge"
      BY <1>4, <1>8, <2>1 DEF Node!WriteFails
    <2>2. CASE Node!Of(a) # "merge"
      <3>1. atts[a].stage = "started" /\ Node!Fail(a, "write", TRUE) /\ row' = row /\ unrecorded' = unrecorded
        BY <1>8, <2>2 DEF Node!WriteFails
      <3> QED BY <1>2, <3>1, NodeFails
    <2> QED BY <2>1, <2>2
  <1> QED BY <1>3, <1>5, <1>6, <1>7, <1>8

LEMMA NodeLoses ==
  ASSUME Node!NodeRunsAssumption, NodeInv, NEW a \in 1..Len(atts), Node!Lost(a)
  PROVE  NodeInv'
  <1> DEFINE r == [atts[a] EXCEPT !.live = FALSE, !.stage = IF NodeOverlap THEN @ ELSE "ended"]
  <1>1. NodeShape
    BY DEF NodeInv
  <1>2. atts[a] \in Attempted
    BY <1>1 DEF NodeShape
  <1>3. /\ r \in Attempted /\ ~ r.live /\ r.call = atts[a].call /\ r.key = atts[a].key
        /\ r.wrote = atts[a].wrote /\ r.stage \in {atts[a].stage, "ended"} /\ (~ NodeOverlap => r.stage = "ended")
    BY <1>2, NodeConstants DEF Attempted, Node!Stages
  <1>4. atts' = [atts EXCEPT ![a] = r] /\ atts[a].live
    BY <1>1 DEF Node!Lost, NodeShape
  <1>5. /\ UNCHANGED <<store, step, tries, refs, output, answered>> /\ row' = row /\ unrecorded' = unrecorded
        /\ (node' = node /\ cause' = cause) \/ (node' = "failed" /\ cause' = "timeout")
    BY DEF Node!Lost
  <1>6. row' \in Count /\ unrecorded' \in BOOLEAN
    BY <1>1, <1>5 DEF NodeShape
  <1> HIDE DEF r
  <1>7. \/ node' = node /\ cause' = cause
        \/ /\ atts[a].live /\ node' = "failed" /\ cause' # "none"
           /\ ~ unrecorded' /\ cause' \in {"handler", "merge-limit"} => row'.status = "failed"
    BY <1>4, <1>5
  <1> QED BY <1>3, <1>4, <1>5, <1>6, <1>7, NodeEnds

(* A new attempt of the call at hand.                                      *)
LEMMA NodeTries ==
  ASSUME Node!NodeRunsAssumption, NodeInv, Node!Attempt
  PROVE  NodeInv'
  <1> DEFINE new == [call |-> step, stage |-> "started", live |-> TRUE, key |-> 0, wrote |-> <<>>]
  <1>1. NodeShape /\ NodeAnswers /\ NodeRow
    BY DEF NodeInv
  <1>2. /\ node = "running" /\ tries < NodeAttempts /\ (\A a \in 1..Len(atts) : ~ atts[a].live)
        /\ atts' = Append(atts, new) /\ tries' = tries + 1
        /\ row' = row /\ store' = store /\ step' = step /\ refs' = refs /\ node' = node /\ output' = output
        /\ cause' = cause /\ answered' = answered /\ unrecorded' = unrecorded
    BY DEF Node!Attempt
  <1>3. new \in Attempted
    BY <1>1 DEF NodeShape, Attempted, Node!Stages, Payload
  <1>4. new.call = step /\ new.stage = "started"
    OBVIOUS
  <1> HIDE DEF new
  <1>5. /\ atts' \in Seq(Attempted) /\ Len(atts) \in Nat /\ Len(atts') = Len(atts) + 1
        /\ atts'[Len(atts) + 1] = new /\ \A b \in 1..Len(atts) : atts'[b] = atts[b]
    BY <1>1, <1>2, <1>3 DEF NodeShape
  <1>6. \A b \in 1..Len(atts') : b = Len(atts) + 1 \/ b \in 1..Len(atts)
    BY <1>5
  <1>7. NodeShape'
    <2>1. tries' \in 0..NodeAttempts
      BY <1>1, <1>2, NodeConstants DEF NodeShape
    <2>2. \A b \in 1..Len(atts') : atts'[b].live =>
            b = Len(atts') /\ node' = "running" /\ atts'[b].call = step' /\ atts'[b].stage # "ended"
      BY <1>2, <1>4, <1>5, <1>6
    <2>3. \A b \in 1..Len(atts') : Wrote(b)' => atts'[b].key \in 1..Len(store) /\ store[atts'[b].key] = atts'[b].wrote
      BY <1>1, <1>4, <1>5, <1>6 DEF NodeShape, Wrote
    <2> QED BY <1>1, <1>2, <1>5, <2>1, <2>2, <2>3 DEF NodeShape
  <1>8. NodeAnswers'
    <2>1. Held' = Held
      BY <1>2 DEF Held
    <2>2. \A b \in 1..Len(atts') : ~ (atts'[b].live /\ Wrote(b)')
      BY <1>2, <1>4, <1>5, <1>6 DEF Wrote
    <2> QED BY <1>1, <1>2, <2>1, <2>2 DEF NodeAnswers, Node!OutputIsAnswered
  <1>9. NodeRow'
    <2>1. ASSUME ~ NodeOverlap, NEW b \in 1..Len(atts')
          PROVE  (~ atts'[b].live => atts'[b].stage = "ended") /\ atts'[b].stage # "recorded"
      <3>1. CASE b = Len(atts) + 1
        <4>1. new.live
          BY DEF new
        <4> QED BY <1>4, <1>5, <3>1, <4>1
      <3>2. CASE b \in 1..Len(atts)
        BY <1>1, <1>2, <1>5, <2>1, <3>2 DEF NodeRow
      <3> QED BY <1>6, <3>1, <3>2
    <2> QED BY <1>1, <1>2, <2>1 DEF NodeRow, Node!FailureVisible, Node!SuccessCounted
  <1> QED BY <1>7, <1>8, <1>9 DEF NodeInv

(* What an attempt computes.                                               *)
LEMMA NodeComputes ==
  ASSUME Node!NodeRunsAssumption, NodeShape, NEW a \in 1..Len(atts)
  PROVE  /\ Held \in Seq(Payload) /\ Node!FlattenSeq(Held) \in Payload /\ Node!Computed(a) \in Payload
         /\ Node!Of(a) = "merge" => Node!Computed(a) = Node!FlattenSeq(Held)
  <1>1. /\ store \in Seq(Payload) /\ refs \in Seq(Nat) /\ atts \in Seq(Attempted)
        /\ \A i \in 1..Len(refs) : refs[i] \in 1..Len(store)
    BY DEF NodeShape
  <1>2. Held \in Seq(Payload)
    BY <1>1 DEF Held
  <1>3. Node!FlattenSeq(Held) \in Payload
    BY <1>2, FlattenType
  <1>4. CASE Node!Of(a) = "merge"
    <2>1. Node!Computed(a) = Node!FlattenSeq(Held)
      BY <1>4 DEF Node!Computed, Held
    <2> QED BY <1>2, <1>3, <2>1
  <1>5. CASE Node!Of(a) # "merge"
    <2> DEFINE p == IF Node!Of(a) = "page" THEN atts[a].call ELSE 1
    <2>1. p \in 1..Len(Pages)
      <3>1. atts[a].call \in 1..Len(Pages) + 1 /\ Len(Pages) \in Nat \ {0}
        BY NodeTyped, NodeConstants
      <3>2. CASE Node!Of(a) = "page"
        <4>1. atts[a].call # Node!Consolidate
          BY <3>2 DEF Node!Of
        <4> QED BY <3>1, <3>2, <4>1, NodeConstants
      <3>3. CASE Node!Of(a) # "page"
        BY <3>1, <3>3
      <3> QED BY <3>2, <3>3
    <2>2. Node!Computed(a) = [j \in 1..Pages[p] |-> <<a, j>>]
      BY <1>5 DEF Node!Computed
    <2> HIDE DEF p
    <2>3. Pages[p] \in Nat
      BY <2>1, NodeConstants
    <2>4. a \in Nat
      BY <1>1
    <2>5. \A j \in 1..Pages[p] : <<a, j>> \in Nat \X Nat
      BY <2>3, <2>4
    <2>6. Node!Computed(a) \in Payload
      BY <2>2, <2>3, <2>5 DEF Payload
    <2> QED BY <1>2, <1>3, <1>5, <2>6
  <1> QED BY <1>4, <1>5

(* The payload is written, under a key of its own.                         *)
LEMMA NodeWrites ==
  ASSUME Node!NodeRunsAssumption, NodeInv, NEW a \in 1..Len(atts), Node!Write(a)
  PROVE  NodeInv'
  <1> DEFINE k == Len(store) + 1
             v == Node!Computed(a)
             r == [atts[a] EXCEPT !.stage = "written", !.key = k, !.wrote = v]
  <1>1. NodeShape /\ NodeAnswers /\ NodeRow
    BY DEF NodeInv
  <1>2. v \in Payload /\ (Node!Of(a) = "merge" => v = Node!FlattenSeq(Held))
    BY <1>1, NodeComputes
  <1>3. store \in Seq(Payload) /\ Len(store) \in Nat /\ k \in Nat /\ atts[a] \in Attempted
    BY <1>1 DEF NodeShape
  <1>4. /\ atts[a].stage = "started" /\ store' = Append(store, v)
        /\ row' = row /\ step' = step /\ tries' = tries /\ refs' = refs /\ node' = node /\ output' = output
        /\ cause' = cause /\ answered' = answered /\ unrecorded' = unrecorded
    <2>1. Node!PayloadWrite(a, v) = Append(store, v)
      BY <1>3 DEF Node!PayloadWrite, Node!PayloadKey
    <2> QED BY <2>1 DEF Node!Write
  <1>5. atts' = [atts EXCEPT ![a] = r]
    BY <1>1 DEF Node!Write, Node!PayloadKey, NodeShape
  <1> HIDE DEF v
  <1>6. /\ r \in Attempted /\ r.live = atts[a].live /\ r.call = atts[a].call /\ r.key = k
        /\ r.wrote = v /\ r.stage = "written"
    BY <1>2, <1>3 DEF Attempted, Node!Stages
  <1> HIDE DEF r
  <1>7. /\ atts' \in Seq(Attempted) /\ Len(atts') = Len(atts) /\ Len(atts) \in Nat
        /\ atts'[a] = r /\ \A b \in 1..Len(atts) : b # a => atts'[b] = atts[b]
    BY <1>1, <1>5, <1>6, NodeTurns
  <1>8. /\ store' \in Seq(Payload) /\ Len(store') = k /\ store'[k] = v
        /\ \A i \in 1..Len(store) : store'[i] = store[i]
    BY <1>2, <1>3, <1>4
  <1>9. NodeShape'
    <2>1. ASSUME NEW b \in 1..Len(atts), atts'[b].live
          PROVE  b = Len(atts) /\ node = "running" /\ atts'[b].call = step /\ atts'[b].stage # "ended"
      <3>1. atts[b].live /\ atts'[b].call = atts[b].call
        BY <1>6, <1>7, <2>1
      <3>2. b = Len(atts) /\ node = "running" /\ atts[b].call = step /\ atts[b].stage # "ended"
        BY <1>1, <3>1 DEF NodeShape
      <3> QED BY <1>6, <1>7, <3>1, <3>2
    <2>2. ASSUME NEW b \in 1..Len(atts), Wrote(b)'
          PROVE  atts'[b].key \in 1..Len(store') /\ store'[atts'[b].key] = atts'[b].wrote
      <3>1. CASE b = a
        BY <1>3, <1>6, <1>7, <1>8, <3>1
      <3>2. CASE b # a
        <4>1. atts'[b] = atts[b] /\ Wrote(b)
          BY <1>7, <2>2, <3>2 DEF Wrote
        <4>2. atts[b].key \in 1..Len(store) /\ store[atts[b].key] = atts[b].wrote
          BY <1>1, <4>1 DEF NodeShape
        <4> QED BY <1>3, <1>8, <4>1, <4>2
      <3> QED BY <3>1, <3>2
    <2>3. \A i \in 1..Len(refs) : refs[i] \in 1..Len(store')
      BY <1>1, <1>3, <1>8 DEF NodeShape
    <2>4. output \in 0..Len(store')
      BY <1>1, <1>3, <1>8 DEF NodeShape
    <2> QED BY <1>1, <1>4, <1>7, <1>8, <2>1, <2>2, <2>3, <2>4 DEF NodeShape
  <1>10. NodeAnswers'
    <2>1. Held' = Held
      BY <1>1, <1>4, <1>8 DEF Held, NodeShape
    <2>2. ASSUME NEW b \in 1..Len(atts), atts'[b].live, Wrote(b)', Node!Of(b)' = "merge"
          PROVE  atts'[b].wrote = answered
      <3>1. CASE b = a
        <4>1. Node!Of(a) = "merge" /\ Kind # "dispatch"
          BY <1>6, <1>7, <2>2, <3>1 DEF Node!Of
        <4> QED BY <1>1, <1>2, <1>6, <1>7, <3>1, <4>1 DEF NodeAnswers
      <3>2. CASE b # a
        <4>1. atts'[b] = atts[b]
          BY <1>7, <3>2
        <4>2. atts[b].live /\ Wrote(b) /\ Node!Of(b) = "merge"
          BY <2>2, <4>1 DEF Wrote, Node!Of
        <4> QED BY <1>1, <4>1, <4>2 DEF NodeAnswers
      <3> QED BY <3>1, <3>2
    <2>3. node' = "success" => store'[output'] = answered'
      <3>1. node = "success" => output \in 1..Len(store) /\ store[output] = answered
        BY <1>1 DEF NodeAnswers, Node!OutputIsAnswered, NodeShape
      <3> QED BY <1>4, <1>8, <3>1
    <2> QED BY <1>1, <1>4, <1>7, <2>1, <2>2, <2>3 DEF NodeAnswers, Node!OutputIsAnswered
  <1>11. NodeRow'
    <2>1. ASSUME ~ NodeOverlap, NEW b \in 1..Len(atts)
          PROVE  /\ ~ atts'[b].live => atts'[b].stage = "ended"
                 /\ atts'[b].stage = "recorded" =>
                       /\ b # a /\ atts'[b] = atts[b] /\ atts[b].stage = "recorded"
                       /\ Node!Of(b)' = Node!Of(b)
      <3>1. ~ atts[b].live => atts[b].stage = "ended"
        BY <1>1, <2>1 DEF NodeRow
      <3>2. CASE b = a
        BY <1>4, <1>6, <1>7, <3>1, <3>2
      <3>3. CASE b # a
        BY <1>7, <3>1, <3>3 DEF Node!Of
      <3> QED BY <3>2, <3>3
    <2>2. node = "success" => store'[output] = store[output]
      <3>1. node = "success" => output \in 1..Len(store)
        BY <1>1 DEF NodeShape
      <3> QED BY <1>8, <3>1
    <2>3. ~ NodeOverlap => \A b \in 1..Len(atts') :
            atts'[b].stage = "recorded" /\ Node!Of(b)' # "page" /\ ~ unrecorded' =>
              row'.status = "success" /\ row'.count = Len(atts'[b].wrote)
      BY <1>1, <1>4, <1>7, <2>1 DEF NodeRow
    <2>4. ~ NodeOverlap => Node!FailureVisible' /\ ((Kind # "source" \/ Len(Pages) > 1) => Node!SuccessCounted')
      BY <1>1, <1>4, <2>2 DEF NodeRow, Node!FailureVisible, Node!SuccessCounted
    <2> QED BY <1>7, <2>1, <2>3, <2>4 DEF NodeRow
  <1> QED BY <1>9, <1>10, <1>11 DEF NodeInv

(* The row is written, and then the workflow gets the answer.              *)
LEMMA NodeRecords ==
  ASSUME Node!NodeRunsAssumption, NodeInv, NEW a \in 1..Len(atts), Node!Record(a)
  PROVE  NodeInv'
  <1> DEFINE r == [atts[a] EXCEPT !.stage = "recorded"]
  <1>1. NodeShape /\ NodeAnswers /\ NodeRow
    BY DEF NodeInv
  <1>2. /\ atts[a].stage = "written"
        /\ store' = store /\ step' = step /\ tries' = tries /\ refs' = refs /\ node' = node /\ output' = output
        /\ cause' = cause /\ answered' = answered
        /\ Node!Recorded("success", Len(atts[a].wrote), Node!Of(a) = "page")
    BY DEF Node!Record
  <1>3. atts[a] \in Attempted /\ Len(atts[a].wrote) \in Nat
    BY <1>1, NodeTyped
  <1>4. atts' = [atts EXCEPT ![a] = r]
    BY <1>1 DEF Node!Record, Node!Stage, NodeShape
  <1>5. /\ r \in Attempted /\ r.live = atts[a].live /\ r.call = atts[a].call /\ r.key = atts[a].key
        /\ r.wrote = atts[a].wrote /\ r.stage = "recorded"
    BY <1>3 DEF Attempted, Node!Stages
  <1> HIDE DEF r
  <1>6. /\ atts' \in Seq(Attempted) /\ Len(atts') = Len(atts) /\ Len(atts) \in Nat
        /\ atts'[a] = r /\ \A b \in 1..Len(atts) : b # a => atts'[b] = atts[b]
    BY <1>1, <1>4, <1>5, NodeTurns
  <1>7. /\ row' \in Count /\ unrecorded' \in BOOLEAN /\ (unrecorded => unrecorded')
        /\ ~ unrecorded' => row'.status = "success" /\ (Node!Of(a) # "page" => row'.count = Len(atts[a].wrote))
    BY <1>1, <1>2, <1>3, NodeRecorded
  <1>8. ASSUME NEW b \in 1..Len(atts)
        PROVE  /\ atts'[b].live = atts[b].live /\ atts'[b].call = atts[b].call /\ atts'[b].key = atts[b].key
               /\ atts'[b].wrote = atts[b].wrote /\ (Wrote(b)' <=> Wrote(b)) /\ Node!Of(b)' = Node!Of(b)
               /\ (atts'[b].stage = "ended" <=> atts[b].stage = "ended")
    BY <1>2, <1>5, <1>6 DEF Wrote, Node!Of
  <1>9. NodeShape'
    BY <1>1, <1>2, <1>6, <1>7, <1>8 DEF NodeShape
  <1>10. NodeAnswers'
    <2>1. Held' = Held
      BY <1>2 DEF Held
    <2>2. \A b \in 1..Len(atts) : atts'[b].live /\ Wrote(b)' /\ Node!Of(b)' = "merge" => atts'[b].wrote = answered
      BY <1>1, <1>8 DEF NodeAnswers
    <2> QED BY <1>1, <1>2, <1>6, <2>1, <2>2 DEF NodeAnswers, Node!OutputIsAnswered
  <1>11. NodeRow'
    <2>1. SUFFICES ASSUME ~ NodeOverlap PROVE NodeRow'
      BY DEF NodeRow
    <2>2. atts[a].live /\ a = Len(atts) /\ node = "running"
      BY <1>1, <1>2, <2>1 DEF NodeRow, NodeShape
    <2>3. \A b \in 1..Len(atts) : ~ atts'[b].live => atts'[b].stage = "ended"
      BY <1>1, <1>8, <2>1 DEF NodeRow
    <2>4. ASSUME NEW b \in 1..Len(atts), atts'[b].stage = "recorded", Node!Of(b)' # "page", ~ unrecorded'
          PROVE  row'.status = "success" /\ row'.count = Len(atts'[b].wrote)
      <3>1. atts'[b].live
        BY <2>3, <2>4
      <3>2. b = a
        BY <1>1, <1>8, <2>2, <3>1 DEF NodeShape
      <3> QED BY <1>7, <1>8, <2>4, <3>2
    <2> QED BY <1>2, <1>6, <2>2, <2>3, <2>4 DEF NodeRow, Node!FailureVisible, Node!SuccessCounted
  <1> QED BY <1>9, <1>10, <1>11 DEF NodeInv

LEMMA NodeAnswered ==
  ASSUME Node!NodeRunsAssumption, NodeInv, NEW a \in 1..Len(atts), Node!Answer(a)
  PROVE  NodeInv'
  <1> DEFINE r == [atts[a] EXCEPT !.stage = "ended", !.live = FALSE]
             key == atts[a].key
  <1>1. NodeShape /\ NodeAnswers /\ NodeRow
    BY DEF NodeInv
  <1>2. /\ atts[a].stage = "recorded" /\ atts[a].live /\ tries' = 0
        /\ row' = row /\ store' = store /\ cause' = cause /\ unrecorded' = unrecorded
    BY DEF Node!Answer
  <1>3. /\ atts[a] \in Attempted /\ a = Len(atts) /\ node = "running" /\ atts[a].call = step /\ Wrote(a)
        /\ key \in 1..Len(store) /\ store[key] = atts[a].wrote /\ atts[a].wrote \in Payload
    <2>1. Wrote(a)
      BY <1>2 DEF Wrote
    <2>2. atts[a] \in Attempted /\ atts[a].wrote \in Payload
      BY <1>1, NodeTyped
    <2> QED BY <1>1, <1>2, <2>1, <2>2 DEF NodeShape
  <1>4. atts' = [atts EXCEPT ![a] = r]
    BY <1>1 DEF Node!Answer, NodeShape
  <1>5. r \in Attempted /\ ~ r.live /\ r.stage = "ended"
    BY <1>3 DEF Attempted, Node!Stages
  <1> HIDE DEF r
  <1>6. /\ atts' \in Seq(Attempted) /\ Len(atts') = Len(atts) /\ Len(atts) \in Nat
        /\ atts'[a] = r /\ \A b \in 1..Len(atts) : b # a => atts'[b] = atts[b]
    BY <1>1, <1>4, <1>5, NodeTurns
  <1>7. ASSUME NEW b \in 1..Len(atts)
        PROVE  /\ ~ atts'[b].live
               /\ Wrote(b)' => Wrote(b) /\ atts'[b] = atts[b]
               /\ (~ NodeOverlap => atts'[b].stage = "ended")
    <2>1. CASE b = a
      BY <1>5, <1>6, <2>1 DEF Wrote
    <2>2. CASE b # a
      <3>1. ~ atts[b].live
        BY <1>1, <1>3, <2>2 DEF NodeShape
      <3> QED BY <1>1, <1>6, <2>2, <3>1 DEF NodeRow, Wrote
    <2> QED BY <2>1, <2>2
  <1>8. \A b \in 1..Len(atts') :
          Wrote(b)' => atts'[b].key \in 1..Len(store') /\ store'[atts'[b].key] = atts'[b].wrote
    BY <1>1, <1>2, <1>6, <1>7 DEF NodeShape
  <1>9. tries' \in 0..NodeAttempts /\ Len(store) \in Nat /\ Len(refs) \in Nat
    BY <1>1, <1>2, NodeConstants DEF NodeShape
  <1>10. CASE Node!Of(a) = "page"
    <2>1. /\ refs' = Append(refs, key) /\ answered' = answered \o atts[a].wrote
          /\ \/ step = 1 /\ Len(Pages) = 1 /\ node' = "success" /\ output' = key /\ step' = step
             \/ ~ (step = 1 /\ Len(Pages) = 1) /\ step' = step + 1 /\ node' = node /\ output' = output
      BY <1>10 DEF Node!Answer
    <2>2. Kind = "source" /\ step \in 1..Len(Pages) /\ Node!Consolidate = Len(Pages) + 1 /\ Len(Pages) \in Nat
      <3>1. Kind # "dispatch" /\ step # Node!Consolidate
        BY <1>3, <1>10 DEF Node!Of
      <3>2. step \in 1..Node!Consolidate /\ (Kind # "source" => step = Node!Consolidate)
        BY <1>1 DEF NodeShape
      <3> QED BY <3>1, <3>2, NodeConstants
    <2>3. Held \in Seq(Payload) /\ Node!FlattenSeq(Held) \in Payload
      BY <1>1, NodeComputes
    <2>4. Held' = Append(Held, atts[a].wrote)
      <3>1. refs' = Append(refs, key) /\ Len(refs') = Len(refs) + 1 /\ refs \in Seq(Nat)
        BY <1>1, <2>1 DEF NodeShape
      <3> QED BY <1>1, <1>2, <1>3, <1>9, <3>1 DEF Held, NodeShape
    <2>5. answered' = Node!FlattenSeq(Held') /\ answered' \in Payload
      <3>1. answered = Node!FlattenSeq(Held)
        BY <1>1, <2>2 DEF NodeAnswers
      <3>2. Node!FlattenSeq(Append(Held, atts[a].wrote)) = Node!FlattenSeq(Held) \o atts[a].wrote
        BY <1>3, <2>3, FlattenAppend DEF Payload
      <3>3. answered' = Node!FlattenSeq(Append(Held, atts[a].wrote))
        BY <2>1, <3>1, <3>2
      <3>4. answered' \in Payload
        BY <1>3, <2>1, <2>3, <3>1 DEF Payload
      <3> QED BY <2>4, <3>3, <3>4
    <2>6. node' = "success" => store[output'] = answered'
      <3>1. node' = "success" => output' = key /\ step = 1
        BY <1>3, <2>1
      <3>2. step = 1 => answered = <<>>
        BY <1>1, <1>3, <2>2 DEF NodeAnswers
      <3>3. step = 1 => answered' = atts[a].wrote
        BY <1>3, <2>1, <3>2 DEF Payload
      <3> QED BY <1>3, <3>1, <3>3
    <2>7. refs' \in Seq(Nat) /\ \A i \in 1..Len(refs') : refs'[i] \in 1..Len(store)
      BY <1>1, <1>3, <1>9, <2>1 DEF NodeShape
    <2>8. /\ step' \in 1..Node!Consolidate /\ output' \in 0..Len(store) /\ (node' = "success" <=> output' # 0)
          /\ node' \in {"running", "success"}
      BY <1>1, <1>3, <1>9, <2>1, <2>2 DEF NodeShape
    <2>9. NodeShape'
      BY <1>1, <1>2, <1>6, <1>7, <1>8, <1>9, <2>2, <2>5, <2>7, <2>8 DEF NodeShape
    <2>10. NodeAnswers'
      <3>1. ~ (step' = 1 /\ node' # "success")
        BY <1>3, <2>1, <2>2
      <3> QED BY <1>2, <1>6, <1>7, <2>5, <2>6, <3>1 DEF NodeAnswers, Node!OutputIsAnswered
    <2>11. NodeRow'
      <3>1. (Kind # "source" \/ Len(Pages) > 1) => node' # "success"
        <4>1. CASE step = 1 /\ Len(Pages) = 1
          BY <2>2, <4>1
        <4>2. CASE ~ (step = 1 /\ Len(Pages) = 1)
          BY <1>3, <2>1, <4>2
        <4> QED BY <4>1, <4>2
      <3> QED BY <1>6, <1>7, <2>8, <3>1 DEF NodeRow, Node!FailureVisible, Node!SuccessCounted
    <2> QED BY <2>9, <2>10, <2>11 DEF NodeInv
  <1>11. CASE Node!Of(a) # "page"
    <2>1. /\ node' = "success" /\ output' = key /\ refs' = refs /\ step' = step
          /\ answered' = IF Kind = "dispatch" THEN atts[a].wrote ELSE answered
      BY <1>11 DEF Node!Answer
    <2>2. Held' = Held
      BY <1>2, <2>1 DEF Held
    <2>3. Kind # "dispatch" => Node!Of(a) = "merge" /\ atts[a].wrote = answered
      <3>1. Kind # "dispatch" => Node!Of(a) = "merge"
        BY <1>11 DEF Node!Of
      <3> QED BY <1>1, <1>2, <1>3, <3>1 DEF NodeAnswers
    <2>4. answered' = store[key] /\ answered' \in Payload
      BY <1>3, <2>1, <2>3
    <2>5. output' \in 0..Len(store) /\ output' # 0
      BY <1>3, <1>9, <2>1
    <2>6. NodeShape'
      BY <1>1, <1>2, <1>6, <1>7, <1>8, <1>9, <2>1, <2>4, <2>5 DEF NodeShape
    <2>7. NodeAnswers'
      BY <1>1, <1>2, <1>6, <1>7, <2>1, <2>2, <2>4 DEF NodeAnswers, Node!OutputIsAnswered
    <2>8. ~ NodeOverlap /\ ~ unrecorded => row.status = "success" /\ row.count = Len(store[key])
      BY <1>1, <1>2, <1>3, <1>11 DEF NodeRow
    <2>9. NodeRow'
      BY <1>2, <1>6, <1>7, <2>1, <2>8 DEF NodeRow, Node!FailureVisible, Node!SuccessCounted
    <2> QED BY <2>6, <2>7, <2>9 DEF NodeInv
  <1> QED BY <1>10, <1>11

LEMMA NodeIdle ==
  ASSUME NodeInv, UNCHANGED Node!vars
  PROVE  NodeInv'
  <1>1. /\ row' = row /\ store' = store /\ atts' = atts /\ step' = step /\ tries' = tries /\ refs' = refs
        /\ node' = node /\ output' = output /\ cause' = cause /\ answered' = answered /\ unrecorded' = unrecorded
    BY DEF Node!vars
  <1>2. \A a : (Wrote(a)' <=> Wrote(a)) /\ Node!Of(a)' = Node!Of(a)
    BY <1>1 DEF Wrote, Node!Of
  <1>3. NodeShape' <=> NodeShape
    BY <1>1, <1>2 DEF NodeShape
  <1>4. NodeAnswers' <=> NodeAnswers
    <2>1. Held' = Held
      BY <1>1 DEF Held
    <2> QED BY <1>1, <1>2, <2>1 DEF NodeAnswers, Node!OutputIsAnswered
  <1>5. NodeRow' <=> NodeRow
    BY <1>1, <1>2 DEF NodeRow, Node!FailureVisible, Node!SuccessCounted
  <1> QED BY <1>3, <1>4, <1>5 DEF NodeInv

LEMMA NodeSteps ==
  ASSUME Node!NodeRunsAssumption, NodeInv, [Node!Next]_(Node!vars)
  PROVE  NodeInv'
  <1>1. ASSUME NEW a \in 1..Len(atts),
               \/ Node!Refused(a) \/ Node!HandlerFails(a) \/ Node!TooLarge(a) \/ Node!MergeLimit(a)
               \/ Node!Write(a) \/ Node!WriteFails(a) \/ Node!Record(a) \/ Node!Answer(a) \/ Node!Lost(a)
        PROVE  NodeInv'
    BY <1>1, NodeErrors, NodeWrites, NodeRecords, NodeAnswered, NodeLoses
  <1>2. CASE Node!Attempt
    BY <1>2, NodeTries
  <1>3. CASE UNCHANGED Node!vars
    BY <1>3, NodeIdle
  <1> QED BY <1>1, <1>2, <1>3 DEF Node!Next

LEMMA NodeImplies ==
  ASSUME Node!NodeRunsAssumption, NodeInv
  PROVE  /\ Node!TypeOK /\ Node!OutputIsAnswered
         /\ ~ NodeOverlap => Node!FailureVisible /\ (Kind # "source" \/ Len(Pages) > 1 => Node!SuccessCounted)
  <1>1. NodeShape /\ NodeAnswers /\ NodeRow
    BY DEF NodeInv
  <1>2. Node!TypeOK
    <2>1. \A a \in 1..Len(atts) : atts[a].stage \in Node!Stages /\ atts[a].call \in 1..Node!Consolidate
      BY <1>1, NodeTyped DEF Attempted
    <2>2. (node = "success") = (output # 0)
      BY <1>1 DEF NodeShape
    <2> QED BY <1>1, <2>1, <2>2 DEF NodeShape, Node!TypeOK, Count
  <1> QED BY <1>1, <1>2 DEF NodeAnswers, NodeRow

(* recordNodeRun, executeActivity: for any pages, limits and number of     *)
(* attempts, what a node gives on is what the answered attempts wrote; and *)
(* unless attempts overlap, its row tells of the failure of a handler, and *)
(* counts the records of its output once if it has more than one page.     *)
THEOREM NodesAnswerable ==
  ASSUME Node!NodeRunsAssumption
  PROVE  Node!Spec => [](/\ Node!TypeOK /\ Node!OutputIsAnswered
                         /\ ~ NodeOverlap => /\ Node!FailureVisible
                                             /\ Kind # "source" \/ Len(Pages) > 1 => Node!SuccessCounted)
  <1>1. Node!Init => NodeInv
    BY NodeStarts
  <1>2. NodeInv /\ [Node!Next]_(Node!vars) => NodeInv'
    BY NodeSteps
  <1>3. NodeInv => /\ Node!TypeOK /\ Node!OutputIsAnswered
                   /\ ~ NodeOverlap => /\ Node!FailureVisible
                                       /\ Kind # "source" \/ Len(Pages) > 1 => Node!SuccessCounted
    BY NodeImplies
  <1> QED BY <1>1, <1>2, <1>3, PTL DEF Node!Spec

-----------------------------------------------------------------------------
(* Pages.                                                                  *)

CONSTANTS Source, PageSize, MaxPages, Window, KeyColumn, Edits, NullsFirst, Values, MaxKey, Run, MaxFails
VARIABLES table, saved, keyColumn, pageRun, delivered, fails

Paging == INSTANCE SourcePaging WITH run <- pageRun

(* What the pages rest on: no cursor value is NULL, and a key column, once *)
(* configured, is kept.                                                    *)
PageAssumption == Paging!PagingAssumption /\ 0 \notin Values /\ "drop" \notin Edits

PageRow == [c : Nat \ {0}, k : Nat \ {0}]

(* The keys number the rows.                                               *)
PageTable ==
    /\ table \subseteq [c : Values, k : 1..Cardinality(table)]
    /\ IsFiniteSet(table) /\ Cardinality(table) <= MaxKey
    /\ \A x, y \in table : x.k = y.k => x = y

InPartition(c) == Source = "sql" /\ Window # <<>> => c >= Window[1]

(* A cursor is where reading starts, or a place in the table.              *)
CursorOK(cur, keyed) ==
    /\ cur \in [value : Nat, key : 0..Cardinality(table)]
    /\ cur.value = 0 \/ ~ keyed => cur.key = 0
    /\ cur.value # 0 => InPartition(cur.value) /\ \E y \in table : y.c = cur.value

(* No row is passed over: what the cursor does not select any more is in D.*)
Covered(cur, keyed, D) == \A x \in Paging!Wanted : x \in D \/ Paging!Selects(x, cur, keyed)

Reader == [at : {"idle", "reading", "read", "delivered"}, cursor : [value : Nat, key : Nat],
           got : Seq(table), pages : 0..MaxPages, keyed : BOOLEAN]

(* How a page may be read: by the key whenever ties may still grow.        *)
Mode(keyed) == (Paging!AlwaysKeyed => keyed) /\ (Source = "snowflake" => ~ keyed)

(* A run that has begun has read each row once, and none that its cursor   *)
(* would select again; what its cursor passed is delivered or in its hands.*)
Reading(q) ==
    /\ Mode(q.keyed) /\ (q.keyed => Paging!Keyed)
    /\ CursorOK(q.cursor, q.keyed) /\ Covered(q.cursor, q.keyed, delivered \cup Paging!Range(q.got))
    /\ Paging!IsInjective(q.got)
    /\ \A x \in Paging!Range(q.got) : /\ ~ Paging!Selects(x, q.cursor, q.keyed)
                                      /\ Paging!Selects(x, Paging!NoCursor, q.keyed)
    /\ q.at = "reading" => q.pages < MaxPages
    /\ q.at = "delivered" => Paging!Range(q.got) \subseteq delivered

ReaderOK(q) == q \in Reader /\ (IF q.at = "idle" THEN q = Paging!Idle ELSE Reading(q))

PageInv ==
    /\ PageTable /\ keyColumn \in BOOLEAN /\ (KeyColumn => keyColumn)
    /\ delivered \subseteq table /\ fails \in 0..MaxFails
    /\ CursorOK(saved, Paging!Keyed) /\ Covered(saved, Paging!Keyed, delivered)
    /\ pageRun = [r \in Run |-> pageRun[r]] /\ \A r \in Run : ReaderOK(pageRun[r])

LEMMA PageCardinality == \A S : Paging!Cardinality(S) = Cardinality(S)
  BY DEF Paging!Cardinality, Cardinality

(* ORDER BY is a total order on rows without NULL.                         *)
LEMMA PageOrder ==
  ASSUME NEW x \in PageRow, NEW y \in PageRow
  PROVE  /\ Paging!Precedes(x, y) <=> x.c < y.c \/ (x.c = y.c /\ x.k < y.k)
         /\ x = y \/ Paging!Precedes(x, y) \/ Paging!Precedes(y, x)
  <1>1. x.c \in Nat \ {0} /\ y.c \in Nat \ {0} /\ x.k \in Nat /\ y.k \in Nat
    BY DEF PageRow
  <1>2. /\ Paging!Precedes(x, y) <=> x.c < y.c \/ (x.c = y.c /\ x.k < y.k)
        /\ Paging!Precedes(y, x) <=> y.c < x.c \/ (y.c = x.c /\ y.k < x.k)
    BY <1>1 DEF Paging!Precedes, Paging!Null
  <1>3. x.c = y.c /\ x.k = y.k => x = y
    BY DEF PageRow
  <1> QED BY <1>1, <1>2, <1>3

LEMMA PageOrderTransitive ==
  ASSUME NEW x \in PageRow, NEW y \in PageRow, NEW z \in PageRow, Paging!Precedes(x, y), Paging!Precedes(y, z)
  PROVE  Paging!Precedes(x, z) /\ x # y
  <1>1. x.c \in Nat /\ y.c \in Nat /\ z.c \in Nat /\ x.k \in Nat /\ y.k \in Nat /\ z.k \in Nat
    BY DEF PageRow
  <1>2. /\ x.c < y.c \/ (x.c = y.c /\ x.k < y.k)
        /\ y.c < z.c \/ (y.c = z.c /\ y.k < z.k)
        /\ Paging!Precedes(x, z) <=> x.c < z.c \/ (x.c = z.c /\ x.k < z.k)
    BY PageOrder
  <1> QED BY <1>1, <1>2

LEMMA PageOrderStrict ==
  ASSUME NEW x \in PageRow
  PROVE  ~ Paging!Precedes(x, x)
  BY DEF Paging!Precedes, PageRow

(* The places of the rows of S are 1..Cardinality(S), in their order.      *)
LEMMA PagePlaces ==
  ASSUME NEW S \in SUBSET PageRow, IsFiniteSet(S)
  PROVE  /\ Cardinality(S) \in Nat
         /\ \A x \in S : Paging!Place(x, S) \in 1..Cardinality(S)
         /\ \A x, y \in S : Paging!Precedes(x, y) <=> Paging!Place(x, S) < Paging!Place(y, S)
         /\ \A x, y \in S : Paging!Place(x, S) = Paging!Place(y, S) => x = y
         /\ \A i \in 1..Cardinality(S) : \E x \in S : Paging!Place(x, S) = i
  <1> DEFINE Below(x) == {y \in S : Paging!Precedes(y, x)}
             place == [x \in S |-> Paging!Place(x, S)]
  <1>1. \A x \in S : /\ IsFiniteSet(Below(x)) /\ Cardinality(Below(x)) \in Nat
                     /\ Paging!Place(x, S) = 1 + Cardinality(Below(x))
    <2> TAKE x \in S
    <2>1. Below(x) \subseteq S
      OBVIOUS
    <2>2. Paging!Place(x, S) = 1 + Paging!Cardinality(Below(x))
      BY DEF Paging!Place
    <2>3. Paging!Cardinality(Below(x)) = Cardinality(Below(x))
      BY PageCardinality
    <2> HIDE DEF Below
    <2> QED BY <2>1, <2>2, <2>3, FS_Subset, FS_CardinalityType
  <1>2. Cardinality(S) \in Nat
    BY FS_CardinalityType
  <1>3. ASSUME NEW x \in S, NEW T, IsFiniteSet(T), Below(x) \subseteq T, x \in T
        PROVE  Cardinality(Below(x)) < Cardinality(T)
    <2>1. x \notin Below(x)
      BY PageOrderStrict
    <2>2. Cardinality(Below(x) \cup {x}) = Cardinality(Below(x)) + 1
      BY <1>1, <2>1, FS_AddElement
    <2>3. Below(x) \cup {x} \subseteq T
      BY <1>3
    <2>4. Cardinality(Below(x) \cup {x}) <= Cardinality(T)
      BY <1>3, <2>3, FS_Subset
    <2>5. Cardinality(T) \in Nat
      BY <1>3, FS_CardinalityType
    <2> HIDE DEF Below
    <2> QED BY <1>1, <2>2, <2>4, <2>5
  <1>4. \A x \in S : Paging!Place(x, S) \in 1..Cardinality(S)
    <2> TAKE x \in S
    <2>1. Below(x) \subseteq S /\ IsFiniteSet(S)
      OBVIOUS
    <2>2. Cardinality(Below(x)) < Cardinality(S)
      BY <1>3, <2>1
    <2> HIDE DEF Below
    <2> QED BY <1>1, <1>2, <2>2
  <1>5. ASSUME NEW x \in S, NEW y \in S, Paging!Precedes(x, y)
        PROVE  Paging!Place(x, S) < Paging!Place(y, S)
    <2>1. x \in Below(y)
      BY <1>5
    <2>2. Below(x) \subseteq Below(y)
      BY <1>5, PageOrderTransitive
    <2>3. Cardinality(Below(x)) < Cardinality(Below(y))
      BY <1>1, <1>3, <2>1, <2>2
    <2> HIDE DEF Below
    <2> QED BY <1>1, <2>3
  <1>6. ASSUME NEW x \in S, NEW y \in S
        PROVE  /\ Paging!Place(x, S) = Paging!Place(y, S) => x = y
               /\ Paging!Place(x, S) < Paging!Place(y, S) => Paging!Precedes(x, y)
    <2>1. x = y \/ Paging!Precedes(x, y) \/ Paging!Precedes(y, x)
      BY PageOrder
    <2>2. Paging!Place(x, S) \in Nat /\ Paging!Place(y, S) \in Nat
      BY <1>2, <1>4
    <2> QED BY <1>5, <2>1, <2>2
  <1>7. \A i \in 1..Cardinality(S) : \E x \in S : Paging!Place(x, S) = i
    <2>1. place \in [S -> 1..Cardinality(S)]
      BY <1>4
    <2>2. \A x, y \in S : place[x] = place[y] => x = y
      BY <1>6
    <2>3. IsFiniteSet(1..Cardinality(S)) /\ Cardinality(1..Cardinality(S)) = Cardinality(S)
      BY <1>2, FS_Interval
    <2>4. \A i \in 1..Cardinality(S) : \E x \in S : place[x] = i
      <3> HIDE DEF place
      <3>1. place \in Injection(S, 1..Cardinality(S))
        BY <2>1, <2>2 DEF Injection, IsInjective
      <3>2. place \in Surjection(S, 1..Cardinality(S))
        BY <2>3, <3>1, FS_Injection
      <3> QED BY <3>2 DEF Surjection
    <2> QED BY <2>4
  <1> QED BY <1>2, <1>4, <1>5, <1>6, <1>7

LEMMA PageLeast ==
  ASSUME NEW S \in SUBSET Nat, S # {}
  PROVE  Paging!Min(S) \in S /\ \A m \in S : Paging!Min(S) <= m
  <1>1. PICK m \in S : \A n \in S : <<n, m>> \notin OpToRel(<, Nat)
    BY NatLessThanWellFounded, WFMin
  <1>2. ASSUME NEW n \in S PROVE m <= n
    <2>1. m \in Nat /\ n \in Nat
      OBVIOUS
    <2>2. ~ (n < m)
      <3>1. SUFFICES ASSUME n < m PROVE <<n, m>> \in OpToRel(<, Nat)
        BY <1>1
      <3> QED BY <2>1, <3>1 DEF OpToRel
    <2> QED BY <2>1, <2>2
  <1> QED BY <1>2 DEF Paging!Min

LEMMA PageConstants ==
  ASSUME PageAssumption
  PROVE  /\ Source \in {"sql", "snowflake", "mongo"} /\ Values \subseteq Nat \ {0} /\ "drop" \notin Edits
         /\ PageSize \in Nat \ {0} /\ MaxPages \in Nat \ {0} /\ MaxKey \in Nat /\ MaxFails \in Nat
         /\ KeyColumn \in BOOLEAN /\ (Window # <<>> => Window[1] \in Nat /\ Window[2] \in Nat)
  BY DEF PageAssumption, Paging!PagingAssumption

LEMMA PageRows ==
  ASSUME PageAssumption, PageTable
  PROVE  table \in SUBSET PageRow /\ IsFiniteSet(table) /\ Cardinality(table) \in 0..MaxKey
  <1>1. IsFiniteSet(table) /\ Cardinality(table) <= MaxKey /\ Cardinality(table) \in Nat
    BY FS_CardinalityType DEF PageTable
  <1>2. ASSUME NEW x \in table PROVE x \in PageRow
    <2>1. x \in [c : Values, k : 1..Cardinality(table)]
      BY DEF PageTable
    <2>2. Values \subseteq Nat \ {0} /\ 1..Cardinality(table) \subseteq Nat \ {0}
      BY <1>1, PageConstants
    <2> QED BY <2>1, <2>2 DEF PageRow
  <1> QED BY <1>1, <1>2, PageConstants

(* What a page query answers: the first rows of those selected, in order.  *)
LEMMA PageAnswer ==
  ASSUME PageAssumption, PageTable, NEW cur, NEW keyed
  PROVE  LET S == Paging!Selected(cur, keyed)
             rows == Paging!Query(cur, keyed)
         IN  /\ S \in SUBSET table /\ IsFiniteSet(S) /\ Cardinality(S) \in Nat
             /\ rows \in Seq(S) /\ Len(rows) <= PageSize + 1
             /\ Len(rows) <= PageSize => Len(rows) = Cardinality(S)
             /\ \A i, j \in 1..Len(rows) : i < j => Paging!Precedes(rows[i], rows[j])
             /\ \A i \in 1..Len(rows) : \A x \in S :
                   (\A j \in 1..i : rows[j] # x) => Paging!Precedes(rows[i], x)
             /\ Len(rows) = Cardinality(S) => \A x \in S : \E i \in 1..Len(rows) : rows[i] = x
  <1> DEFINE S == Paging!Selected(cur, keyed)
             n == Paging!Min({Paging!Cardinality(S), PageSize + 1})
             rows == Paging!Query(cur, keyed)
  <1>1. S \in SUBSET table
    BY DEF Paging!Selected
  <1>2. table \in SUBSET PageRow /\ IsFiniteSet(table) /\ PageSize \in Nat \ {0}
    BY PageConstants, PageRows
  <1>3. IsFiniteSet(S)
    BY <1>1, <1>2, FS_Subset
  <1>4. S \in SUBSET PageRow
    BY <1>1, <1>2
  <1>5. rows = [i \in 1..n |-> CHOOSE x \in S : Paging!Place(x, S) = i]
    BY DEF Paging!Query
  <1>6. Paging!Cardinality(S) = Cardinality(S)
    BY PageCardinality
  <1> HIDE DEF S, rows
  <1>7. /\ Cardinality(S) \in Nat
        /\ \A x, y \in S : Paging!Precedes(x, y) <=> Paging!Place(x, S) < Paging!Place(y, S)
        /\ \A x, y \in S : Paging!Place(x, S) = Paging!Place(y, S) => x = y
        /\ \A i \in 1..Cardinality(S) : \E x \in S : Paging!Place(x, S) = i
        /\ \A x \in S : Paging!Place(x, S) \in 1..Cardinality(S)
    BY <1>3, <1>4, PagePlaces
  <1>8. n \in Nat /\ n <= Cardinality(S) /\ n <= PageSize + 1 /\ n \in {Cardinality(S), PageSize + 1}
    <2>1. {Cardinality(S), PageSize + 1} \in SUBSET Nat /\ {Cardinality(S), PageSize + 1} # {}
      BY <1>2, <1>7
    <2> QED BY <1>6, <2>1, PageLeast
  <1> HIDE DEF n
  <1>9. rows \in Seq(S) /\ Len(rows) = n /\ \A i \in 1..n : rows[i] \in S /\ Paging!Place(rows[i], S) = i
    <2>1. ASSUME NEW i \in 1..n
          PROVE  rows[i] \in S /\ Paging!Place(rows[i], S) = i
      <3>1. \E x \in S : Paging!Place(x, S) = i
        BY <1>7, <1>8
      <3>2. rows[i] = CHOOSE x \in S : Paging!Place(x, S) = i
        BY <1>5
      <3> QED BY <3>1, <3>2
    <2>2. rows = [i \in 1..n |-> rows[i]]
      BY <1>5
    <2> QED BY <1>8, <2>1, <2>2
  <1>10. \A i, j \in 1..n : i < j => Paging!Precedes(rows[i], rows[j])
    BY <1>7, <1>9
  <1>11. ASSUME NEW i \in 1..n, NEW x \in S, \A j \in 1..i : rows[j] # x
         PROVE  Paging!Precedes(rows[i], x)
    <2>1. Paging!Place(x, S) \in 1..Cardinality(S)
      BY <1>7
    <2>2. Paging!Place(x, S) \notin 1..i
      <3> SUFFICES ASSUME NEW j \in 1..i, Paging!Place(x, S) = j PROVE FALSE
        OBVIOUS
      <3>1. j \in 1..n
        BY <1>8
      <3>2. rows[j] \in S /\ Paging!Place(rows[j], S) = j
        BY <1>9, <3>1
      <3> QED BY <1>7, <1>11, <3>2
    <2>3. Paging!Place(rows[i], S) < Paging!Place(x, S)
      BY <1>8, <1>9, <2>1, <2>2
    <2> QED BY <1>7, <1>9, <2>3
  <1>12. ASSUME n = Cardinality(S), NEW x \in S
         PROVE  \E i \in 1..n : rows[i] = x
    <2>1. Paging!Place(x, S) \in 1..n
      BY <1>7, <1>12
    <2> QED BY <1>7, <1>9, <2>1
  <1>13. n <= PageSize => n = Cardinality(S)
    BY <1>2, <1>7, <1>8
  <1> QED BY <1>1, <1>3, <1>7, <1>8, <1>9, <1>10, <1>11, <1>12, <1>13 DEF S, rows

(* Where a page without a key ends: what is cut ties with the first row of *)
(* the next page, and what is kept does not.                               *)
LEMMA PageEnds ==
  ASSUME PageAssumption, NEW rows \in Seq(PageRow), Len(rows) = PageSize + 1
  PROVE  /\ Paging!PageEnd(rows) \in 0..PageSize
         /\ Paging!PageEnd(rows) > 0 => rows[Paging!PageEnd(rows)].c # rows[PageSize + 1].c
         /\ rows[Paging!PageEnd(rows) + 1].c = rows[PageSize + 1].c
  <1> DEFINE E == {e \in 0..PageSize : \A i \in e + 1..PageSize : rows[i].c = rows[PageSize + 1].c}
             end == Paging!PageEnd(rows)
  <1>1. PageSize \in Nat \ {0}
    BY DEF PageAssumption, Paging!PagingAssumption
  <1>2. PageSize \in E /\ E \in SUBSET Nat
    BY <1>1
  <1>3. end = Paging!Min(E)
    BY DEF Paging!PageEnd
  <1>4. end \in E /\ \A m \in E : end <= m
    BY <1>2, <1>3, PageLeast
  <1> HIDE DEF end
  <1>5. end \in 0..PageSize /\ \A i \in end + 1..PageSize : rows[i].c = rows[PageSize + 1].c
    BY <1>4
  <1>6. ASSUME end > 0, rows[end].c = rows[PageSize + 1].c
        PROVE  FALSE
    <2>1. end - 1 \in 0..PageSize
      BY <1>1, <1>5, <1>6
    <2>2. \A i \in (end - 1) + 1..PageSize : i = end \/ i \in end + 1..PageSize
      BY <1>1, <1>5
    <2>3. end - 1 \in E
      BY <1>5, <1>6, <2>1, <2>2
    <2> QED BY <1>1, <1>4, <1>5, <2>3
  <1>7. rows[end + 1].c = rows[PageSize + 1].c
    <2>1. end + 1 \in end + 1..PageSize \/ end + 1 = PageSize + 1
      BY <1>1, <1>5
    <2> QED BY <1>5, <2>1
  <1> QED BY <1>5, <1>6, <1>7 DEF end

(* What is kept of a page: the first rows of those selected, and without a *)
(* key all rows of a value or none.                                        *)
LEMMA PageKept ==
  ASSUME PageAssumption, PageTable, NEW cur, NEW keyed \in BOOLEAN
  PROVE  LET S == Paging!Selected(cur, keyed)
             kept == Paging!Kept(Paging!Query(cur, keyed), keyed)
         IN  /\ kept \in Seq(S) /\ S \in SUBSET table
             /\ \A i, j \in 1..Len(kept) : i < j => Paging!Precedes(kept[i], kept[j])
             /\ kept # <<>> => \A x \in S \ Paging!Range(kept) :
                   /\ Paging!Precedes(kept[Len(kept)], x)
                   /\ ~ keyed => kept[Len(kept)].c < x.c
  <1> DEFINE S == Paging!Selected(cur, keyed)
             rows == Paging!Query(cur, keyed)
             kept == Paging!Kept(rows, keyed)
  <1>1. /\ S \in SUBSET table /\ rows \in Seq(S) /\ Len(rows) <= PageSize + 1
        /\ Len(rows) <= PageSize => \A x \in S : \E i \in 1..Len(rows) : rows[i] = x
        /\ \A i, j \in 1..Len(rows) : i < j => Paging!Precedes(rows[i], rows[j])
        /\ \A i \in 1..Len(rows) : \A x \in S : (\A j \in 1..i : rows[j] # x) => Paging!Precedes(rows[i], x)
    BY PageAnswer
  <1>2. S \in SUBSET PageRow /\ PageSize \in Nat \ {0}
    BY <1>1, PageConstants, PageRows
  <1>3. kept = IF Len(rows) <= PageSize THEN rows
               ELSE Paging!SubSeq(rows, 1, IF keyed THEN PageSize ELSE Paging!PageEnd(rows))
    BY DEF Paging!Kept
  <1> HIDE DEF S, rows, kept
  <1>4. CASE Len(rows) <= PageSize
    <2>1. kept = rows
      BY <1>3, <1>4
    <2>2. \A x \in S : x \in Paging!Range(rows)
      BY <1>1, <1>4 DEF Paging!Range
    <2> QED BY <1>1, <2>1, <2>2 DEF S, rows, kept
  <1>5. CASE ~ (Len(rows) <= PageSize)
    <2> DEFINE e == IF keyed THEN PageSize ELSE Paging!PageEnd(rows)
    <2>1. Len(rows) = PageSize + 1 /\ rows \in Seq(PageRow)
      BY <1>1, <1>2, <1>5
    <2>2. /\ e \in 0..PageSize
          /\ ~ keyed /\ e > 0 => rows[e].c # rows[PageSize + 1].c
          /\ ~ keyed => rows[e + 1].c = rows[PageSize + 1].c
      BY <1>2, <2>1, PageEnds
    <2>3. kept = SubSeq(rows, 1, e)
      BY <1>3, <1>5
    <2> HIDE DEF e
    <2>4. kept \in Seq(S) /\ Len(kept) = e /\ \A i \in 1..e : kept[i] = rows[i] /\ i \in 1..Len(rows)
      BY <1>1, <1>2, <2>1, <2>2, <2>3
    <2>5. \A i, j \in 1..Len(kept) : i < j => Paging!Precedes(kept[i], kept[j])
      BY <1>1, <2>4
    <2>6. ASSUME kept # <<>>, NEW x \in S \ Paging!Range(kept)
          PROVE  /\ Paging!Precedes(kept[Len(kept)], x)
                 /\ ~ keyed => kept[Len(kept)].c < x.c
      <3>1. e \in 1..PageSize /\ e \in 1..Len(rows) /\ e + 1 \in 1..Len(rows)
        BY <1>2, <2>1, <2>2, <2>4, <2>6
      <3>2. \A j \in 1..e : rows[j] # x
        BY <2>4, <2>6 DEF Paging!Range
      <3>3. Paging!Precedes(rows[e], x) /\ kept[Len(kept)] = rows[e]
        BY <1>1, <2>4, <3>1, <3>2
      <3>4. ASSUME ~ keyed PROVE rows[e].c < x.c
        <4>1. rows[e] \in PageRow /\ rows[e + 1] \in PageRow /\ x \in PageRow
          BY <1>2, <2>1, <3>1
        <4>2. x = rows[e + 1] \/ Paging!Precedes(rows[e + 1], x)
          <5>1. \A j \in 1..e + 1 : j \in 1..e \/ j = e + 1
            BY <3>1
          <5> QED BY <1>1, <3>1, <3>2, <5>1
        <4>3. Paging!Precedes(rows[e], rows[e + 1])
          BY <1>1, <3>1
        <4>4. rows[e].c <= rows[e + 1].c /\ rows[e + 1].c <= x.c
          BY <4>1, <4>2, <4>3, PageOrder DEF PageRow
        <4>5. rows[e].c # rows[e + 1].c
          BY <2>2, <3>1, <3>4
        <4> QED BY <4>1, <4>4, <4>5 DEF PageRow
      <3> QED BY <3>3, <3>4
    <2> QED BY <1>1, <2>4, <2>5, <2>6 DEF S, rows, kept
  <1> QED BY <1>4, <1>5

(* The WHERE clause, for rows and cursors without NULL.                    *)
AfterRow(x, v, k) == x.c > v \/ (x.c = v /\ x.k > k)
WindowOK(x, v) == Window # <<>> => (v = 0 => x.c >= Window[1]) /\ x.c < Window[2]

LEMMA PageSelects ==
  ASSUME PageAssumption, NEW x \in PageRow, NEW keyed \in BOOLEAN, NEW cur \in [value : Nat, key : Nat],
         cur.value = 0 \/ ~ keyed => cur.key = 0
  PROVE  /\ Source = "sql" /\ cur.value = 0 => (Paging!Selects(x, cur, keyed) <=> WindowOK(x, 0))
         /\ Source = "sql" /\ cur.value # 0 /\ ~ keyed =>
               (Paging!Selects(x, cur, keyed) <=> WindowOK(x, cur.value) /\ x.c > cur.value)
         /\ Source = "sql" /\ cur.value # 0 /\ keyed =>
               (Paging!Selects(x, cur, keyed) <=> /\ WindowOK(x, cur.value)
                                                  /\ IF cur.key # 0 THEN AfterRow(x, cur.value, cur.key)
                                                     ELSE x.c >= cur.value)
         /\ Source = "snowflake" => (Paging!Selects(x, cur, keyed) <=> x.c > cur.value)
         /\ Source = "mongo" /\ keyed => (Paging!Selects(x, cur, keyed) <=> cur.value = 0 \/ AfterRow(x, cur.value, cur.key))
  <1> USE DEF PageRow, Paging!Null
  <1>1. Source = "sql" => (Paging!Selects(x, cur, keyed) <=> Paging!PlanIncrementalPage(x, cur, keyed))
    BY Zenon DEF Paging!Selects
  <1>2. Paging!InWindow(x, cur) <=> WindowOK(x, cur.value)
    BY DEF Paging!InWindow, WindowOK
  <1>3. Paging!PlanIncrementalPage(x, cur, keyed) <=>
            /\ WindowOK(x, cur.value)
            /\ \/ cur.value = 0
               \/ IF ~ keyed THEN x.c > cur.value
                  ELSE IF cur.key # 0 THEN AfterRow(x, cur.value, cur.key) ELSE x.c >= cur.value
    BY <1>2 DEF Paging!PlanIncrementalPage, Paging!After, AfterRow
  <1>4. Source = "snowflake" => (Paging!Selects(x, cur, keyed) <=> x.c > cur.value)
    <2>1. Source = "snowflake" => (Paging!Selects(x, cur, keyed) <=> Paging!SnowflakeWhere(x, cur))
      BY DEF Paging!Selects
    <2>2. cur.value = 0 => x.c > cur.value
      OBVIOUS
    <2> QED BY <2>1, <2>2 DEF Paging!SnowflakeWhere
  <1>5. Source = "mongo" /\ keyed =>
            (Paging!Selects(x, cur, keyed) <=> cur.value = 0 \/ AfterRow(x, cur.value, cur.key))
    <2>1. Source = "mongo" => (Paging!Selects(x, cur, keyed) <=> Paging!MongoPageFilter(x, cur))
      BY DEF Paging!Selects
    <2>2. cur.value = 0 => cur = Paging!NoCursor
      BY DEF Paging!NoCursor
    <2>3. cur.value # 0 => cur # Paging!NoCursor
      BY DEF Paging!NoCursor
    <2>4. Paging!After(x, cur) <=> AfterRow(x, cur.value, cur.key)
      BY DEF Paging!After, AfterRow
    <2>5. Paging!MongoPageFilter(x, cur) <=> cur.value = 0 \/ AfterRow(x, cur.value, cur.key)
      BY <2>2, <2>3, <2>4, Zenon DEF Paging!MongoPageFilter
    <2> QED BY <2>1, <2>5
  <1> QED BY <1>1, <1>3, <1>4, <1>5

(* The cursor after a page that ends with row l: nothing of the page is    *)
(* selected again, everything after it still is, and nothing else is.      *)
LEMMA PageNext ==
  ASSUME PageAssumption, NEW l \in PageRow, NEW x \in PageRow, NEW keyed \in BOOLEAN,
         NEW cur \in [value : Nat, key : Nat], cur.value = 0 \/ ~ keyed => cur.key = 0,
         Source = "snowflake" => ~ keyed, Source = "mongo" => keyed,
         cur.value # 0 => InPartition(cur.value),
         Paging!Selects(l, cur, keyed),
         NEW next, next = [value |-> l.c, key |-> IF keyed THEN l.k ELSE cur.key]
  PROVE  /\ InPartition(l.c)
         /\ Paging!Selects(x, next, keyed) => Paging!Selects(x, cur, keyed)
         /\ Paging!Selects(x, cur, keyed) /\ Paging!Precedes(l, x) /\ (~ keyed => l.c < x.c) =>
               Paging!Selects(x, next, keyed)
         /\ x = l \/ Paging!Precedes(x, l) => ~ Paging!Selects(x, next, keyed)
  <1>1. l.c \in Nat \ {0} /\ l.k \in Nat \ {0} /\ x.c \in Nat \ {0} /\ x.k \in Nat \ {0}
    BY DEF PageRow
  <1>2. /\ next \in [value : Nat, key : Nat] /\ next.value = l.c /\ next.value # 0
        /\ (keyed => next.key = l.k /\ next.key # 0) /\ (~ keyed => next.key = 0)
    BY <1>1
  <1>3. /\ Paging!Precedes(l, x) <=> l.c < x.c \/ (l.c = x.c /\ l.k < x.k)
        /\ Paging!Precedes(x, l) <=> x.c < l.c \/ (x.c = l.c /\ x.k < l.k)
    BY PageOrder
  <1>4. Window # <<>> => Window[1] \in Nat /\ Window[2] \in Nat
    BY PageConstants
  <1>5. CASE Source = "sql"
    <2>1. CASE ~ keyed
      <3>1. /\ Paging!Selects(x, next, keyed) <=> WindowOK(x, l.c) /\ x.c > l.c
            /\ Paging!Selects(x, cur, keyed) <=> WindowOK(x, cur.value) /\ (cur.value = 0 \/ x.c > cur.value)
            /\ WindowOK(l, cur.value) /\ (cur.value = 0 \/ l.c > cur.value)
        BY <1>2, <1>5, <2>1, PageSelects
      <3> QED BY <1>1, <1>3, <1>4, <1>5, <2>1, <3>1 DEF WindowOK, InPartition
    <2>2. CASE keyed
      <3>1. /\ Paging!Selects(x, next, keyed) <=> WindowOK(x, l.c) /\ AfterRow(x, l.c, l.k)
            /\ Paging!Selects(x, cur, keyed) <=>
                  /\ WindowOK(x, cur.value)
                  /\ cur.value = 0 \/ IF cur.key # 0 THEN AfterRow(x, cur.value, cur.key) ELSE x.c >= cur.value
            /\ WindowOK(l, cur.value)
            /\ cur.value = 0 \/ IF cur.key # 0 THEN AfterRow(l, cur.value, cur.key) ELSE l.c >= cur.value
        BY <1>2, <1>5, <2>2, PageSelects
      <3> DEFINE place == IF cur.value = 0 THEN TRUE
                          ELSE IF cur.key # 0 THEN AfterRow(x, cur.value, cur.key) ELSE x.c >= cur.value
      <3>2. InPartition(l.c)
        BY <1>1, <1>4, <1>5, <3>1 DEF WindowOK, InPartition, AfterRow
      <3>3. AfterRow(x, l.c, l.k) => place
        BY <1>1, <3>1 DEF AfterRow
      <3>4. AfterRow(x, l.c, l.k) /\ WindowOK(x, l.c) => WindowOK(x, cur.value)
        BY <1>1, <1>4, <1>5, <3>2 DEF WindowOK, InPartition, AfterRow
      <3>5. WindowOK(x, cur.value) => WindowOK(x, l.c)
        BY <1>1 DEF WindowOK
      <3>6. (Paging!Precedes(l, x) <=> AfterRow(x, l.c, l.k)) /\ (x = l \/ Paging!Precedes(x, l) => ~ AfterRow(x, l.c, l.k))
        BY <1>1, <1>3 DEF AfterRow
      <3> QED BY <3>1, <3>2, <3>3, <3>4, <3>5, <3>6
    <2> QED BY <2>1, <2>2
  <1>6. CASE Source = "snowflake"
    <2>1. /\ Paging!Selects(x, next, keyed) <=> x.c > l.c
          /\ Paging!Selects(x, cur, keyed) <=> x.c > cur.value
          /\ l.c > cur.value
      BY <1>2, <1>6, PageSelects
    <2> QED BY <1>1, <1>3, <1>6, <2>1 DEF InPartition
  <1>7. CASE Source = "mongo"
    <2>1. /\ Paging!Selects(x, next, keyed) <=> AfterRow(x, l.c, l.k)
          /\ Paging!Selects(x, cur, keyed) <=> cur.value = 0 \/ AfterRow(x, cur.value, cur.key)
          /\ cur.value = 0 \/ AfterRow(l, cur.value, cur.key)
      BY <1>2, <1>7, PageSelects
    <2>2. (Paging!Precedes(l, x) <=> AfterRow(x, l.c, l.k)) /\ (x = l \/ Paging!Precedes(x, l) => ~ AfterRow(x, l.c, l.k))
      BY <1>1, <1>3 DEF AfterRow
    <2>3. AfterRow(x, l.c, l.k) => cur.value = 0 \/ AfterRow(x, cur.value, cur.key)
      BY <1>1, <2>1 DEF AfterRow
    <2> QED BY <1>7, <2>1, <2>2, <2>3 DEF InPartition
  <1> QED BY <1>5, <1>6, <1>7, PageConstants

LEMMA PageSources ==
  ASSUME PageAssumption
  PROVE  /\ Source = "sql" => Paging!Keyed = keyColumn
         /\ Source = "snowflake" => ~ Paging!Keyed
         /\ Source = "mongo" => Paging!Keyed
         /\ keyColumn \in BOOLEAN => Paging!Keyed \in BOOLEAN
  BY PageConstants DEF Paging!Keyed

(* A cursor selects only rows of the partition.                            *)
LEMMA PageBegins ==
  ASSUME PageAssumption, NEW x \in PageRow, NEW keyed \in BOOLEAN,
         NEW cur \in [value : Nat, key : Nat], cur.value = 0 \/ ~ keyed => cur.key = 0,
         Source = "mongo" => keyed, cur.value # 0 => InPartition(cur.value),
         Paging!Selects(x, cur, keyed)
  PROVE  Paging!Selects(x, Paging!NoCursor, keyed)
  <1>1. /\ Paging!NoCursor \in [value : Nat, key : Nat]
        /\ Paging!NoCursor.value = 0 /\ Paging!NoCursor.key = 0
    BY DEF Paging!NoCursor, Paging!Null
  <1>2. x.c \in Nat \ {0}
    BY DEF PageRow
  <1>3. CASE Source = "sql"
    <2>1. Paging!Selects(x, Paging!NoCursor, keyed) <=> WindowOK(x, 0)
      BY <1>1, <1>3, PageSelects
    <2>2. WindowOK(x, cur.value) /\ (cur.value # 0 => x.c >= cur.value)
      <3>1. CASE cur.value = 0
        BY <1>3, <3>1, PageSelects
      <3>2. CASE cur.value # 0
        <4>1. CASE ~ keyed
          BY <1>2, <1>3, <3>2, <4>1, PageSelects
        <4>2. CASE keyed
          <5>1. WindowOK(x, cur.value) /\ IF cur.key # 0 THEN AfterRow(x, cur.value, cur.key) ELSE x.c >= cur.value
            BY <1>3, <3>2, <4>2, PageSelects
          <5> QED BY <1>2, <5>1 DEF AfterRow
        <4> QED BY <4>1, <4>2
      <3> QED BY <3>1, <3>2
    <2>3. Window # <<>> => Window[1] \in Nat /\ Window[2] \in Nat
      BY PageConstants
    <2> QED BY <1>2, <1>3, <2>1, <2>2, <2>3 DEF WindowOK, InPartition
  <1>4. CASE Source = "snowflake"
    BY <1>1, <1>2, <1>4, PageSelects
  <1>5. CASE Source = "mongo"
    BY <1>1, <1>5, PageSelects
  <1> QED BY <1>3, <1>4, <1>5, PageConstants

LEMMA PageTurn ==
  ASSUME PageAssumption, PageTable, NEW cur, NEW keyed \in BOOLEAN, CursorOK(cur, keyed),
         keyed => Paging!Keyed, Source = "mongo" => keyed,
         NEW kept, kept = Paging!Kept(Paging!Query(cur, keyed), keyed),
         NEW next, next = Paging!NextCursor(cur, kept, keyed)
  PROVE  /\ kept \in Seq(table) /\ Paging!IsInjective(kept)
         /\ \A x \in Paging!Range(kept) : /\ x \in table /\ Paging!Selects(x, cur, keyed)
                                          /\ ~ Paging!Selects(x, next, keyed)
         /\ \A x \in table : Paging!Selects(x, next, keyed) => Paging!Selects(x, cur, keyed)
         /\ \A x \in table : Paging!Selects(x, cur, keyed) =>
               x \in Paging!Range(kept) \/ Paging!Selects(x, next, keyed)
         /\ CursorOK(next, keyed)
  <1> DEFINE S == Paging!Selected(cur, keyed)
             l == kept[Len(kept)]
  <1>1. /\ kept \in Seq(S) /\ S \in SUBSET table
        /\ \A i, j \in 1..Len(kept) : i < j => Paging!Precedes(kept[i], kept[j])
        /\ kept # <<>> => \A x \in S \ Paging!Range(kept) :
              Paging!Precedes(kept[Len(kept)], x) /\ (~ keyed => kept[Len(kept)].c < x.c)
    BY PageKept
  <1>2. \A x : x \in S <=> x \in table /\ Paging!Selects(x, cur, keyed)
    BY DEF Paging!Selected
  <1>3. table \in SUBSET PageRow /\ Cardinality(table) \in Nat
    BY PageRows
  <1>4. /\ cur \in [value : Nat, key : 0..Cardinality(table)] /\ (cur.value = 0 \/ ~ keyed => cur.key = 0)
        /\ cur.value # 0 => InPartition(cur.value)
        /\ cur \in [value : Nat, key : Nat]
    BY <1>3 DEF CursorOK
  <1> HIDE DEF S
  <1>5. CASE kept = <<>>
    <2>1. next = cur
      BY <1>5 DEF Paging!NextCursor
    <2>2. Paging!IsInjective(kept) /\ Paging!Range(kept) = {} /\ kept \in Seq(table)
      BY <1>5 DEF Paging!IsInjective, Paging!Range
    <2> QED BY <2>1, <2>2
  <1>6. CASE kept # <<>>
    <2>1. Len(kept) \in Nat \ {0} /\ l \in S /\ \A i \in 1..Len(kept) : kept[i] \in S
      BY <1>1, <1>6
    <2>2. next = [value |-> l.c, key |-> IF keyed THEN l.k ELSE cur.key]
      BY <1>6 DEF Paging!NextCursor
    <2>3. Source = "snowflake" => ~ keyed
      BY PageSources
    <2>4. l \in PageRow /\ l \in table /\ Paging!Selects(l, cur, keyed)
      BY <1>1, <1>2, <1>3, <2>1
    <2>5. ASSUME NEW x \in table
          PROVE  /\ InPartition(l.c)
                 /\ Paging!Selects(x, next, keyed) => Paging!Selects(x, cur, keyed)
                 /\ Paging!Selects(x, cur, keyed) /\ Paging!Precedes(l, x) /\ (~ keyed => l.c < x.c) =>
                       Paging!Selects(x, next, keyed)
                 /\ x = l \/ Paging!Precedes(x, l) => ~ Paging!Selects(x, next, keyed)
      <3>1. x \in PageRow
        BY <1>3
      <3> HIDE DEF l
      <3> QED BY <1>4, <2>2, <2>3, <2>4, <3>1, PageNext
    <2>6. ASSUME NEW x \in Paging!Range(kept)
          PROVE  x \in table /\ Paging!Selects(x, cur, keyed) /\ ~ Paging!Selects(x, next, keyed)
      <3>1. PICK i \in 1..Len(kept) : x = kept[i]
        BY <1>1 DEF Paging!Range
      <3>2. x \in table /\ Paging!Selects(x, cur, keyed)
        BY <1>1, <1>2, <2>1, <3>1
      <3>3. x = l \/ Paging!Precedes(x, l)
        BY <1>1, <2>1, <3>1
      <3> QED BY <2>5, <3>2, <3>3
    <2>7. ASSUME NEW x \in table, Paging!Selects(x, cur, keyed), x \notin Paging!Range(kept)
          PROVE  Paging!Selects(x, next, keyed)
      <3>1. x \in S
        BY <1>2, <2>7
      <3>2. Paging!Precedes(l, x) /\ (~ keyed => l.c < x.c)
        BY <1>1, <1>6, <2>7, <3>1
      <3> QED BY <2>5, <2>7, <3>2
    <2>8. Paging!IsInjective(kept)
      <3>1. DOMAIN kept = 1..Len(kept)
        BY <1>1
      <3> SUFFICES ASSUME NEW i \in 1..Len(kept), NEW j \in 1..Len(kept), i < j, kept[i] = kept[j]
                   PROVE  FALSE
        BY <3>1 DEF Paging!IsInjective
      <3>2. kept[i] \in PageRow
        BY <1>1, <1>3, <2>1
      <3>3. Paging!Precedes(kept[i], kept[i])
        BY <1>1
      <3> QED BY <3>2, <3>3, PageOrderStrict
    <2>9. CursorOK(next, keyed)
      <3>1. l.c \in Nat \ {0} /\ l.k \in Nat \ {0}
        BY <2>4 DEF PageRow
      <3>2. l.k \in 0..Cardinality(table)
        BY <2>4, <3>1 DEF PageTable
      <3>3. /\ next.value = l.c /\ next.key = IF keyed THEN l.k ELSE cur.key
            /\ next \in [value : Nat, key : 0..Cardinality(table)]
        BY <1>4, <2>2, <3>1, <3>2
      <3>4. ~ keyed => next.key = 0
        BY <1>4, <3>3
      <3>5. InPartition(l.c)
        BY <2>4, <2>5
      <3> QED BY <2>4, <3>1, <3>3, <3>4, <3>5 DEF CursorOK
    <2>10. kept \in Seq(table)
      BY <1>1
    <2> QED BY <2>5, <2>6, <2>7, <2>8, <2>9, <2>10
  <1> QED BY <1>5, <1>6

LEMMA PageIdle ==
  ASSUME PageAssumption
  PROVE  ReaderOK(Paging!Idle)
  <1>1. 0 \in 0..MaxPages /\ <<>> \in Seq(table)
    BY PageConstants
  <1>2. Paging!Idle = [at |-> "idle", cursor |-> [value |-> 0, key |-> 0], got |-> <<>>, pages |-> 0, keyed |-> FALSE]
    BY DEF Paging!Idle, Paging!NoCursor, Paging!Null
  <1>3. Paging!Idle \in Reader /\ Paging!Idle.at = "idle"
    BY <1>1, <1>2 DEF Reader
  <1> QED BY <1>3 DEF ReaderOK

LEMMA PageStarts ==
  ASSUME PageAssumption, Paging!Init
  PROVE  PageInv
  <1>1. /\ table = {} /\ saved = [value |-> 0, key |-> 0] /\ keyColumn = KeyColumn
        /\ pageRun = [r \in Run |-> Paging!Idle] /\ delivered = {} /\ fails = 0
    BY DEF Paging!Init, Paging!NoCursor, Paging!Null
  <1>2. IsFiniteSet(table) /\ Cardinality(table) = 0
    BY <1>1, FS_EmptySet
  <1>3. PageTable /\ keyColumn \in BOOLEAN /\ (KeyColumn => keyColumn) /\ fails \in 0..MaxFails
    BY <1>1, <1>2, PageConstants DEF PageTable
  <1>4. CursorOK(saved, Paging!Keyed)
    BY <1>1, <1>2 DEF CursorOK
  <1>5. Covered(saved, Paging!Keyed, delivered)
    BY <1>1 DEF Covered, Paging!Wanted
  <1>6. \A r \in Run : ReaderOK(pageRun[r])
    BY <1>1, PageIdle
  <1>7. pageRun = [r \in Run |-> pageRun[r]]
    BY <1>1
  <1> QED BY <1>1, <1>3, <1>4, <1>5, <1>6, <1>7 DEF PageInv

(* A row that arrives is above every cursor.                               *)
Above(x) == /\ x.k > Cardinality(table)
            /\ \A y \in table : y.c <= x.c /\ (Paging!AlwaysKeyed \/ y.c < x.c)

LEMMA PageArrives ==
  ASSUME PageAssumption, PageTable, NEW x \in PageRow, Above(x), NEW keyed \in BOOLEAN, Mode(keyed),
         NEW cur, CursorOK(cur, keyed), Window # <<>> => x.c >= Window[1] /\ x.c < Window[2]
  PROVE  Paging!Selects(x, cur, keyed)
  <1>1. cur \in [value : Nat, key : Nat] /\ cur.key <= Cardinality(table) /\ Cardinality(table) \in Nat
    BY PageRows DEF CursorOK
  <1>2. (cur.value = 0 \/ ~ keyed => cur.key = 0) /\ (cur.value # 0 => \E y \in table : y.c = cur.value)
    BY DEF CursorOK
  <1>3. cur.value # 0 => cur.value <= x.c /\ (keyed \/ cur.value < x.c)
    BY <1>2 DEF Above, Mode
  <1>4. x.k \in Nat /\ x.k > cur.key /\ x.c \in Nat \ {0}
    BY <1>1 DEF Above, PageRow
  <1>5. cur.value # 0 /\ keyed => AfterRow(x, cur.value, cur.key)
    BY <1>1, <1>3, <1>4 DEF AfterRow
  <1>6. WindowOK(x, 0) /\ WindowOK(x, cur.value)
    BY DEF WindowOK
  <1>7. Source = "mongo" => keyed
    BY DEF Mode, Paging!AlwaysKeyed
  <1>8. CASE Source = "sql"
    <2>1. CASE cur.value = 0
      BY <1>1, <1>2, <1>6, <1>8, <2>1, PageSelects
    <2>2. CASE cur.value # 0 /\ keyed
      <3>1. IF cur.key # 0 THEN AfterRow(x, cur.value, cur.key) ELSE x.c >= cur.value
        BY <1>1, <1>3, <1>4, <1>5, <2>2
      <3> QED BY <1>1, <1>2, <1>6, <1>8, <2>2, <3>1, PageSelects
    <2>3. CASE cur.value # 0 /\ ~ keyed
      BY <1>1, <1>2, <1>3, <1>4, <1>6, <1>8, <2>3, PageSelects
    <2> QED BY <2>1, <2>2, <2>3
  <1>9. CASE Source = "snowflake"
    BY <1>1, <1>2, <1>3, <1>4, <1>9, PageSelects DEF Mode
  <1>10. CASE Source = "mongo"
    BY <1>1, <1>2, <1>5, <1>7, <1>10, PageSelects
  <1> QED BY <1>8, <1>9, <1>10, PageConstants

(* What a step of the table, or of another run, leaves to a cursor.        *)
Grows ==
    /\ PageTable /\ PageTable' /\ table \subseteq table' /\ \A x \in table' \ table : Above(x)
    /\ delivered \subseteq delivered'
    /\ keyColumn \in BOOLEAN /\ keyColumn' \in BOOLEAN /\ (keyColumn => keyColumn')

LEMMA PageGrows ==
  ASSUME PageAssumption, Grows
  PROVE  table' \in SUBSET PageRow /\ Cardinality(table) \in Nat /\ Cardinality(table)' \in Nat
         /\ Cardinality(table) <= Cardinality(table)'
         /\ (Paging!Keyed => Paging!Keyed') /\ Seq(table) \subseteq Seq(table')
  <1>1. IsFiniteSet(table') /\ table \subseteq table' /\ Cardinality(table)' = Cardinality(table')
    BY DEF Grows, PageTable
  <1>2. /\ Cardinality(table) <= Cardinality(table)' /\ Cardinality(table)' \in Nat /\ Cardinality(table) \in Nat
    BY <1>1, FS_Subset, FS_CardinalityType, PageRows DEF Grows
  <1>3. ASSUME NEW x \in table' PROVE x \in PageRow
    <2>1. x \in [c : Values, k : 1..Cardinality(table)']
      BY <1>1 DEF Grows, PageTable
    <2>2. 1..Cardinality(table)' \subseteq Nat \ {0} /\ Values \subseteq Nat \ {0}
      BY <1>2, PageConstants
    <2> QED BY <2>1, <2>2 DEF PageRow
  <1>4. Paging!Keyed => Paging!Keyed'
    BY PageConstants DEF Paging!Keyed, Grows
  <1>5. ASSUME NEW s \in Seq(table) PROVE s \in Seq(table')
    BY <1>1
  <1> QED BY <1>2, <1>3, <1>4, <1>5

LEMMA PageCursorKept ==
  ASSUME PageAssumption, Grows, NEW cur, NEW keyed \in BOOLEAN, Mode(keyed), CursorOK(cur, keyed),
         NEW D, NEW E, D \subseteq E, Covered(cur, keyed, D)
  PROVE  CursorOK(cur, keyed)' /\ Covered(cur, keyed, E)'
  <1>1. /\ table' \in SUBSET PageRow /\ Cardinality(table) \in Nat /\ Cardinality(table)' \in Nat
        /\ Cardinality(table) <= Cardinality(table)'
    BY PageGrows
  <1>2. CursorOK(cur, keyed)'
    BY <1>1 DEF CursorOK, Grows
  <1>3. ASSUME NEW x \in table', Window # <<>> => x.c >= Window[1] /\ x.c < Window[2]
        PROVE  x \in E \/ Paging!Selects(x, cur, keyed)
    <2>1. CASE x \in table
      BY <1>3, <2>1 DEF Covered, Paging!Wanted
    <2>2. CASE x \notin table
      <3>1. x \in PageRow /\ Above(x) /\ PageTable
        BY <1>1, <2>2 DEF Grows
      <3> QED BY <1>3, <3>1, PageArrives
    <2> QED BY <2>1, <2>2
  <1>4. Covered(cur, keyed, E)'
    BY <1>3 DEF Covered, Paging!Wanted
  <1> QED BY <1>2, <1>4

LEMMA PageReaderKept ==
  ASSUME PageAssumption, Grows, NEW q, ReaderOK(q)
  PROVE  ReaderOK(q)'
  <1>1. q \in Reader /\ (IF q.at = "idle" THEN q = Paging!Idle ELSE Reading(q))
    BY DEF ReaderOK
  <1>2. q \in Reader'
    BY <1>1, PageGrows DEF Reader
  <1>3. ASSUME q.at # "idle" PROVE Reading(q)'
    <2>1. /\ Mode(q.keyed) /\ (q.keyed => Paging!Keyed) /\ q.keyed \in BOOLEAN
          /\ CursorOK(q.cursor, q.keyed) /\ Covered(q.cursor, q.keyed, delivered \cup Paging!Range(q.got))
          /\ Paging!IsInjective(q.got)
          /\ \A x \in Paging!Range(q.got) : /\ ~ Paging!Selects(x, q.cursor, q.keyed)
                                            /\ Paging!Selects(x, Paging!NoCursor, q.keyed)
          /\ q.at = "reading" => q.pages < MaxPages
          /\ q.at = "delivered" => Paging!Range(q.got) \subseteq delivered
      BY <1>1, <1>3 DEF Reading, Reader
    <2>2. PICK D, E : D = delivered \cup Paging!Range(q.got) /\ E = delivered' \cup Paging!Range(q.got)
      OBVIOUS
    <2>3. D \subseteq E
      BY <2>2 DEF Grows
    <2>4. CursorOK(q.cursor, q.keyed)' /\ Covered(q.cursor, q.keyed, E)'
      BY <2>1, <2>2, <2>3, PageCursorKept
    <2>5. q.keyed => Paging!Keyed'
      BY <2>1, PageGrows
    <2> QED BY <2>1, <2>2, <2>4, <2>5 DEF Reading, Grows
  <1>4. q.at = "idle" => q = Paging!Idle
    BY <1>1
  <1> QED BY <1>2, <1>3, <1>4 DEF ReaderOK

LEMMA PageSame ==
  ASSUME PageAssumption, PageInv, UNCHANGED table, delivered \subseteq delivered', UNCHANGED keyColumn
  PROVE  Grows
  BY DEF Grows, PageInv, PageTable

LEMMA PageAdds ==
  ASSUME PageAssumption, PageInv, Grows, UNCHANGED <<saved, keyColumn, pageRun, delivered, fails>>
  PROVE  PageInv'
  <1>1. PICK cur, keyed : cur = saved /\ keyed = Paging!Keyed
    OBVIOUS
  <1>2. PICK D : D = delivered
    OBVIOUS
  <1>3. keyed \in BOOLEAN /\ Mode(keyed) /\ Paging!Keyed' = keyed
    BY <1>1, PageSources DEF PageInv, Mode, Paging!AlwaysKeyed, Paging!Keyed
  <1>4. CursorOK(cur, keyed) /\ Covered(cur, keyed, D)
    BY <1>1, <1>2 DEF PageInv
  <1>5. CursorOK(cur, keyed)' /\ Covered(cur, keyed, D)'
    BY <1>3, <1>4, PageCursorKept
  <1>6. CursorOK(saved, Paging!Keyed)' /\ Covered(saved, Paging!Keyed, delivered)'
    BY <1>1, <1>2, <1>3, <1>5
  <1>7. ASSUME NEW r \in Run PROVE ReaderOK(pageRun[r])'
    <2>1. PICK q : q = pageRun[r]
      OBVIOUS
    <2>2. ReaderOK(q)
      BY <2>1 DEF PageInv
    <2>3. ReaderOK(q)'
      BY <2>2, PageReaderKept
    <2> QED BY <2>1, <2>3
  <1> QED BY <1>6, <1>7 DEF PageInv, Grows

LEMMA PageInserts ==
  ASSUME PageAssumption, PageInv, NEW c \in Values, Paging!InsertRow(c)
  PROVE  PageInv'
  <1> DEFINE n == Cardinality(table)
             x == [c |-> c, k |-> n + 1]
  <1>1. /\ n < MaxKey /\ table' = table \cup {x} /\ UNCHANGED <<saved, keyColumn, pageRun, delivered, fails>>
        /\ \A y \in table : IF Paging!AlwaysKeyed THEN y.c <= c ELSE y.c < c
    <2>1. Paging!Cardinality(table) = n /\ c # 0
      BY PageCardinality, PageConstants
    <2> QED BY <2>1 DEF Paging!InsertRow, Paging!Null
  <1>2. PageTable /\ table \in SUBSET PageRow /\ n \in Nat /\ c \in Nat \ {0} /\ MaxKey \in Nat
    BY PageRows, PageConstants DEF PageInv
  <1>3. \A y \in table : y \in [c : Values, k : 1..n] /\ y.c \in Nat
    BY <1>2 DEF PageTable, PageRow
  <1>4. x \notin table
    BY <1>2, <1>3
  <1>5. IsFiniteSet(table') /\ Cardinality(table') = n + 1
    BY <1>1, <1>2, <1>4, FS_AddElement DEF PageTable
  <1>6. PageTable'
    <2>1. \A y \in table' : y \in [c : Values, k : 1..n + 1] /\ (y \in table \/ y = x)
      BY <1>1, <1>2, <1>3
    <2>2. \A y, z \in table' : y.k = z.k => y = z
      <3> SUFFICES ASSUME NEW y \in table', NEW z \in table', y.k = z.k PROVE y = z
        OBVIOUS
      <3>1. CASE y \in table /\ z \in table
        BY <1>2, <3>1 DEF PageTable
      <3>2. CASE y = x /\ z = x
        BY <3>2
      <3>3. CASE (y \in table /\ z = x) \/ (y = x /\ z \in table)
        BY <1>2, <1>3, <3>3
      <3> QED BY <2>1, <3>1, <3>2, <3>3
    <2> QED BY <1>1, <1>2, <1>5, <2>1, <2>2 DEF PageTable
  <1>7. Above(x)
    BY <1>1, <1>2, <1>3 DEF Above
  <1>8. Grows
    BY <1>1, <1>2, <1>6, <1>7 DEF Grows, PageInv
  <1> QED BY <1>1, <1>8, PageAdds

LEMMA PageTies ==
  ASSUME PageAssumption, PageInv, NEW c \in Values, NEW m \in Nat, Paging!InsertTies(c, m)
  PROVE  PageInv'
  <1> DEFINE n == Cardinality(table)
             T == {[c |-> c, k |-> n + i] : i \in 1..m}
             f == [i \in 1..m |-> [c |-> c, k |-> n + i]]
  <1>1. /\ n + m <= MaxKey /\ table' = table \cup T /\ UNCHANGED <<saved, keyColumn, pageRun, delivered, fails>>
        /\ \A y \in table : y.c < c
    <2>1. Paging!Cardinality(table) = n
      BY PageCardinality
    <2> QED BY <2>1 DEF Paging!InsertTies
  <1>2. PageTable /\ table \in SUBSET PageRow /\ n \in Nat /\ c \in Nat \ {0} /\ MaxKey \in Nat
    BY PageRows, PageConstants DEF PageInv
  <1>3. \A y \in table : y \in [c : Values, k : 1..n] /\ y.c \in Nat
    BY <1>2 DEF PageTable, PageRow
  <1>4. \A x \in T : /\ x \in [c : Values, k : 1..n + m] /\ x.c = c /\ x.k \in n + 1..n + m
                     /\ x = [c |-> c, k |-> x.k]
    BY <1>2
  <1>5. table \cap T = {}
    BY <1>2, <1>3, <1>4
  <1>6. IsFiniteSet(T) /\ Cardinality(T) = m
    <2>1. f \in Bijection(1..m, T)
      <3>1. f \in [1..m -> T] /\ \A i, j \in 1..m : f[i] = f[j] => i = j
        BY <1>2
      <3>2. \A x \in T : \E i \in 1..m : f[i] = x
        OBVIOUS
      <3> HIDE DEF T, f
      <3>3. f \in Injection(1..m, T)
        BY <3>1 DEF Injection, IsInjective
      <3>4. f \in Surjection(1..m, T)
        BY <3>1, <3>2 DEF Surjection
      <3> QED BY <3>3, <3>4 DEF Bijection
    <2>2. IsFiniteSet(1..m) /\ Cardinality(1..m) = m
      BY FS_Interval
    <2> HIDE DEF T, f
    <2>3. ExistsBijection(1..m, T)
      BY <2>1 DEF ExistsBijection
    <2> QED BY <2>2, <2>3, FS_Bijection
  <1>7. IsFiniteSet(table') /\ Cardinality(table') = n + m
    <2>1. IsFiniteSet(table)
      BY <1>2 DEF PageTable
    <2>2. Cardinality({}) = 0
      BY FS_EmptySet
    <2> HIDE DEF T
    <2>3. IsFiniteSet(table \cup T) /\ Cardinality(table \cup T) = n + m - 0
      BY <1>5, <1>6, <2>1, <2>2, FS_Union
    <2> QED BY <1>1, <1>2, <2>3
  <1> HIDE DEF T
  <1>8. PageTable'
    <2>1. \A y \in table' : y \in [c : Values, k : 1..n + m] /\ (y \in table \/ y \in T)
      BY <1>1, <1>2, <1>3, <1>4
    <2>2. \A y, z \in table' : y.k = z.k => y = z
      <3> SUFFICES ASSUME NEW y \in table', NEW z \in table', y.k = z.k PROVE y = z
        OBVIOUS
      <3>1. CASE y \in table /\ z \in table
        BY <1>2, <3>1 DEF PageTable
      <3>2. CASE y \in T /\ z \in T
        BY <1>4, <3>2
      <3>3. CASE (y \in table /\ z \in T) \/ (y \in T /\ z \in table)
        BY <1>2, <1>3, <1>4, <3>3
      <3> QED BY <2>1, <3>1, <3>2, <3>3
    <2> QED BY <1>1, <1>2, <1>7, <2>1, <2>2 DEF PageTable
  <1>9. \A x \in T : Above(x)
    BY <1>1, <1>2, <1>3, <1>4 DEF Above
  <1>10. Grows
    BY <1>1, <1>2, <1>8, <1>9 DEF Grows, PageInv
  <1> QED BY <1>1, <1>10, PageAdds

(* Once there is a key column, a cursor that was left without a key reads  *)
(* its last value again, so it passes over nothing.                        *)
LEMMA PageKeyAdded ==
  ASSUME PageAssumption, PageTable, Source = "sql", NEW cur, CursorOK(cur, FALSE), NEW D, Covered(cur, FALSE, D)
  PROVE  CursorOK(cur, TRUE) /\ Covered(cur, TRUE, D)
  <1>1. cur \in [value : Nat, key : Nat] /\ cur.key = 0
    BY PageRows DEF CursorOK
  <1>2. CursorOK(cur, TRUE)
    BY DEF CursorOK
  <1>3. ASSUME NEW x \in Paging!Wanted, Paging!Selects(x, cur, FALSE)
        PROVE  Paging!Selects(x, cur, TRUE)
    <2>1. x \in PageRow /\ x.c \in Nat
      BY PageRows DEF Paging!Wanted, PageRow
    <2>2. CASE cur.value = 0
      BY <1>1, <1>3, <2>1, <2>2, PageSelects
    <2>3. CASE cur.value # 0
      <3>1. WindowOK(x, cur.value) /\ x.c > cur.value
        BY <1>1, <1>3, <2>1, <2>3, PageSelects
      <3>2. IF cur.key # 0 THEN AfterRow(x, cur.value, cur.key) ELSE x.c >= cur.value
        BY <1>1, <2>1, <3>1
      <3> QED BY <1>1, <2>1, <2>3, <3>1, <3>2, PageSelects
    <2> QED BY <2>2, <2>3
  <1> QED BY <1>2, <1>3 DEF Covered

LEMMA PageMode ==
  ASSUME PageAssumption, PageInv
  PROVE  Paging!Keyed \in BOOLEAN /\ Mode(Paging!Keyed)
  BY PageSources DEF PageInv, Mode, Paging!AlwaysKeyed

LEMMA PageEdits ==
  ASSUME PageAssumption, PageInv, NEW edit \in Edits, Paging!EditKeyColumn(edit)
  PROVE  PageInv'
  <1>1. /\ ~ keyColumn /\ keyColumn' = TRUE /\ UNCHANGED <<table, saved, pageRun, delivered, fails>>
    <2>1. edit = "add"
      BY DEF PageAssumption, Paging!PagingAssumption
    <2> QED BY <2>1 DEF Paging!EditKeyColumn, PageInv
  <1>2. Grows
    BY <1>1 DEF Grows, PageInv, PageTable
  <1>3. PICK cur, D : cur = saved /\ D = delivered
    OBVIOUS
  <1>4. PageTable /\ CursorOK(cur, Paging!Keyed) /\ Covered(cur, Paging!Keyed, D) /\ Mode(Paging!Keyed)
        /\ Paging!Keyed \in BOOLEAN
    BY <1>3, PageMode DEF PageInv
  <1>5. CursorOK(cur, Paging!Keyed)' /\ Covered(cur, Paging!Keyed, D)'
    <2>1. CASE Source = "sql"
      <3>1. ~ Paging!Keyed /\ Paging!Keyed'
        BY <1>1, <2>1, PageSources DEF Paging!Keyed
      <3>2. CursorOK(cur, TRUE) /\ Covered(cur, TRUE, D)
        BY <1>4, <2>1, <3>1, PageKeyAdded
      <3>3. Mode(TRUE)
        BY <2>1 DEF Mode
      <3>4. CursorOK(cur, TRUE)' /\ Covered(cur, TRUE, D)'
        BY <1>2, <3>2, <3>3, PageCursorKept
      <3> QED BY <3>1, <3>4 DEF CursorOK, Covered
    <2>2. CASE Source # "sql"
      <3>1. PICK keyed \in BOOLEAN : keyed = Paging!Keyed
        BY <1>4
      <3>2. Paging!Keyed' = keyed
        BY <2>2, <3>1, PageConstants DEF Paging!Keyed
      <3>3. CursorOK(cur, keyed)' /\ Covered(cur, keyed, D)'
        BY <1>2, <1>4, <3>1, PageCursorKept
      <3> QED BY <3>2, <3>3
    <2> QED BY <2>1, <2>2
  <1>6. ASSUME NEW r \in Run PROVE ReaderOK(pageRun[r])'
    <2>1. PICK q : q = pageRun[r]
      OBVIOUS
    <2>2. ReaderOK(q)'
      BY <1>2, <2>1, PageReaderKept DEF PageInv
    <2> QED BY <1>1, <2>1, <2>2
  <1> QED BY <1>1, <1>2, <1>3, <1>5, <1>6 DEF PageInv, Grows

(* A step of one run.                                                      *)
LEMMA PageRuns ==
  ASSUME PageAssumption, PageInv, NEW r \in Run, NEW q, ReaderOK(q)', pageRun' = [pageRun EXCEPT ![r] = q],
         UNCHANGED <<table, keyColumn>>, delivered \subseteq delivered'
  PROVE  pageRun' = [s \in Run |-> pageRun'[s]] /\ \A s \in Run : ReaderOK(pageRun[s])'
  <1>1. Grows
    BY PageSame
  <1>2. pageRun' = [s \in Run |-> pageRun'[s]] /\ \A s \in Run : pageRun'[s] = IF s = r THEN q ELSE pageRun[s]
    BY DEF PageInv
  <1>3. ASSUME NEW s \in Run PROVE ReaderOK(pageRun[s])'
    <2>1. CASE s = r
      BY <1>2, <2>1
    <2>2. CASE s # r
      <3>1. PICK p : p = pageRun[s]
        OBVIOUS
      <3>2. ReaderOK(p)'
        BY <1>1, <3>1, PageReaderKept DEF PageInv
      <3> QED BY <1>2, <2>2, <3>1, <3>2
    <2> QED BY <2>1, <2>2
  <1> QED BY <1>2, <1>3

(* A step of one run that leaves what has been saved and delivered alone.  *)
LEMMA PageRunMoves ==
  ASSUME PageAssumption, PageInv, NEW r \in Run, NEW q, ReaderOK(q), pageRun' = [pageRun EXCEPT ![r] = q],
         UNCHANGED <<table, saved, keyColumn, delivered>>, fails' \in 0..MaxFails
  PROVE  PageInv'
  <1>1. Grows
    BY PageSame
  <1>2. ReaderOK(q)'
    BY <1>1, PageReaderKept
  <1>3. pageRun' = [s \in Run |-> pageRun'[s]] /\ \A s \in Run : ReaderOK(pageRun[s])'
    BY <1>2, PageRuns
  <1>4. CursorOK(saved, Paging!Keyed)' /\ Covered(saved, Paging!Keyed, delivered)'
    BY DEF PageInv, CursorOK, Covered, Paging!Keyed, Paging!Wanted
  <1> QED BY <1>1, <1>3, <1>4 DEF PageInv, Grows

(* What a record becomes when a run begins.                                *)
Begun(p, a, c, k) == [p EXCEPT !.at = a, !.cursor = c, !.keyed = k]

LEMMA PageTaken ==
  ASSUME NEW p \in Reader, NEW a, NEW c, NEW k
  PROVE  LET q == Begun(p, a, c, k) IN
         /\ q.at = a /\ q.cursor = c /\ q.got = p.got /\ q.pages = p.pages /\ q.keyed = k
         /\ a \in {"reading", "read"} /\ c \in [value : Nat, key : Nat] /\ k \in BOOLEAN => q \in Reader
  <1>1. [p EXCEPT !.at = a] = [at |-> a, cursor |-> p.cursor, got |-> p.got, pages |-> p.pages, keyed |-> p.keyed]
    BY DEF Reader
  <1>2. [[at |-> a, cursor |-> p.cursor, got |-> p.got, pages |-> p.pages, keyed |-> p.keyed] EXCEPT !.cursor = c]
        = [at |-> a, cursor |-> c, got |-> p.got, pages |-> p.pages, keyed |-> p.keyed]
    OBVIOUS
  <1>3. [[at |-> a, cursor |-> c, got |-> p.got, pages |-> p.pages, keyed |-> p.keyed] EXCEPT !.keyed = k]
        = [at |-> a, cursor |-> c, got |-> p.got, pages |-> p.pages, keyed |-> k]
    OBVIOUS
  <1> DEFINE q == Begun(p, a, c, k)
  <1>4. q = [at |-> a, cursor |-> c, got |-> p.got, pages |-> p.pages, keyed |-> k]
    BY <1>1, <1>2, <1>3, Zenon DEF Begun
  <1>5. q.at = a /\ q.cursor = c /\ q.got = p.got /\ q.pages = p.pages /\ q.keyed = k
    <2> HIDE DEF q
    <2> QED BY <1>4
  <1>6. a \in {"reading", "read"} /\ c \in [value : Nat, key : Nat] /\ k \in BOOLEAN => q \in Reader
    <2> HIDE DEF q
    <2> QED BY <1>4 DEF Reader
  <1> QED BY <1>5, <1>6

(* Without a cursor every row that is wanted is selected.                  *)
LEMMA PageFromStart ==
  ASSUME PageAssumption, PageInv
  PROVE  CursorOK(Paging!NoCursor, Paging!Keyed) /\ Covered(Paging!NoCursor, Paging!Keyed, delivered)
  <1>1. PICK none : /\ none = Paging!NoCursor /\ none \in [value : Nat, key : Nat]
                    /\ none.value = 0 /\ none.key = 0 /\ none \in [value : Nat, key : 0..Cardinality(table)]
    <2>1. Cardinality(table) \in Nat
      BY PageRows, PageConstants DEF PageInv
    <2>2. PICK n : n = 0 /\ n \in Nat /\ n \in 0..Cardinality(table)
      BY <2>1
    <2>3. PICK none : none = [value |-> n, key |-> n]
      OBVIOUS
    <2>4. none = Paging!NoCursor
      BY <2>2, <2>3 DEF Paging!NoCursor, Paging!Null
    <2> QED BY <2>2, <2>3, <2>4
  <1>2. Paging!Keyed \in BOOLEAN
    BY PageMode
  <1>3. ASSUME NEW x \in Paging!Wanted
        PROVE  Paging!Selects(x, none, Paging!Keyed)
    <2>1. x \in PageRow /\ (Window # <<>> => x.c >= Window[1] /\ x.c < Window[2])
      BY <1>3, PageRows DEF PageInv, Paging!Wanted
    <2>2. WindowOK(x, 0)
      BY <2>1 DEF WindowOK
    <2>3. x.c > none.value
      BY <1>1, <2>1 DEF PageRow
    <2>4. CASE Source = "sql"
      BY <1>1, <1>2, <2>1, <2>2, <2>4, PageSelects
    <2>5. CASE Source = "snowflake"
      BY <1>1, <1>2, <2>1, <2>3, <2>5, PageSelects
    <2>6. CASE Source = "mongo"
      BY <1>1, <1>2, <2>1, <2>6, PageSelects, PageSources
    <2> QED BY <2>4, <2>5, <2>6, PageConstants
  <1> QED BY <1>1, <1>3 DEF CursorOK, Covered

LEMMA PageRunStarts ==
  ASSUME PageAssumption, PageInv, NEW r \in Run, Paging!StartRun(r)
  PROVE  PageInv'
  <1>1. PICK cur \in {saved, Paging!NoCursor} : Paging!Start(r, cur)
    BY Zenon DEF Paging!StartRun
  <1> DEFINE q == Begun(Paging!Idle, "reading", cur, Paging!Keyed)
  <1>2. pageRun' = [pageRun EXCEPT ![r] = q] /\ UNCHANGED <<table, saved, keyColumn, delivered>>
    BY <1>1, Zenon DEF Paging!StartRun, Paging!Start, Begun
  <1>3. fails' \in 0..MaxFails
    <2>1. fails \in 0..MaxFails /\ MaxFails \in Nat
      BY PageConstants DEF PageInv
    <2>2. fails' = fails \/ (fails < MaxFails /\ fails' = fails + 1)
      BY Zenon DEF Paging!StartRun
    <2> QED BY <2>1, <2>2
  <1>4. Paging!Idle \in Reader /\ Paging!Idle.got = <<>> /\ Paging!Idle.pages = 0
    BY PageIdle DEF ReaderOK, Paging!Idle
  <1>5. Paging!Keyed \in BOOLEAN /\ Mode(Paging!Keyed)
    BY PageMode
  <1>6. CursorOK(cur, Paging!Keyed) /\ Covered(cur, Paging!Keyed, delivered)
    BY <1>1, PageFromStart DEF PageInv
  <1>7. cur \in [value : Nat, key : Nat]
    BY <1>6, PageRows DEF PageInv, CursorOK
  <1>8. q \in Reader
    BY <1>4, <1>5, <1>7, PageTaken
  <1>9. q.at = "reading" /\ q.cursor = cur /\ q.got = <<>> /\ q.pages = 0 /\ q.keyed = Paging!Keyed
    BY <1>4, PageTaken
  <1> HIDE DEF q
  <1>10. Reading(q)
    <2>1. Paging!Range(q.got) = {} /\ Paging!IsInjective(q.got)
      BY <1>9 DEF Paging!Range, Paging!IsInjective
    <2>2. q.pages < MaxPages
      BY <1>9, PageConstants
    <2>3. CursorOK(q.cursor, q.keyed) /\ Covered(q.cursor, q.keyed, delivered \cup Paging!Range(q.got))
      BY <1>6, <1>9, <2>1 DEF Covered
    <2>4. Mode(q.keyed) /\ (q.keyed => Paging!Keyed)
      BY <1>5, <1>9
    <2> QED BY <1>9, <2>1, <2>2, <2>3, <2>4 DEF Reading
  <1>11. ReaderOK(q)
    BY <1>8, <1>9, <1>10 DEF ReaderOK
  <1> QED BY <1>2, <1>3, <1>11, PageRunMoves

LEMMA PageRunFails ==
  ASSUME PageAssumption, PageInv, NEW r \in Run, Paging!RunFails(r)
  PROVE  PageInv'
  <1>1. fails' \in 0..MaxFails
    <2>1. fails \in 0..MaxFails /\ MaxFails \in Nat
      BY PageConstants DEF PageInv
    <2>2. fails < MaxFails /\ fails' = fails + 1
      BY DEF Paging!RunFails
    <2> QED BY <2>1, <2>2
  <1> QED BY <1>1, PageIdle, PageRunMoves DEF Paging!RunFails

LEMMA PageDelivers ==
  ASSUME PageAssumption, PageInv, NEW r \in Run, Paging!SinksWrite(r)
  PROVE  PageInv'
  <1>1. PICK p : p = pageRun[r]
    OBVIOUS
  <1> DEFINE q == [p EXCEPT !.at = "delivered"]
  <1>2. /\ p.at = "read" /\ pageRun' = [pageRun EXCEPT ![r] = q] /\ UNCHANGED <<table, saved, keyColumn, fails>>
        /\ delivered' = delivered \cup Paging!Range(p.got)
    BY <1>1 DEF Paging!SinksWrite, PageInv
  <1>3. Grows
    BY <1>2, PageSame
  <1>4. ReaderOK(p)'
    BY <1>1, <1>3, PageReaderKept DEF PageInv
  <1>5. p \in Reader' /\ Reading(p)'
    BY <1>2, <1>4 DEF ReaderOK
  <1>6. /\ q.at = "delivered" /\ q.cursor = p.cursor /\ q.got = p.got /\ q.pages = p.pages /\ q.keyed = p.keyed
        /\ q \in Reader'
    BY <1>5 DEF Reader
  <1> HIDE DEF q
  <1>7. ReaderOK(q)'
    BY <1>2, <1>5, <1>6 DEF ReaderOK, Reading
  <1>8. pageRun' = [s \in Run |-> pageRun'[s]] /\ \A s \in Run : ReaderOK(pageRun[s])'
    BY <1>2, <1>7, PageRuns
  <1>9. Paging!Range(p.got) \subseteq table
    <2>1. p.got \in Seq(table)
      BY <1>2, <1>5 DEF Reader
    <2> QED BY <2>1 DEF Paging!Range
  <1>10. CursorOK(saved, Paging!Keyed)' /\ Covered(saved, Paging!Keyed, delivered)'
    BY <1>2 DEF PageInv, CursorOK, Covered, Paging!Keyed, Paging!Wanted
  <1> QED BY <1>2, <1>3, <1>8, <1>9, <1>10 DEF PageInv, Grows

LEMMA PageCommits ==
  ASSUME PageAssumption, PageInv, NEW r \in Run, Paging!CommitSourceCursors(r)
  PROVE  PageInv'
  <1>1. PICK p : p = pageRun[r]
    OBVIOUS
  <1>2. /\ p.at = "delivered" /\ saved' = p.cursor /\ pageRun' = [pageRun EXCEPT ![r] = Paging!Idle]
        /\ UNCHANGED <<table, keyColumn, delivered, fails>>
    BY <1>1 DEF Paging!CommitSourceCursors
  <1>3. Grows
    BY <1>2, PageSame
  <1>4. Reading(p) /\ p \in Reader /\ PageTable
    BY <1>1, <1>2 DEF PageInv, ReaderOK
  <1>5. /\ CursorOK(p.cursor, p.keyed) /\ Covered(p.cursor, p.keyed, delivered)
        /\ (p.keyed => Paging!Keyed) /\ Mode(p.keyed) /\ p.keyed \in BOOLEAN
    <2>1. delivered \cup Paging!Range(p.got) = delivered
      BY <1>2, <1>4 DEF Reading
    <2> QED BY <1>4, <2>1 DEF Reading, Reader
  <1>6. CursorOK(p.cursor, Paging!Keyed) /\ Covered(p.cursor, Paging!Keyed, delivered)
    <2>1. CASE p.keyed = Paging!Keyed
      BY <1>5, <2>1
    <2>2. CASE p.keyed # Paging!Keyed
      <3>1. p.keyed = FALSE /\ Paging!Keyed = TRUE /\ Source = "sql"
        BY <1>5, <2>2, PageMode, PageSources, PageConstants DEF Mode, Paging!AlwaysKeyed
      <3> QED BY <1>4, <1>5, <3>1, PageKeyAdded
    <2> QED BY <2>1, <2>2
  <1>7. CursorOK(saved, Paging!Keyed)' /\ Covered(saved, Paging!Keyed, delivered)'
    BY <1>2, <1>6 DEF CursorOK, Covered, Paging!Keyed, Paging!Wanted
  <1>8. ReaderOK(Paging!Idle)'
    BY <1>3, PageIdle, PageReaderKept
  <1>9. pageRun' = [s \in Run |-> pageRun'[s]] /\ \A s \in Run : ReaderOK(pageRun[s])'
    BY <1>2, <1>8, PageRuns
  <1> QED BY <1>2, <1>3, <1>7, <1>9 DEF PageInv, Grows

LEMMA PageJoins ==
  ASSUME NEW X, NEW s \in Seq(X), NEW t \in Seq(X), Paging!IsInjective(s), Paging!IsInjective(t),
         Paging!Range(s) \cap Paging!Range(t) = {}
  PROVE  /\ s \o t \in Seq(X) /\ Paging!Range(s \o t) = Paging!Range(s) \cup Paging!Range(t)
         /\ Paging!IsInjective(s \o t)
  <1> DEFINE u == s \o t
  <1>1. /\ u \in Seq(X) /\ Len(u) = Len(s) + Len(t) /\ Len(s) \in Nat /\ Len(t) \in Nat
        /\ DOMAIN u = 1..Len(u) /\ DOMAIN s = 1..Len(s) /\ DOMAIN t = 1..Len(t)
        /\ \A i \in 1..Len(s) : u[i] = s[i]
        /\ \A i \in 1..Len(t) : u[Len(s) + i] = t[i]
    OBVIOUS
  <1> HIDE DEF u
  <1>2. \A i \in 1..Len(u) : i \in 1..Len(s) \/ (i - Len(s) \in 1..Len(t) /\ i = Len(s) + (i - Len(s)))
    BY <1>1
  <1>3. \A i \in 1..Len(u) : \/ i \in 1..Len(s) /\ u[i] = s[i] /\ u[i] \in Paging!Range(s)
                             \/ /\ i - Len(s) \in 1..Len(t) /\ u[i] = t[i - Len(s)]
                                /\ u[i] \in Paging!Range(t)
    BY <1>1, <1>2 DEF Paging!Range
  <1>4. Paging!Range(u) \subseteq Paging!Range(s) \cup Paging!Range(t)
    BY <1>1, <1>3 DEF Paging!Range
  <1>5. \A i \in 1..Len(s) : s[i] \in Paging!Range(u)
    BY <1>1 DEF Paging!Range
  <1>6. \A i \in 1..Len(t) : t[i] \in Paging!Range(u)
    <2> TAKE i \in 1..Len(t)
    <2>1. Len(s) + i \in DOMAIN u
      BY <1>1
    <2> QED BY <1>1, <2>1 DEF Paging!Range
  <1>7. Paging!Range(s) \cup Paging!Range(t) \subseteq Paging!Range(u)
    BY <1>1, <1>5, <1>6 DEF Paging!Range
  <1>8. ASSUME NEW i \in 1..Len(u), NEW j \in 1..Len(u), u[i] = u[j]
        PROVE  i = j
    <2>1. CASE i \in 1..Len(s) /\ u[i] = s[i] /\ u[i] \in Paging!Range(s)
      <3>1. j \in 1..Len(s) /\ u[j] = s[j]
        BY <1>3, <1>8, <2>1
      <3> QED BY <1>1, <1>8, <2>1, <3>1 DEF Paging!IsInjective
    <2>2. CASE i - Len(s) \in 1..Len(t) /\ u[i] = t[i - Len(s)] /\ u[i] \in Paging!Range(t)
      <3>1. j - Len(s) \in 1..Len(t) /\ u[j] = t[j - Len(s)]
        BY <1>3, <1>8, <2>2
      <3>2. i - Len(s) = j - Len(s)
        BY <1>1, <1>8, <2>2, <3>1 DEF Paging!IsInjective
      <3> QED BY <1>1, <3>2
    <2> QED BY <1>3, <2>1, <2>2
  <1>9. Paging!IsInjective(u)
    BY <1>1, <1>8 DEF Paging!IsInjective
  <1> QED BY <1>1, <1>4, <1>7, <1>9 DEF u

(* What a record becomes when a page is added to it.                       *)
Turned(p, a, c, g, n) == [p EXCEPT !.at = a, !.cursor = c, !.got = g, !.pages = n]

LEMMA PageTurned ==
  ASSUME NEW p \in Reader, NEW a, NEW c, NEW g, NEW n
  PROVE  LET q == Turned(p, a, c, g, n) IN
         /\ q.at = a /\ q.cursor = c /\ q.got = g /\ q.pages = n /\ q.keyed = p.keyed
         /\ a \in {"reading", "read"} /\ c \in [value : Nat, key : Nat] /\ g \in Seq(table) /\ n \in 0..MaxPages =>
                q \in Reader
  <1>1. [p EXCEPT !.at = a] = [at |-> a, cursor |-> p.cursor, got |-> p.got, pages |-> p.pages, keyed |-> p.keyed]
    BY DEF Reader
  <1>2. [[at |-> a, cursor |-> p.cursor, got |-> p.got, pages |-> p.pages, keyed |-> p.keyed] EXCEPT !.cursor = c]
        = [at |-> a, cursor |-> c, got |-> p.got, pages |-> p.pages, keyed |-> p.keyed]
    OBVIOUS
  <1>3. [[at |-> a, cursor |-> c, got |-> p.got, pages |-> p.pages, keyed |-> p.keyed] EXCEPT !.got = g]
        = [at |-> a, cursor |-> c, got |-> g, pages |-> p.pages, keyed |-> p.keyed]
    OBVIOUS
  <1>4. [[at |-> a, cursor |-> c, got |-> g, pages |-> p.pages, keyed |-> p.keyed] EXCEPT !.pages = n]
        = [at |-> a, cursor |-> c, got |-> g, pages |-> n, keyed |-> p.keyed]
    OBVIOUS
  <1> DEFINE q == Turned(p, a, c, g, n)
  <1>5. q = [at |-> a, cursor |-> c, got |-> g, pages |-> n, keyed |-> p.keyed]
    BY <1>1, <1>2, <1>3, <1>4, Zenon DEF Turned
  <1>6. q.at = a /\ q.cursor = c /\ q.got = g /\ q.pages = n /\ q.keyed = p.keyed
    <2> HIDE DEF q
    <2> QED BY <1>5
  <1>7. a \in {"reading", "read"} /\ c \in [value : Nat, key : Nat] /\ g \in Seq(table) /\ n \in 0..MaxPages =>
            q \in Reader
    <2> HIDE DEF q
    <2> QED BY <1>5 DEF Reader
  <1> QED BY <1>6, <1>7

(* Fields of one record of a function updated one after the other.         *)
LEMMA PageRecorded ==
  ASSUME NEW f, NEW S, f = [s \in S |-> f[s]], NEW r \in S, NEW a, NEW c, NEW g, NEW n
  PROVE  [f EXCEPT ![r].at = a, ![r].cursor = c, ![r].got = @ \o g, ![r].pages = n]
         = [f EXCEPT ![r] = [f[r] EXCEPT !.at = a, !.cursor = c, !.got = @ \o g, !.pages = n]]
  <1>1. ASSUME NEW u
        PROVE  [f EXCEPT ![r] = u][r] = u
    OBVIOUS
  <1>2. ASSUME NEW u, NEW v
        PROVE  [[f EXCEPT ![r] = u] EXCEPT ![r] = v] = [f EXCEPT ![r] = v]
    OBVIOUS
  <1> QED BY <1>1, <1>2, Zenon

LEMMA PageFetches ==
  ASSUME PageAssumption, PageInv, NEW r \in Run, Paging!FetchSourcePage(r)
  PROVE  PageInv'
  <1>1. PICK p : p = pageRun[r]
    OBVIOUS
  <1> DEFINE rows == Paging!Query(p.cursor, p.keyed)
             kept == Paging!Kept(rows, p.keyed)
             next == Paging!NextCursor(p.cursor, kept, p.keyed)
             q(stage) == Turned(p, stage, next, p.got \o kept, p.pages + 1)
  <1>2. p.at = "reading" /\ UNCHANGED <<table, saved, keyColumn, delivered, fails>>
    BY <1>1 DEF Paging!FetchSourcePage
  <1>3. \/ pageRun' = [pageRun EXCEPT ![r] = Paging!Idle]
        \/ p.pages + 1 < MaxPages /\ pageRun' = [pageRun EXCEPT ![r] = q("reading")]
        \/ pageRun' = [pageRun EXCEPT ![r] = q("read")]
    <2>1. pageRun = [s \in Run |-> pageRun[s]]
      BY DEF PageInv
    <2>2. \/ pageRun' = [pageRun EXCEPT ![r] = Paging!Idle]
          \/ \E stage \in {"reading", "read"} :
               /\ stage = "reading" => p.pages + 1 < MaxPages
               /\ pageRun' = [pageRun EXCEPT ![r].at = stage, ![r].cursor = next, ![r].got = @ \o kept,
                                             ![r].pages = p.pages + 1]
      BY <1>1, Zenon DEF Paging!FetchSourcePage
    <2>3. ASSUME NEW stage
          PROVE  [pageRun EXCEPT ![r].at = stage, ![r].cursor = next, ![r].got = @ \o kept, ![r].pages = p.pages + 1]
                 = [pageRun EXCEPT ![r] = q(stage)]
      BY <1>1, <2>1, PageRecorded, Zenon DEF Turned
    <2> HIDE DEF q
    <2> QED BY <2>2, <2>3, Zenon
  <1>4. PageTable /\ p \in Reader /\ Reading(p)
    BY <1>1, <1>2 DEF PageInv, ReaderOK
  <1>5. /\ p.keyed \in BOOLEAN /\ CursorOK(p.cursor, p.keyed) /\ (p.keyed => Paging!Keyed)
        /\ (Source = "mongo" => p.keyed) /\ Mode(p.keyed) /\ p.pages < MaxPages /\ p.pages \in Nat /\ MaxPages \in Nat
        /\ p.got \in Seq(table) /\ Paging!IsInjective(p.got)
        /\ Covered(p.cursor, p.keyed, delivered \cup Paging!Range(p.got))
        /\ \A x \in Paging!Range(p.got) : /\ ~ Paging!Selects(x, p.cursor, p.keyed)
                                          /\ Paging!Selects(x, Paging!NoCursor, p.keyed)
    BY <1>2, <1>4, PageConstants DEF Reading, Reader, Mode, Paging!AlwaysKeyed
  <1> HIDE DEF rows, kept, next
  <1>6. /\ kept \in Seq(table) /\ Paging!IsInjective(kept) /\ CursorOK(next, p.keyed)
        /\ \A x \in Paging!Range(kept) : /\ x \in table /\ Paging!Selects(x, p.cursor, p.keyed)
                                         /\ ~ Paging!Selects(x, next, p.keyed)
        /\ \A x \in table : Paging!Selects(x, next, p.keyed) => Paging!Selects(x, p.cursor, p.keyed)
        /\ \A x \in table : Paging!Selects(x, p.cursor, p.keyed) =>
               x \in Paging!Range(kept) \/ Paging!Selects(x, next, p.keyed)
    BY <1>4, <1>5, PageTurn DEF rows, kept, next
  <1>7. /\ p.got \o kept \in Seq(table) /\ Paging!IsInjective(p.got \o kept)
        /\ Paging!Range(p.got \o kept) = Paging!Range(p.got) \cup Paging!Range(kept)
    <2>1. Paging!Range(p.got) \cap Paging!Range(kept) = {}
      BY <1>5, <1>6
    <2> QED BY <1>5, <1>6, <2>1, PageJoins
  <1>8. Paging!Range(p.got) \subseteq table
    BY <1>5 DEF Paging!Range
  <1>9. ASSUME NEW x \in Paging!Range(p.got \o kept)
        PROVE  ~ Paging!Selects(x, next, p.keyed) /\ Paging!Selects(x, Paging!NoCursor, p.keyed)
    <2>1. CASE x \in Paging!Range(p.got)
      BY <1>5, <1>6, <1>8, <2>1
    <2>2. CASE x \in Paging!Range(kept)
      <3>1. x \in PageRow /\ Paging!Selects(x, p.cursor, p.keyed) /\ ~ Paging!Selects(x, next, p.keyed)
        BY <1>4, <1>6, <2>2, PageRows
      <3>2. /\ p.cursor \in [value : Nat, key : Nat] /\ (p.cursor.value = 0 \/ ~ p.keyed => p.cursor.key = 0)
            /\ p.cursor.value # 0 => InPartition(p.cursor.value)
        BY <1>4, <1>5 DEF CursorOK, Reader
      <3> QED BY <1>5, <3>1, <3>2, PageBegins
    <2> QED BY <1>7, <2>1, <2>2
  <1>10. Covered(next, p.keyed, delivered \cup Paging!Range(p.got \o kept))
    <2> SUFFICES ASSUME NEW x \in Paging!Wanted, x \notin delivered \cup Paging!Range(p.got \o kept)
                 PROVE  Paging!Selects(x, next, p.keyed)
      BY DEF Covered
    <2>1. Paging!Selects(x, p.cursor, p.keyed) /\ x \in table
      BY <1>5, <1>7 DEF Covered, Paging!Wanted
    <2> QED BY <1>6, <1>7, <2>1
  <1>11. next \in [value : Nat, key : Nat]
    BY <1>4, <1>6, PageRows DEF CursorOK
  <1>12. ASSUME NEW stage \in {"reading", "read"}, stage = "reading" => p.pages + 1 < MaxPages
         PROVE  ReaderOK(q(stage))
    <2>1. p.pages + 1 \in 0..MaxPages
      BY <1>5
    <2>2. q(stage) \in Reader
      BY <1>4, <1>7, <1>11, <1>12, <2>1, PageTurned
    <2>3. /\ q(stage).at = stage /\ q(stage).cursor = next /\ q(stage).got = p.got \o kept
          /\ q(stage).pages = p.pages + 1 /\ q(stage).keyed = p.keyed
      <3>1. PICK g, n : g = p.got \o kept /\ n = p.pages + 1
        OBVIOUS
      <3>2. /\ Turned(p, stage, next, g, n).at = stage /\ Turned(p, stage, next, g, n).cursor = next
            /\ Turned(p, stage, next, g, n).got = g /\ Turned(p, stage, next, g, n).pages = n
            /\ Turned(p, stage, next, g, n).keyed = p.keyed
        BY <1>4, PageTurned
      <3> QED BY <3>1, <3>2, Zenon
    <2> HIDE DEF q
    <2>4. Reading(q(stage))
      BY <1>5, <1>6, <1>7, <1>9, <1>10, <1>12, <2>3 DEF Reading
    <2> QED BY <2>2, <2>3, <2>4 DEF ReaderOK
  <1>13. ReaderOK(q("read")) /\ (p.pages + 1 < MaxPages => ReaderOK(q("reading")))
    <2> HIDE DEF q
    <2> QED BY <1>12
  <1>14. fails' \in 0..MaxFails
    BY <1>2 DEF PageInv
  <1> HIDE DEF q
  <1> QED BY <1>2, <1>3, <1>13, <1>14, PageIdle, PageRunMoves

LEMMA PageIdles ==
  ASSUME PageAssumption, PageInv, UNCHANGED Paging!vars
  PROVE  PageInv'
  BY DEF PageInv, PageTable, CursorOK, Covered, ReaderOK, Reader, Reading, Paging!vars, Paging!Keyed, Paging!Wanted

LEMMA PageSteps ==
  ASSUME PageAssumption, PageInv, [Paging!Next]_(Paging!vars)
  PROVE  PageInv'
  <1>1. \A c \in Values : Paging!InsertRow(c) => PageInv'
    BY PageInserts
  <1>2. \A c \in Values, n \in 2..PageSize + 1 : Paging!InsertTies(c, n) => PageInv'
    <2>1. 2..PageSize + 1 \subseteq Nat
      BY PageConstants
    <2> QED BY <2>1, PageTies
  <1>3. \A edit \in Edits : Paging!EditKeyColumn(edit) => PageInv'
    BY PageEdits
  <1>4. ASSUME NEW r \in Run,
               \/ Paging!StartRun(r) \/ Paging!FetchSourcePage(r) \/ Paging!SinksWrite(r)
               \/ Paging!CommitSourceCursors(r) \/ Paging!RunFails(r)
        PROVE  PageInv'
    BY <1>4, PageRunStarts, PageFetches, PageDelivers, PageCommits, PageRunFails
  <1> QED BY <1>1, <1>2, <1>3, <1>4, PageIdles DEF Paging!Next

(* What the invariant says of the partition.                               *)
LEMMA PageRead ==
  ASSUME PageAssumption, PageInv, NEW r \in Run, NEW x \in Paging!Range(pageRun[r].got)
  PROVE  x \in table /\ (Source = "sql" /\ Window # <<>> => x.c >= Window[1] /\ x.c < Window[2])
  <1>1. PICK q : q = pageRun[r] /\ ReaderOK(q)
    BY DEF PageInv
  <1>2. q.at # "idle"
    <2>1. Paging!Range(Paging!Idle.got) = {}
      BY DEF Paging!Idle, Paging!Range
    <2> QED BY <1>1, <2>1 DEF ReaderOK
  <1>3. q \in Reader /\ Reading(q)
    BY <1>1, <1>2 DEF ReaderOK
  <1>4. x \in table
    <2>1. q.got \in Seq(table)
      BY <1>3 DEF Reader
    <2> QED BY <1>1, <2>1 DEF Paging!Range
  <1>5. Paging!Selects(x, Paging!NoCursor, q.keyed) /\ q.keyed \in BOOLEAN /\ x \in PageRow
    BY <1>1, <1>3, <1>4, PageRows DEF Reading, Reader, PageInv
  <1>6. Source = "sql" => WindowOK(x, 0)
    <2>1. PICK n : n = Paging!NoCursor
      OBVIOUS
    <2>2. n \in [value : Nat, key : Nat] /\ n.value = 0 /\ n.key = 0
      BY <2>1 DEF Paging!NoCursor, Paging!Null
    <2> QED BY <1>5, <2>1, <2>2, PageSelects
  <1> QED BY <1>4, <1>6 DEF WindowOK

LEMMA PageImplies ==
  ASSUME PageAssumption, PageInv
  PROVE  Paging!TypeOK /\ Paging!SavedIsDelivered /\ Paging!ReadOnce
  <1>1. Cardinality(table) \in 0..MaxKey
    BY PageRows DEF PageInv
  <1>2. \A x \in table : x.c \in Values /\ x.k \in 1..MaxKey
    BY <1>1, PageConstants DEF PageInv, PageTable
  <1>3. saved.value \in Values \cup {0} /\ saved.key \in 0..MaxKey
    BY <1>1, <1>2, PageConstants DEF PageInv, CursorOK
  <1>4. ASSUME NEW r \in Run
        PROVE  /\ pageRun[r].at \in {"idle", "reading", "read", "delivered"} /\ pageRun[r].pages \in 0..MaxPages
               /\ Paging!IsInjective(pageRun[r].got)
    <2>1. PICK q : q = pageRun[r] /\ ReaderOK(q)
      BY DEF PageInv
    <2>2. Paging!IsInjective(q.got)
      <3>1. Paging!IsInjective(Paging!Idle.got)
        BY DEF Paging!Idle, Paging!IsInjective
      <3> QED BY <2>1, <3>1 DEF ReaderOK, Reading
    <2> QED BY <2>1, <2>2 DEF ReaderOK, Reader
  <1>5. Paging!TypeOK
    <2>1. \A r \in Run : /\ Paging!Range(pageRun[r].got) \subseteq table
                         /\ Source = "sql" /\ Window # <<>> => 
                               \A x \in Paging!Range(pageRun[r].got) : x.c >= Window[1] /\ x.c < Window[2]
      BY PageRead
    <2> QED BY <1>2, <1>3, <1>4, <2>1 DEF Paging!TypeOK, Paging!Null, PageInv, PageTable
  <1>6. Paging!SavedIsDelivered
    BY DEF PageInv, Covered, Paging!SavedIsDelivered, Paging!Selected, Paging!Wanted
  <1> QED BY <1>4, <1>5, <1>6 DEF Paging!ReadOnce

(* SourcePaging: the saved cursor never passes over a row that has not     *)
(* reached the sinks, whatever the size of the pages and however many runs *)
(* overlap, fail and save their cursors out of order; and no run reads a   *)
(* row twice.                                                              *)
THEOREM PagesReadOnce ==
  ASSUME PageAssumption
  PROVE  Paging!Init /\ [][Paging!Next]_(Paging!vars) =>
             [](Paging!TypeOK /\ Paging!SavedIsDelivered /\ Paging!ReadOnce)
  BY PageStarts, PageSteps, PageImplies, PTL

-----------------------------------------------------------------------------
(* Streams.                                                                *)

CONSTANTS Executions, Partitions, HighWater, StreamPage, ContinueAfter, MaxRequests, MaxStreamFaults
VARIABLES offsets, sunk, batches, streamRow, streamFaults

Stream == INSTANCE StreamDirect WITH
    cursor <- offsets, wf <- batches, row <- streamRow, faults <- streamFaults,
    Execution <- Executions, Partition <- Partitions, Page <- StreamPage, MaxFaults <- MaxStreamFaults

Positions == UNION {[D -> Nat] : D \in SUBSET Partitions}
BatchStages == {"top", "paused", "cancel", "fetch", "nodes", "commit", "insert", "ended"}
StreamRun == [run : {1, 2}, pc : BatchStages, iteration : 0..ContinueAfter, paused : BOOLEAN,
              pending : [pause : Nat, resume : Nat, cancel : Nat], from : Positions, upto : Positions]
StreamRow == [phase : {"running", "cancelled"}, control : Stream!States, revision : Nat,
              delivered : Nat, undeliverable : BOOLEAN]

(* Everything of partition p up to offset n is among the records written.  *)
Sunk(p, n, records) == \A o \in 1..n : <<p, o>> \in records

(* A batch begins behind offsets that are all written, and may be          *)
(* committed once it is written itself.                                    *)
BatchOK(w, records) ==
    /\ w \in StreamRun
    /\ w.pc # "top" => w.iteration < ContinueAfter
    /\ w.paused => w.pc \in {"paused", "cancel", "ended"}
    /\ DOMAIN w.from = DOMAIN w.upto
    /\ \A p \in DOMAIN w.upto :
          /\ w.from[p] >= 1 /\ w.upto[p] >= w.from[p] /\ w.upto[p] <= HighWater[p]
          /\ Sunk(p, w.from[p] - 1, records)
          /\ w.pc \in {"commit", "insert"} => Sunk(p, w.upto[p], records)

OffsetsOK(f, records) ==
    /\ f \in Positions
    /\ \A p \in DOMAIN f : f[p] \in 1..HighWater[p] /\ Sunk(p, f[p], records)

StreamInv ==
    /\ OffsetsOK(offsets, sunk)
    /\ sunk \subseteq Stream!Record /\ streamFaults \in 0..MaxStreamFaults
    /\ batches \in [Executions -> StreamRun]
    /\ \A e \in Executions : BatchOK(batches[e], sunk)
    /\ streamRow \in [Executions -> StreamRow]
    /\ \A e \in Executions : streamRow[e].delivered <= streamRow[e].revision

LEMMA PositionsAre ==
  /\ Stream!None \in Positions /\ DOMAIN Stream!None = {}
  /\ \A f \in Positions : DOMAIN f \in SUBSET Partitions /\ f \in [DOMAIN f -> Nat]
  /\ \A D \in SUBSET Partitions : \A f \in [D -> Nat] : f \in Positions /\ DOMAIN f = D
  BY DEF Positions, Stream!None

LEMMA StreamRecords ==
  \A p \in Partitions : \A o \in 1..HighWater[p] : <<p, o>> \in Stream!Record
  BY DEF Stream!Record

(* More records written keep a batch and a cursor as they should be.       *)
LEMMA SunkGrows ==
  ASSUME NEW S, NEW T, S \subseteq T
  PROVE  /\ \A w : BatchOK(w, S) => BatchOK(w, T)
         /\ \A f : OffsetsOK(f, S) => OffsetsOK(f, T)
  BY DEF BatchOK, OffsetsOK, Sunk

LEMMA FreshBatch ==
  ASSUME Stream!StreamAssumption, NEW n \in {1, 2}, NEW S
  PROVE  BatchOK(Stream!FreshRun(n), S)
  <1>1. Stream!NoSignals \in [pause : Nat, resume : Nat, cancel : Nat]
    BY DEF Stream!NoSignals
  <1>2. PICK none : none = Stream!None /\ none \in Positions /\ DOMAIN none = {}
    BY PositionsAre
  <1>3. PICK s : s = Stream!NoSignals /\ s \in [pause : Nat, resume : Nat, cancel : Nat]
    BY <1>1
  <1> QED BY <1>2, <1>3 DEF BatchOK, StreamRun, BatchStages, Stream!FreshRun, Stream!StreamAssumption

LEMMA StreamStarts ==
  ASSUME Stream!StreamAssumption, Stream!Init
  PROVE  StreamInv
  <1>1. OffsetsOK(offsets, sunk)
    BY PositionsAre DEF Stream!Init, OffsetsOK
  <1>2. batches \in [Executions -> StreamRun] /\ \A e \in Executions : BatchOK(batches[e], sunk)
    <2>1. BatchOK(Stream!FreshRun(1), sunk)
      BY FreshBatch
    <2> QED BY <2>1 DEF Stream!Init, BatchOK
  <1>3. streamRow \in [Executions -> StreamRow] /\ \A e \in Executions : streamRow[e].delivered <= streamRow[e].revision
    BY DEF Stream!Init, StreamRow, Stream!States
  <1>4. sunk \subseteq Stream!Record /\ streamFaults \in 0..MaxStreamFaults
    BY DEF Stream!Init, Stream!StreamAssumption
  <1> QED BY <1>1, <1>2, <1>3, <1>4 DEF StreamInv

(* A step of one execution: its batch, and what it adds to the records.    *)
LEMMA BatchMoves ==
  ASSUME StreamInv, NEW e \in Executions, NEW q, BatchOK(q, sunk'),
         batches' = [batches EXCEPT ![e] = q],
         sunk \subseteq sunk', sunk' \subseteq Stream!Record, OffsetsOK(offsets', sunk'),
         UNCHANGED streamRow, streamFaults' \in 0..MaxStreamFaults
  PROVE  StreamInv'
  <1>1. \A x \in Executions : BatchOK(batches'[x], sunk')
    BY SunkGrows DEF StreamInv
  <1>2. batches' \in [Executions -> StreamRun]
    BY DEF StreamInv, BatchOK
  <1> QED BY <1>1, <1>2 DEF StreamInv

(* The same for a step that writes no record and moves no cursor.          *)
LEMMA BatchOnly ==
  ASSUME StreamInv, NEW e \in Executions, NEW q, BatchOK(q, sunk),
         batches' = [batches EXCEPT ![e] = q], UNCHANGED <<offsets, sunk, streamRow>>,
         streamFaults' \in 0..MaxStreamFaults
  PROVE  StreamInv'
  <1>1. OffsetsOK(offsets', sunk') /\ BatchOK(q, sunk') /\ sunk' \subseteq Stream!Record
    BY DEF StreamInv
  <1> QED BY <1>1, BatchMoves

LEMMA FaultTyped ==
  ASSUME Stream!StreamAssumption, StreamInv
  PROVE  (Stream!Fault => streamFaults' \in 0..MaxStreamFaults) /\ (UNCHANGED streamFaults => streamFaults' \in 0..MaxStreamFaults)
  BY DEF StreamInv, Stream!Fault, Stream!StreamAssumption

(* The next iteration forgets the batch.                                   *)
LEMMA NextBatch ==
  ASSUME StreamInv, NEW e \in Executions, batches[e].iteration < ContinueAfter, ~ batches[e].paused,
         Stream!StreamAssumption
  PROVE  \E q : Stream!NextIteration(e) = [batches EXCEPT ![e] = q] /\ \A S : BatchOK(q, S)
  <1>1. PICK w : w = batches[e] /\ w \in StreamRun /\ w.iteration < ContinueAfter /\ ~ w.paused
    BY DEF StreamInv
  <1>2. PICK none : none = Stream!None /\ none \in Positions /\ DOMAIN none = {}
    BY PositionsAre
  <1>3. PICK n : n = w.iteration + 1 /\ n \in 0..ContinueAfter
    BY <1>1 DEF StreamRun, Stream!StreamAssumption
  <1>4. PICK q : q = [w EXCEPT !.pc = "top", !.iteration = n, !.from = none, !.upto = none]
    OBVIOUS
  <1>5. /\ q \in StreamRun /\ q.pc = "top" /\ q.iteration = n /\ q.paused = w.paused
        /\ q.from = none /\ q.upto = none
    BY <1>1, <1>2, <1>3, <1>4 DEF StreamRun, BatchStages
  <1>6. \A S : BatchOK(q, S)
    BY <1>1, <1>2, <1>5 DEF BatchOK
  <1>7. Stream!NextIteration(e) = [batches EXCEPT ![e] = q]
    BY <1>1, <1>2, <1>3, <1>4 DEF Stream!NextIteration, StreamInv
  <1> QED BY <1>6, <1>7

LEMMA StreamDrains ==
  ASSUME Stream!StreamAssumption, StreamInv, NEW e \in Executions, Stream!Drain(e)
  PROVE  StreamInv'
  <1>1. PICK w : w = batches[e] /\ BatchOK(w, sunk)
    BY DEF StreamInv
  <1>2. PICK s : s = Stream!NoSignals /\ s \in [pause : Nat, resume : Nat, cancel : Nat]
    <2>1. Stream!NoSignals \in [pause : Nat, resume : Nat, cancel : Nat]
      BY DEF Stream!NoSignals
    <2> QED BY <2>1
  <1>3. BatchOK(Stream!AfterDrain(w), sunk)
    BY <1>1, <1>2 DEF Stream!AfterDrain, Stream!Drain, BatchOK, StreamRun, BatchStages
  <1>4. batches' = [batches EXCEPT ![e] = Stream!AfterDrain(w)] /\ UNCHANGED <<offsets, sunk, streamRow, streamFaults>>
    BY <1>1, Zenon DEF Stream!Drain
  <1>5. PICK q : q = Stream!AfterDrain(w)
    OBVIOUS
  <1>6. streamFaults' \in 0..MaxStreamFaults
    BY <1>4, FaultTyped
  <1> QED BY <1>3, <1>4, <1>5, <1>6, BatchOnly

LEMMA StreamResumes ==
  ASSUME Stream!StreamAssumption, StreamInv, NEW e \in Executions, Stream!WaitResume(e)
  PROVE  StreamInv'
  <1>1. PICK w : w = batches[e] /\ BatchOK(w, sunk)
    BY DEF StreamInv
  <1>2. UNCHANGED <<offsets, sunk, streamRow, streamFaults>> /\ w.pc = "paused"
    BY <1>1, Zenon DEF Stream!WaitResume
  <1>3. streamFaults' \in 0..MaxStreamFaults
    BY <1>2, FaultTyped
  <1>4. CASE w.pending.resume > 0 /\ batches' = [batches EXCEPT ![e].paused = FALSE, ![e].pending.resume = @ - 1, ![e].pc = "fetch"]
    <2>0. PICK s : s = [w.pending EXCEPT !.resume = @ - 1] /\ s \in [pause : Nat, resume : Nat, cancel : Nat]
      <3>1. [w.pending EXCEPT !.resume = @ - 1] \in [pause : Nat, resume : Nat, cancel : Nat]
        BY <1>1, <1>4 DEF BatchOK, StreamRun
      <3> QED BY <3>1
    <2>1. PICK q : q = [w EXCEPT !.paused = FALSE, !.pending = s, !.pc = "fetch"]
      OBVIOUS
    <2>2. batches' = [batches EXCEPT ![e] = q]
      <3>1. [w EXCEPT !.paused = FALSE, !.pending.resume = @ - 1, !.pc = "fetch"] = q
        BY <1>1, <2>0, <2>1 DEF BatchOK, StreamRun
      <3>2. batches' = [batches EXCEPT ![e] = [w EXCEPT !.paused = FALSE, !.pending.resume = @ - 1, !.pc = "fetch"]]
        BY <1>1, <1>4 DEF StreamInv
      <3> QED BY <3>1, <3>2
    <2>3. BatchOK(q, sunk)
      BY <1>1, <1>2, <1>4, <2>0, <2>1 DEF BatchOK, StreamRun, BatchStages
    <2> QED BY <1>2, <1>3, <2>2, <2>3, BatchOnly
  <1>5. CASE Stream!Move(e, "cancel")
    <2>1. PICK q : q = [w EXCEPT !.pc = "cancel"]
      OBVIOUS
    <2>2. batches' = [batches EXCEPT ![e] = q]
      BY <1>1, <1>5, <2>1 DEF StreamInv, Stream!Move
    <2>3. BatchOK(q, sunk)
      BY <1>1, <1>2, <2>1 DEF BatchOK, StreamRun, BatchStages
    <2> QED BY <1>2, <1>3, <2>2, <2>3, BatchOnly
  <1> QED BY <1>1, <1>4, <1>5 DEF Stream!WaitResume

(* The row of an execution moves alone, or with the batch that ends.       *)
LEMMA StreamRowMoves ==
  ASSUME StreamInv, NEW e \in Executions, NEW q, BatchOK(q, sunk), NEW r \in StreamRow, r.delivered <= r.revision,
         batches' = [batches EXCEPT ![e] = q], streamRow' = [streamRow EXCEPT ![e] = r],
         UNCHANGED <<offsets, sunk>>, streamFaults' \in 0..MaxStreamFaults
  PROVE  StreamInv'
  <1>1. OffsetsOK(offsets', sunk') /\ sunk' \subseteq Stream!Record
    BY DEF StreamInv
  <1>2. \A x \in Executions : BatchOK(batches'[x], sunk')
    BY DEF StreamInv
  <1>3. batches' \in [Executions -> StreamRun]
    BY DEF StreamInv, BatchOK
  <1>4. streamRow' \in [Executions -> StreamRow] /\ \A x \in Executions : streamRow'[x].delivered <= streamRow'[x].revision
    BY DEF StreamInv
  <1> QED BY <1>1, <1>2, <1>3, <1>4 DEF StreamInv

LEMMA StreamCancels ==
  ASSUME Stream!StreamAssumption, StreamInv, NEW e \in Executions, Stream!Cancel(e)
  PROVE  StreamInv'
  <1>1. PICK w : w = batches[e] /\ BatchOK(w, sunk)
    BY DEF StreamInv
  <1>2. PICK q : q = [w EXCEPT !.pc = "ended"]
    OBVIOUS
  <1>3. w.pc = "cancel" /\ batches' = [batches EXCEPT ![e] = q] /\ UNCHANGED <<offsets, sunk>>
    BY <1>1, <1>2 DEF Stream!Cancel, Stream!Move, StreamInv
  <1>4. BatchOK(q, sunk)
    BY <1>1, <1>2, <1>3 DEF BatchOK, StreamRun, BatchStages
  <1>5. CASE streamRow' = [streamRow EXCEPT ![e].phase = "cancelled"] /\ UNCHANGED streamFaults
    <2>1. PICK r : r = [streamRow[e] EXCEPT !.phase = "cancelled"]
      OBVIOUS
    <2>2. streamRow' = [streamRow EXCEPT ![e] = r] /\ r \in StreamRow /\ r.delivered <= r.revision
      BY <1>5, <2>1 DEF StreamInv, StreamRow
    <2> QED BY <1>3, <1>4, <1>5, <2>2, FaultTyped, StreamRowMoves
  <1>6. CASE Stream!Fault /\ UNCHANGED streamRow
    BY <1>3, <1>4, <1>6, FaultTyped, BatchOnly
  <1> QED BY <1>5, <1>6 DEF Stream!Cancel

(* A page begins behind the cursor, and stays inside the log.              *)
LEMMA StreamPages ==
  ASSUME Stream!StreamAssumption, StreamInv, NEW cur, OffsetsOK(cur, sunk),
         NEW n \in Stream!Pages(cur), NEW p \in Stream!Consumed(cur), n[p] > 0
  PROVE  /\ p \in Partitions /\ Stream!NextOffset(cur, p) \in Nat /\ n[p] \in Nat
         /\ Stream!NextOffset(cur, p) >= 1 /\ Stream!NextOffset(cur, p) + n[p] - 1 <= HighWater[p]
         /\ Sunk(p, Stream!NextOffset(cur, p) - 1, sunk)
  <1>1. /\ cur \in Positions /\ DOMAIN cur \subseteq Partitions
        /\ \A x \in DOMAIN cur : cur[x] \in 1..HighWater[x] /\ Sunk(x, cur[x], sunk)
    BY PositionsAre DEF OffsetsOK
  <1>2. p \in Partitions /\ HighWater[p] \in Nat
    BY <1>1 DEF Stream!Consumed, Stream!StreamAssumption
  <1>3. n[p] \in Nat /\ n[p] <= Stream!Available(cur, p)
    <2>1. /\ n \in [Stream!Consumed(cur) -> 0..StreamPage]
          /\ \A x \in Stream!Consumed(cur) : n[x] = 0 \/ n[x] <= Stream!Available(cur, x)
      BY Zenon DEF Stream!Pages
    <2>2. n[p] \in 0..StreamPage /\ (n[p] = 0 \/ n[p] <= Stream!Available(cur, p))
      BY <2>1
    <2> QED BY <2>2 DEF Stream!StreamAssumption
  <1>4. CASE p \in DOMAIN cur
    <2>1. Stream!NextOffset(cur, p) = cur[p] + 1 /\ cur[p] \in 1..HighWater[p] /\ Sunk(p, cur[p], sunk)
      BY <1>1, <1>4 DEF Stream!NextOffset
    <2>2. cur[p] + 1 - 1 = cur[p]
      BY <1>2, <2>1
    <2> QED BY <1>2, <1>3, <2>1, <2>2 DEF Stream!Available
  <1>5. CASE p \notin DOMAIN cur
    BY <1>2, <1>3, <1>5 DEF Stream!NextOffset, Stream!Available, Sunk
  <1> QED BY <1>4, <1>5

LEMMA StreamFetches ==
  ASSUME Stream!StreamAssumption, StreamInv, NEW e \in Executions, Stream!FetchSourcePage(e)
  PROVE  StreamInv'
  <1>1. PICK w : w = batches[e] /\ BatchOK(w, sunk) /\ w.pc = "fetch"
    BY DEF StreamInv, Stream!FetchSourcePage
  <1>2. UNCHANGED <<offsets, sunk, streamRow>>
    BY Zenon DEF Stream!FetchSourcePage
  <1>3. CASE Stream!Fault /\ batches' = Stream!NextIteration(e)
    <2>1. batches[e].iteration < ContinueAfter /\ ~ batches[e].paused
      BY <1>1 DEF BatchOK, StreamRun
    <2>2. PICK q : Stream!NextIteration(e) = [batches EXCEPT ![e] = q] /\ BatchOK(q, sunk)
      BY <2>1, NextBatch
    <2>3. batches' = [batches EXCEPT ![e] = q] /\ streamFaults' \in 0..MaxStreamFaults
      BY <1>3, <2>2, FaultTyped
    <2> QED BY <1>2, <2>2, <2>3, BatchOnly
  <1>4. ASSUME NEW cur, OffsetsOK(cur, sunk), NEW n \in Stream!Pages(cur), streamFaults' \in 0..MaxStreamFaults,
               batches' = Stream!Fetched(e, cur, n)
        PROVE  StreamInv'
    <2>1. PICK read : /\ read = {p \in Stream!Consumed(cur) : n[p] > 0}
                      /\ batches' = [batches EXCEPT ![e].pc = "nodes",
                                       ![e].from = [p \in read |-> Stream!NextOffset(cur, p)],
                                       ![e].upto = [p \in read |-> Stream!NextOffset(cur, p) + n[p] - 1]]
      BY <1>4 DEF Stream!Fetched
    <2>2. \A p \in read : /\ p \in Partitions /\ Stream!NextOffset(cur, p) \in Nat /\ n[p] \in Nat /\ n[p] > 0
                          /\ Stream!NextOffset(cur, p) >= 1 /\ Stream!NextOffset(cur, p) + n[p] - 1 <= HighWater[p]
                          /\ Sunk(p, Stream!NextOffset(cur, p) - 1, sunk)
      BY <1>4, <2>1, StreamPages
    <2>3. PICK from, upto : /\ from = [p \in read |-> Stream!NextOffset(cur, p)]
                            /\ upto = [p \in read |-> Stream!NextOffset(cur, p) + n[p] - 1]
      OBVIOUS
    <2>4. /\ from \in Positions /\ upto \in Positions /\ DOMAIN from = read /\ DOMAIN upto = read
          /\ \A p \in read : from[p] >= 1 /\ upto[p] >= from[p] /\ upto[p] <= HighWater[p] /\ Sunk(p, from[p] - 1, sunk)
      <3>1. read \in SUBSET Partitions /\ from \in [read -> Nat] /\ upto \in [read -> Nat]
        BY <2>2, <2>3
      <3>2. \A p \in read : from[p] = Stream!NextOffset(cur, p) /\ upto[p] = Stream!NextOffset(cur, p) + n[p] - 1
        BY <2>3
      <3>3. \A p \in read : from[p] >= 1 /\ upto[p] >= from[p] /\ upto[p] <= HighWater[p] /\ Sunk(p, from[p] - 1, sunk)
        BY <2>2, <3>2
      <3> QED BY <3>1, <3>3, PositionsAre
    <2>5. PICK q : q = [w EXCEPT !.pc = "nodes", !.from = from, !.upto = upto]
      OBVIOUS
    <2>6. batches' = [batches EXCEPT ![e] = q]
      BY <1>1, <2>1, <2>3, <2>5 DEF StreamInv
    <2>7. BatchOK(q, sunk)
      BY <1>1, <2>4, <2>5 DEF BatchOK, StreamRun, BatchStages
    <2> QED BY <1>2, <1>4, <2>6, <2>7, BatchOnly
  <1>5. CASE Stream!Fault /\ batches' = [batches EXCEPT ![e].pc = "nodes", ![e].from = Stream!None, ![e].upto = Stream!None]
    <2>1. PICK none : none = Stream!None /\ none \in Positions /\ DOMAIN none = {}
      BY PositionsAre
    <2>2. PICK q : q = [w EXCEPT !.pc = "nodes", !.from = none, !.upto = none]
      OBVIOUS
    <2>3. batches' = [batches EXCEPT ![e] = q]
      BY <1>1, <1>5, <2>1, <2>2 DEF StreamInv
    <2>4. BatchOK(q, sunk)
      BY <1>1, <2>1, <2>2 DEF BatchOK, StreamRun, BatchStages
    <2> QED BY <1>2, <1>5, <2>3, <2>4, FaultTyped, BatchOnly
  <1>6. OffsetsOK(offsets, sunk) /\ OffsetsOK(Stream!None, sunk)
    BY PositionsAre DEF StreamInv, OffsetsOK
  <1>7. \/ UNCHANGED streamFaults /\ \E n \in Stream!Pages(offsets) : batches' = Stream!Fetched(e, offsets, n)
        \/ Stream!Fault /\ \E n \in Stream!Pages(Stream!None) : batches' = Stream!Fetched(e, Stream!None, n)
        \/ Stream!Fault /\ batches' = [batches EXCEPT ![e].pc = "nodes", ![e].from = Stream!None, ![e].upto = Stream!None]
        \/ Stream!Fault /\ batches' = Stream!NextIteration(e)
    BY Zenon DEF Stream!FetchSourcePage
  <1>8. streamFaults' \in 0..MaxStreamFaults
    BY <1>7, FaultTyped
  <1>9. CASE \E n \in Stream!Pages(offsets) : batches' = Stream!Fetched(e, offsets, n)
    BY <1>4, <1>6, <1>8, <1>9
  <1>10. CASE \E n \in Stream!Pages(Stream!None) : batches' = Stream!Fetched(e, Stream!None, n)
    BY <1>4, <1>6, <1>8, <1>10
  <1> QED BY <1>3, <1>5, <1>7, <1>9, <1>10

LEMMA StreamNodesRun ==
  ASSUME Stream!StreamAssumption, StreamInv, NEW e \in Executions, Stream!RunNodes(e)
  PROVE  StreamInv'
  <1>1. PICK w : w = batches[e] /\ BatchOK(w, sunk) /\ w.pc = "nodes"
    BY DEF StreamInv, Stream!RunNodes
  <1>2. UNCHANGED <<offsets, streamRow>>
    BY Zenon DEF Stream!RunNodes
  <1>3. Stream!Batch(e) \subseteq Stream!Record
    BY DEF Stream!Batch
  <1>4. ASSUME NEW part \in SUBSET Stream!Batch(e), sunk' = sunk \cup part
        PROVE  sunk \subseteq sunk' /\ sunk' \subseteq Stream!Record /\ OffsetsOK(offsets', sunk')
    BY <1>2, <1>3, <1>4, SunkGrows DEF StreamInv
  <1>5. CASE sunk' = sunk \cup Stream!Batch(e) /\ Stream!Move(e, "commit") /\ UNCHANGED streamFaults
    <2>1. PICK q : q = [w EXCEPT !.pc = "commit"]
      OBVIOUS
    <2>2. batches' = [batches EXCEPT ![e] = q]
      BY <1>1, <1>5, <2>1 DEF StreamInv, Stream!Move
    <2>3. BatchOK(w, sunk')
      BY <1>1, <1>4, <1>5, SunkGrows
    <2>4. ASSUME NEW p \in DOMAIN w.upto
          PROVE  Sunk(p, w.upto[p], sunk')
      <3>1. /\ p \in Partitions /\ w.from[p] \in Nat /\ w.upto[p] \in Nat /\ HighWater[p] \in Nat
        BY <1>1, <2>4, PositionsAre DEF BatchOK, StreamRun, Stream!StreamAssumption
      <3>2. w.from[p] >= 1 /\ w.upto[p] <= HighWater[p] /\ Sunk(p, w.from[p] - 1, sunk)
        BY <1>1, <2>4 DEF BatchOK
      <3>3. ASSUME NEW o \in 1..w.upto[p], o >= w.from[p]
            PROVE  <<p, o>> \in Stream!Batch(e)
        <4>1. <<p, o>> \in Stream!Record
          BY <3>1, <3>2, StreamRecords
        <4>2. PICK r : r = <<p, o>> /\ r \in Stream!Record /\ r[1] = p /\ r[2] = o
          BY <4>1
        <4>3. r[1] \in DOMAIN batches[e].upto /\ r[2] \in batches[e].from[r[1]]..batches[e].upto[r[1]]
          BY <1>1, <2>4, <3>1, <3>3, <4>2
        <4> QED BY <4>2, <4>3 DEF Stream!Batch
      <3>4. \A o \in 1..w.upto[p] : o >= w.from[p] \/ o \in 1..(w.from[p] - 1)
        BY <3>1, <3>2
      <3> QED BY <1>5, <3>2, <3>3, <3>4 DEF Sunk
    <2>5. BatchOK(q, sunk')
      BY <1>1, <2>1, <2>3, <2>4 DEF BatchOK, StreamRun, BatchStages
    <2> QED BY <1>2, <1>4, <1>5, <2>2, <2>5, FaultTyped, BatchMoves
  <1>6. CASE Stream!Fault /\ batches' = Stream!NextIteration(e) /\ \E part \in SUBSET Stream!Batch(e) : sunk' = sunk \cup part
    <2>1. batches[e].iteration < ContinueAfter /\ ~ batches[e].paused
      BY <1>1 DEF BatchOK, StreamRun
    <2>2. PICK q : Stream!NextIteration(e) = [batches EXCEPT ![e] = q] /\ \A S : BatchOK(q, S)
      BY <2>1, NextBatch
    <2>3. batches' = [batches EXCEPT ![e] = q] /\ streamFaults' \in 0..MaxStreamFaults /\ BatchOK(q, sunk')
      BY <1>6, <2>2, FaultTyped
    <2>4. sunk \subseteq sunk' /\ sunk' \subseteq Stream!Record /\ OffsetsOK(offsets', sunk')
      BY <1>4, <1>6
    <2> QED BY <1>2, <2>3, <2>4, BatchMoves
  <1> QED BY <1>5, <1>6, Zenon DEF Stream!RunNodes

(* A batch that is written may be committed.                               *)
LEMMA Committable ==
  ASSUME Stream!StreamAssumption, NEW w, NEW S, BatchOK(w, S), w.pc \in {"commit", "insert"}
  PROVE  OffsetsOK(w.upto, S)
  <1>1. w.upto \in Positions /\ DOMAIN w.upto \subseteq Partitions /\ w.from \in Positions
    BY PositionsAre DEF BatchOK, StreamRun
  <1>2. ASSUME NEW p \in DOMAIN w.upto
        PROVE  w.upto[p] \in 1..HighWater[p] /\ Sunk(p, w.upto[p], S)
    <2>1. w.upto[p] \in Nat /\ w.from[p] \in Nat /\ HighWater[p] \in Nat
      BY <1>1, <1>2, PositionsAre DEF BatchOK, Stream!StreamAssumption
    <2> QED BY <1>2, <2>1 DEF BatchOK
  <1> QED BY <1>1, <1>2 DEF OffsetsOK

LEMMA OffsetsMerge ==
  ASSUME Stream!StreamAssumption, NEW f, NEW g, NEW S, OffsetsOK(f, S), OffsetsOK(g, S)
  PROVE  /\ OffsetsOK(Stream!MergeOffsets(f, g), S)
         /\ \A p \in DOMAIN f : p \in DOMAIN Stream!MergeOffsets(f, g) /\ Stream!MergeOffsets(f, g)[p] >= f[p]
  <1>1. PICK m : m = Stream!MergeOffsets(f, g)
    OBVIOUS
  <1>2. PICK D : D = DOMAIN f \cup DOMAIN g
    OBVIOUS
  <1>3. D \in SUBSET Partitions /\ f \in [DOMAIN f -> Nat] /\ g \in [DOMAIN g -> Nat]
    BY <1>2, PositionsAre DEF OffsetsOK
  <1>4. /\ DOMAIN m = D
        /\ \A p \in D : m[p] = IF p \in DOMAIN g /\ (p \notin DOMAIN f \/ g[p] > f[p]) THEN g[p] ELSE f[p]
        /\ m = [p \in D |-> m[p]]
    BY <1>1, <1>2 DEF Stream!MergeOffsets
  <1>5. ASSUME NEW p \in D
        PROVE  m[p] \in Nat /\ m[p] \in 1..HighWater[p] /\ Sunk(p, m[p], S) /\ (p \in DOMAIN f => m[p] >= f[p])
    <2>1. p \in DOMAIN g => g[p] \in Nat /\ g[p] \in 1..HighWater[p] /\ Sunk(p, g[p], S)
      BY <1>3 DEF OffsetsOK
    <2>2. p \in DOMAIN f => f[p] \in Nat /\ f[p] \in 1..HighWater[p] /\ Sunk(p, f[p], S)
      BY <1>3 DEF OffsetsOK
    <2>3. (m[p] = g[p] /\ p \in DOMAIN g) \/ (m[p] = f[p] /\ p \in DOMAIN f)
      BY <1>2, <1>4, <1>5
    <2>4. p \in DOMAIN f => m[p] >= f[p]
      BY <1>2, <1>4, <1>5, <2>1, <2>2
    <2> QED BY <2>1, <2>2, <2>3, <2>4
  <1>6. m \in [D -> Nat]
    BY <1>4, <1>5
  <1>7. m \in Positions
    BY <1>3, <1>6, PositionsAre
  <1>8. OffsetsOK(m, S)
    BY <1>4, <1>5, <1>7 DEF OffsetsOK
  <1>9. \A p \in DOMAIN f : p \in DOMAIN m /\ m[p] >= f[p]
    BY <1>2, <1>4, <1>5
  <1> QED BY <1>1, <1>8, <1>9

LEMMA StreamCommits ==
  ASSUME Stream!StreamAssumption, StreamInv, NEW e \in Executions, Stream!CommitSourceCursors(e)
  PROVE  StreamInv'
  <1>1. PICK w : w = batches[e] /\ BatchOK(w, sunk) /\ w.pc = "commit"
    BY DEF StreamInv, Stream!CommitSourceCursors
  <1>2. UNCHANGED <<sunk, streamRow>>
    BY Zenon DEF Stream!CommitSourceCursors
  <1>3. batches[e].iteration < ContinueAfter /\ ~ batches[e].paused
    BY <1>1 DEF BatchOK, StreamRun
  <1>4. PICK q : Stream!NextIteration(e) = [batches EXCEPT ![e] = q] /\ BatchOK(q, sunk)
    BY <1>3, NextBatch
  <1>5. CASE offsets' = Stream!MergeOffsets(offsets, batches[e].upto) /\ batches' = Stream!NextIteration(e) /\ UNCHANGED streamFaults
    <2>1. OffsetsOK(Stream!MergeOffsets(offsets, w.upto), sunk)
      BY <1>1, Committable, OffsetsMerge DEF StreamInv
    <2>2. OffsetsOK(offsets', sunk') /\ sunk' \subseteq Stream!Record /\ BatchOK(q, sunk') /\ sunk \subseteq sunk'
      BY <1>1, <1>2, <1>4, <1>5, <2>1 DEF StreamInv
    <2>3. batches' = [batches EXCEPT ![e] = q] /\ streamFaults' \in 0..MaxStreamFaults
      BY <1>4, <1>5, FaultTyped
    <2> QED BY <1>2, <2>2, <2>3, BatchMoves
  <1>6. CASE Stream!Move(e, "insert") /\ UNCHANGED <<offsets, streamFaults>>
    <2>1. PICK i : i = [w EXCEPT !.pc = "insert"]
      OBVIOUS
    <2>2. batches' = [batches EXCEPT ![e] = i]
      BY <1>1, <1>6, <2>1 DEF StreamInv, Stream!Move
    <2>3. BatchOK(i, sunk)
      BY <1>1, <2>1 DEF BatchOK, StreamRun, BatchStages
    <2> QED BY <1>2, <1>6, <2>2, <2>3, FaultTyped, BatchOnly
  <1>7. CASE Stream!Fault /\ batches' = Stream!NextIteration(e) /\ UNCHANGED offsets
    BY <1>2, <1>4, <1>7, FaultTyped, BatchOnly
  <1> QED BY <1>5, <1>6, <1>7, Zenon DEF Stream!CommitSourceCursors

LEMMA StreamInserts ==
  ASSUME Stream!StreamAssumption, StreamInv, NEW e \in Executions, Stream!InsertSourceCursors(e)
  PROVE  StreamInv'
  <1>1. PICK w : w = batches[e] /\ BatchOK(w, sunk) /\ w.pc = "insert"
    BY DEF StreamInv, Stream!InsertSourceCursors
  <1>2. batches[e].iteration < ContinueAfter /\ ~ batches[e].paused
    BY <1>1 DEF BatchOK, StreamRun
  <1>3. PICK q : Stream!NextIteration(e) = [batches EXCEPT ![e] = q] /\ BatchOK(q, sunk)
    BY <1>2, NextBatch
  <1>4. /\ UNCHANGED <<sunk, streamRow>> /\ offsets' = batches[e].upto /\ batches' = Stream!NextIteration(e)
        /\ UNCHANGED streamFaults \/ Stream!Fault
    BY Zenon DEF Stream!InsertSourceCursors
  <1>5. OffsetsOK(offsets', sunk') /\ sunk' \subseteq Stream!Record /\ BatchOK(q, sunk') /\ sunk \subseteq sunk'
    BY <1>1, <1>3, <1>4, Committable DEF StreamInv
  <1>6. batches' = [batches EXCEPT ![e] = q] /\ streamFaults' \in 0..MaxStreamFaults
    BY <1>3, <1>4, FaultTyped
  <1> QED BY <1>4, <1>5, <1>6, BatchMoves

LEMMA StreamContinues ==
  ASSUME Stream!StreamAssumption, StreamInv, NEW e \in Executions, Stream!ContinueAsNew(e)
  PROVE  StreamInv'
  <1>1. PICK n : n = (IF batches[e].run = 1 THEN 2 ELSE batches[e].run) /\ n \in {1, 2}
    <2>1. batches[e].run \in {1, 2}
      BY DEF StreamInv, StreamRun
    <2> QED BY <2>1
  <1>2. batches' = [batches EXCEPT ![e] = Stream!FreshRun(n)] /\ UNCHANGED <<offsets, sunk, streamRow, streamFaults>>
    BY <1>1, Zenon DEF Stream!ContinueAsNew
  <1>3. PICK q : q = Stream!FreshRun(n) /\ BatchOK(q, sunk)
    BY <1>1, FreshBatch
  <1> QED BY <1>2, <1>3, FaultTyped, BatchOnly

LEMMA StreamRequests ==
  ASSUME Stream!StreamAssumption, StreamInv, NEW e \in Executions, NEW s \in Stream!States, Stream!Request(e, s)
  PROVE  StreamInv'
  <1>1. PICK o : o = streamRow[e] /\ o \in StreamRow /\ o.delivered <= o.revision
    BY DEF StreamInv
  <1>2. PICK n : n = o.revision + 1 /\ n \in Nat /\ o.delivered <= n
    BY <1>1 DEF StreamRow
  <1>3. PICK r : r = [o EXCEPT !.control = s, !.revision = n]
    OBVIOUS
  <1>4. r \in StreamRow /\ r.delivered <= r.revision
    <2>1. r.delivered = o.delivered /\ r.revision = n
      BY <1>1, <1>3 DEF StreamRow
    <2>2. r \in StreamRow
      BY <1>1, <1>2, <1>3 DEF StreamRow
    <2> QED BY <1>2, <2>1, <2>2
  <1>5. streamRow' = [streamRow EXCEPT ![e] = r] /\ UNCHANGED <<offsets, sunk, batches, streamFaults>>
    BY <1>1, <1>2, <1>3 DEF Stream!Request, StreamInv
  <1>6. PICK w : w = batches[e] /\ BatchOK(w, sunk) /\ batches' = [batches EXCEPT ![e] = w]
    BY <1>5 DEF StreamInv
  <1> QED BY <1>4, <1>5, <1>6, FaultTyped, StreamRowMoves

LEMMA StreamDispatches ==
  ASSUME Stream!StreamAssumption, StreamInv, NEW e \in Executions, Stream!Dispatch(e)
  PROVE  StreamInv'
  <1>1. PICK w : w = batches[e] /\ BatchOK(w, sunk)
    BY DEF StreamInv
  <1>2. UNCHANGED <<offsets, sunk>> /\ streamFaults' \in 0..MaxStreamFaults
    BY FaultTyped, Zenon DEF Stream!Dispatch
  <1>3. PICK o : o = streamRow[e] /\ o \in StreamRow /\ o.revision <= o.revision
    BY DEF StreamInv, StreamRow
  <1>4. CASE /\ batches' = [batches EXCEPT ![e].pending[Stream!SignalOf[streamRow[e].control]] = @ + 1]
             /\ \/ streamRow' = [streamRow EXCEPT ![e].delivered = streamRow[e].revision]
                \/ UNCHANGED streamRow
    <2>1. PICK r \in {o, [o EXCEPT !.delivered = o.revision]} : streamRow' = [streamRow EXCEPT ![e] = r]
      BY <1>3, <1>4 DEF StreamInv
    <2>2. r \in StreamRow /\ r.delivered <= r.revision
      <3>1. o.delivered <= o.revision
        BY <1>3 DEF StreamInv
      <3> QED BY <1>3, <2>1, <3>1 DEF StreamRow
    <2>3. streamRow' = [streamRow EXCEPT ![e] = r]
      BY <2>1
    <2>4. PICK s : s = Stream!SignalOf[streamRow[e].control] /\ s \in {"pause", "resume", "cancel"}
      <3>1. streamRow[e].control \in {"active", "paused", "cancel_requested"}
        BY DEF StreamInv, StreamRow, Stream!States
      <3> QED BY <3>1 DEF Stream!SignalOf
    <2>5. PICK p : p = [w.pending EXCEPT ![s] = @ + 1] /\ p \in [pause : Nat, resume : Nat, cancel : Nat]
      <3>1. w.pending \in [pause : Nat, resume : Nat, cancel : Nat]
        BY <1>1 DEF BatchOK, StreamRun
      <3>2. [w.pending EXCEPT ![s] = @ + 1] \in [pause : Nat, resume : Nat, cancel : Nat]
        BY <2>4, <3>1
      <3> QED BY <3>2
    <2>6. PICK q : q = [w EXCEPT !.pending = p]
      OBVIOUS
    <2>7. batches' = [batches EXCEPT ![e] = q]
      BY <1>1, <1>4, <2>4, <2>5, <2>6 DEF StreamInv
    <2>8. BatchOK(q, sunk)
      BY <1>1, <2>5, <2>6 DEF BatchOK, StreamRun
    <2> QED BY <1>2, <2>2, <2>3, <2>7, <2>8, StreamRowMoves
  <1>5. CASE /\ streamRow' = [streamRow EXCEPT ![e].delivered = streamRow[e].revision, ![e].undeliverable = TRUE]
             /\ UNCHANGED batches
    <2>1. PICK r : r = [o EXCEPT !.delivered = o.revision, !.undeliverable = TRUE]
      OBVIOUS
    <2>2. r \in StreamRow /\ r.delivered <= r.revision
      BY <1>3, <2>1 DEF StreamRow
    <2>3. streamRow' = [streamRow EXCEPT ![e] = r] /\ batches' = [batches EXCEPT ![e] = w]
      BY <1>1, <1>3, <1>5, <2>1 DEF StreamInv
    <2> QED BY <1>1, <1>2, <2>2, <2>3, StreamRowMoves
  <1> QED BY <1>4, <1>5, Zenon DEF Stream!Dispatch

LEMMA StreamSteps ==
  ASSUME Stream!StreamAssumption, StreamInv, [Stream!Next]_(Stream!vars)
  PROVE  StreamInv'
  <1>1. ASSUME NEW e \in Executions, Stream!Workflow(e)
        PROVE  StreamInv'
    BY <1>1, StreamDrains, StreamResumes, StreamCancels, StreamFetches, StreamNodesRun, StreamCommits,
       StreamInserts, StreamContinues DEF Stream!Workflow
  <1>2. CASE UNCHANGED Stream!vars
    BY <1>2 DEF Stream!vars, StreamInv
  <1> QED BY <1>1, <1>2, StreamRequests, StreamDispatches, Zenon DEF Stream!Next

LEMMA StreamImplies ==
  ASSUME Stream!StreamAssumption, StreamInv
  PROVE  Stream!TypeOK /\ Stream!NothingSkipped
  <1>1. Stream!TypeOK
    BY PositionsAre DEF StreamInv, OffsetsOK, BatchOK, StreamRun, Stream!TypeOK
  <1>2. Stream!NothingSkipped
    BY DEF StreamInv, OffsetsOK, Sunk, Stream!NothingSkipped
  <1> QED BY <1>1, <1>2

(* Only the insertion of a first cursor may move an offset back.           *)
LEMMA StreamAdvances ==
  ASSUME Stream!StreamAssumption, StreamInv, [Stream!Next]_(Stream!vars)
  PROVE  Stream!OffsetsAdvance
  <1>1. CASE UNCHANGED offsets
    <2>1. \A p \in DOMAIN offsets : offsets[p] \in Nat
      BY PositionsAre DEF StreamInv, OffsetsOK
    <2> QED BY <1>1, <2>1 DEF Stream!OffsetsAdvance
  <1>2. ASSUME NEW e \in Executions, Stream!InsertSourceCursors(e)
        PROVE  Stream!OffsetsAdvance
    BY <1>2 DEF Stream!InsertSourceCursors, Stream!OffsetsAdvance
  <1>3. ASSUME NEW e \in Executions, Stream!CommitSourceCursors(e)
        PROVE  Stream!OffsetsAdvance
    <2>1. PICK w : w = batches[e] /\ BatchOK(w, sunk) /\ w.pc = "commit"
      BY <1>3 DEF StreamInv, Stream!CommitSourceCursors
    <2>2. UNCHANGED offsets \/ offsets' = Stream!MergeOffsets(offsets, w.upto)
      BY <1>3, <2>1, Zenon DEF Stream!CommitSourceCursors
    <2>3. \A p \in DOMAIN offsets : /\ p \in DOMAIN Stream!MergeOffsets(offsets, w.upto)
                                    /\ Stream!MergeOffsets(offsets, w.upto)[p] >= offsets[p]
      BY <2>1, Committable, OffsetsMerge DEF StreamInv
    <2> QED BY <1>1, <2>2, <2>3 DEF Stream!OffsetsAdvance
  <1>4. ASSUME NEW e \in Executions,
               \/ Stream!Drain(e) \/ Stream!WaitResume(e) \/ Stream!Cancel(e) \/ Stream!FetchSourcePage(e)
               \/ Stream!RunNodes(e) \/ Stream!ContinueAsNew(e) \/ Stream!Dispatch(e)
               \/ \E s \in Stream!States : Stream!Request(e, s)
        PROVE  UNCHANGED offsets
    BY <1>4, Zenon DEF Stream!Drain, Stream!WaitResume, Stream!Cancel, Stream!FetchSourcePage, Stream!RunNodes,
       Stream!ContinueAsNew, Stream!Dispatch, Stream!Request
  <1> QED BY <1>1, <1>2, <1>3, <1>4, Zenon DEF Stream!Next, Stream!Workflow, Stream!vars

(* StreamDirectWorkflow, CommitSourceCursors: whatever batches fail half   *)
(* way and however many executions of the pipeline read and commit in any  *)
(* order, every offset up to the committed one has been written by the     *)
(* sink, and a commit that finds a cursor never moves an offset back.      *)
THEOREM OffsetsAreWritten ==
  ASSUME Stream!StreamAssumption
  PROVE  Stream!Init /\ [][Stream!Next]_(Stream!vars) =>
             [](Stream!TypeOK /\ Stream!NothingSkipped) /\ [][Stream!OffsetsAdvance]_(Stream!vars)
  BY StreamStarts, StreamSteps, StreamImplies, StreamAdvances, PTL

-----------------------------------------------------------------------------
(* Spark jobs.                                                             *)

CONSTANTS MaxSnapshot, SparkAttempts, MaxLost, MaxSparkFaults
VARIABLES snapshot, sparkSink, written, state, app, spark, phase, submitLost, sparkFaults

Spark == INSTANCE SparkJob WITH
    table <- snapshot, sink <- sparkSink, wf <- spark, lost <- submitLost, faults <- sparkFaults,
    Execution <- Executions, MaxAttempts <- SparkAttempts, MaxFaults <- MaxSparkFaults

AppStates == {"none", "RUNNING", "COMPLETED", "FAILED"}
SparkApp == [state : AppStates, from : Nat, upto : Nat]
SparkRun == [pc : {"submit", "create", "poll", "commit", "mark", "noop", "cancel", "ended"}, attempt : Nat,
             from : Nat, input : Nat, before : Nat, cancel : BOOLEAN,
             error : {"", "submit", "failed", "status", "no output", "commit"}]

(* What an execution knows of the source when all answers arrive: it       *)
(* submits one application, which covers what it read and begins behind    *)
(* snapshots that are all in the sink.                                     *)
JobOK(w, a, done, top, records) ==
    /\ w \in SparkRun /\ a \in SparkApp
    /\ w.attempt \in 1..SparkAttempts + 1 /\ (w.pc # "ended" => w.attempt <= SparkAttempts) /\ w.input <= top
    /\ \A s \in 1..w.from : s \in records
    /\ w.pc = "noop" => \A s \in 1..w.input : s \in records
    /\ w.pc \in {"submit", "create", "noop"} => a.state = "none"
    /\ w.pc = "poll" => a.state # "none"
    /\ w.pc \in {"commit", "mark"} => a.state = "COMPLETED"
    /\ a.state # "none" => a.from = w.from /\ a.upto = w.input
    /\ a.state = "COMPLETED" => \A s \in 1..w.input : s \in records
    /\ done = "completed" => w.pc = "ended" /\ \A s \in 1..w.input : s \in records

SparkInv ==
    /\ snapshot \in 1..MaxSnapshot /\ written \subseteq 1..snapshot /\ state \in 0..snapshot
    /\ \A s \in 1..state : s \in written
    /\ spark \in [Executions -> SparkRun] /\ app \in [Executions -> SparkApp]
    /\ phase \in [Executions -> {"running", "completed", "failed", "cancelled"}]
    /\ submitLost = 0 /\ sparkSink \in Nat
    /\ \A e \in Executions : JobOK(spark[e], app[e], phase[e], snapshot, written)

SparkOK == Spark!SparkAssumption /\ MaxLost = 0

LEMMA SparkStarts ==
  ASSUME SparkOK, Spark!Init
  PROVE  SparkInv
  <1>1. PICK w : w = Spark!Start /\ w \in SparkRun
    <2>1. Spark!Start \in SparkRun
      BY DEF Spark!Start, SparkRun
    <2> QED BY <2>1
  <1>2. /\ w.pc = "submit" /\ w.attempt = 1 /\ w.from = 0 /\ w.input = 0
    BY <1>1 DEF Spark!Start
  <1>3. PICK a : a = Spark!NoApp /\ a \in SparkApp /\ a.state = "none"
    <2>1. Spark!NoApp \in SparkApp /\ Spark!NoApp.state = "none"
      BY DEF Spark!NoApp, SparkApp, AppStates
    <2> QED BY <2>1
  <1>4. snapshot \in 1..MaxSnapshot /\ written = {} /\ state = 0 /\ MaxSnapshot \in Nat
    BY DEF Spark!Init, SparkOK, Spark!SparkAssumption
  <1>5. JobOK(w, a, "running", snapshot, written)
    BY <1>1, <1>2, <1>3, <1>4 DEF JobOK, SparkOK, Spark!SparkAssumption
  <1>6. /\ spark = [e \in Executions |-> w] /\ app = [e \in Executions |-> a]
        /\ phase = [e \in Executions |-> "running"] /\ submitLost = 0 /\ sparkSink = 0
    BY <1>1, <1>3 DEF Spark!Init
  <1> QED BY <1>1, <1>3, <1>4, <1>5, <1>6 DEF SparkInv

(* More in the source, and more in the sink, keeps every job as it was.    *)
LEMMA JobsKeep ==
  ASSUME NEW w, NEW a, NEW done, NEW top \in Nat, NEW more \in Nat, NEW S, NEW T,
         JobOK(w, a, done, top, S), top <= more, S \subseteq T
  PROVE  JobOK(w, a, done, more, T)
  <1>1. w.input <= more
    <2>1. w.input \in Nat /\ w.input <= top
      BY DEF JobOK, SparkRun
    <2> QED BY <2>1
  <1>2. \A s \in S : s \in T
    OBVIOUS
  <1> QED BY <1>1, <1>2, Zenon DEF JobOK

(* A step of one execution.                                                *)
LEMMA JobMoves ==
  ASSUME SparkOK, SparkInv, NEW e \in Executions, NEW w, NEW a,
         NEW done \in {"running", "completed", "failed", "cancelled"},
         spark' = [spark EXCEPT ![e] = w], app' = [app EXCEPT ![e] = a], phase' = [phase EXCEPT ![e] = done],
         UNCHANGED <<snapshot, submitLost>>, sparkSink' \in Nat,
         written \subseteq written', written' \subseteq 1..snapshot,
         state' \in 0..snapshot, \A s \in 1..state' : s \in written',
         JobOK(w, a, done, snapshot, written')
  PROVE  SparkInv'
  <1>1. snapshot \in Nat /\ snapshot <= snapshot
    BY DEF SparkInv, SparkOK, Spark!SparkAssumption
  <1>2. \A x \in Executions : JobOK(spark[x], app[x], phase[x], snapshot, written')
    <2>1. \A x \in Executions : JobOK(spark[x], app[x], phase[x], snapshot, written)
      BY Zenon DEF SparkInv
    <2> QED BY <1>1, <2>1, JobsKeep, Zenon
  <1>3. \A x \in Executions : JobOK(spark'[x], app'[x], phase'[x], snapshot', written')
    BY <1>2 DEF SparkInv
  <1>4. /\ spark' \in [Executions -> SparkRun] /\ app' \in [Executions -> SparkApp]
        /\ phase' \in [Executions -> {"running", "completed", "failed", "cancelled"}]
    BY DEF SparkInv, JobOK
  <1> QED BY <1>3, <1>4 DEF SparkInv

(* The same for a step of the workflow alone.                              *)
LEMMA WorkflowMoves ==
  ASSUME SparkOK, SparkInv, NEW e \in Executions, NEW w, NEW done \in {"running", "completed", "failed", "cancelled"},
         spark' = [spark EXCEPT ![e] = w], phase' = [phase EXCEPT ![e] = done],
         UNCHANGED <<snapshot, sparkSink, written, state, app, submitLost>>,
         JobOK(w, app[e], done, snapshot, written)
  PROVE  SparkInv'
  <1>1. PICK a : a = app[e]
    OBVIOUS
  <1>2. /\ app' = [app EXCEPT ![e] = a] /\ JobOK(w, a, done, snapshot, written')
        /\ written \subseteq written' /\ written' \subseteq 1..snapshot /\ sparkSink' \in Nat
        /\ state' \in 0..snapshot /\ \A s \in 1..state' : s \in written'
    BY <1>1 DEF SparkInv
  <1> QED BY <1>2, JobMoves

LEMMA SparkIngests ==
  ASSUME SparkOK, SparkInv, Spark!Ingest
  PROVE  SparkInv'
  <1>1. PICK n : n = snapshot /\ n \in 1..MaxSnapshot /\ n < MaxSnapshot /\ MaxSnapshot \in Nat
    BY DEF SparkInv, SparkOK, Spark!SparkAssumption, Spark!Ingest
  <1>2. snapshot' = n + 1 /\ UNCHANGED <<sparkSink, written, state, app, spark, phase, submitLost, sparkFaults>>
    BY <1>1, Zenon DEF Spark!Ingest
  <1>3. n \in Nat /\ n + 1 \in Nat /\ n <= n + 1 /\ n + 1 \in 1..MaxSnapshot
    BY <1>1
  <1>4. \A e \in Executions : JobOK(spark[e], app[e], phase[e], n + 1, written)
    <2>1. \A e \in Executions : JobOK(spark[e], app[e], phase[e], n, written) /\ written \subseteq written
      BY <1>1, Zenon DEF SparkInv
    <2> QED BY <1>3, <2>1, JobsKeep
  <1>5. written \subseteq 1..n + 1 /\ state \in 0..n + 1
    BY <1>1, <1>3 DEF SparkInv
  <1> QED BY <1>2, <1>3, <1>4, <1>5 DEF SparkInv

(* Applications end on their own.                                          *)
LEMMA SparkCompletes ==
  ASSUME SparkOK, SparkInv, NEW e \in Executions, Spark!Complete(e)
  PROVE  SparkInv'
  <1>1. PICK w, o, done : /\ w = spark[e] /\ o = app[e] /\ done = phase[e] /\ o.state = "RUNNING"
                          /\ JobOK(w, o, done, snapshot, written)
                          /\ done \in {"running", "completed", "failed", "cancelled"}
    BY DEF SparkInv, Spark!Complete
  <1>2. PICK a : a = [o EXCEPT !.state = "COMPLETED"]
    OBVIOUS
  <1>3. /\ a \in SparkApp /\ a.state = "COMPLETED" /\ a.from = o.from /\ a.upto = o.upto
    BY <1>1, <1>2 DEF JobOK, SparkApp, AppStates
  <1>4. PICK top : top = snapshot /\ top \in Nat /\ w.input \in Nat /\ w.from \in Nat /\ w.input <= top
                   /\ o.from = w.from /\ o.upto = w.input
    <2>1. snapshot \in Nat
      BY DEF SparkInv, SparkOK, Spark!SparkAssumption
    <2>2. w.input \in Nat /\ w.from \in Nat /\ w.input <= snapshot /\ o.from = w.from /\ o.upto = w.input
      BY <1>1 DEF JobOK, SparkRun
    <2> QED BY <2>1, <2>2
  <1>5. /\ app' = [app EXCEPT ![e] = a] /\ spark' = [spark EXCEPT ![e] = w] /\ phase' = [phase EXCEPT ![e] = done]
        /\ UNCHANGED <<snapshot, state, submitLost>> /\ written' = written \cup Spark!Reads(o) /\ sparkSink' \in Nat
    BY <1>1, <1>2 DEF Spark!Complete, SparkInv
  <1>6. Spark!Reads(o) = IF w.from # 0 THEN (w.from + 1)..w.input ELSE 1..top
    BY <1>4 DEF Spark!Reads
  <1>7. written' \subseteq 1..top /\ written \subseteq written'
    <2>1. Spark!Reads(o) \subseteq 1..top
      BY <1>4, <1>6
    <2>2. written \subseteq 1..top
      BY <1>4 DEF SparkInv
    <2> QED BY <1>5, <2>1, <2>2
  <1>8. ASSUME NEW s \in 1..w.input
        PROVE  s \in written'
    <2>1. \A x \in 1..w.from : x \in written
      BY <1>1 DEF JobOK
    <2>2. s \in 1..w.from \/ s \in (w.from + 1)..w.input
      BY <1>4
    <2>3. w.from = 0 => s \in 1..top
      BY <1>4
    <2> QED BY <1>5, <1>6, <2>1, <2>2, <2>3
  <1>9. JobOK(w, a, done, snapshot, written')
    <2>1. JobOK(w, o, done, snapshot, written')
      <3>1. snapshot \in Nat /\ snapshot <= snapshot
        BY <1>4
      <3> QED BY <1>1, <1>7, <3>1, JobsKeep, Zenon
    <2> QED BY <1>1, <1>3, <1>8, <2>1 DEF JobOK
  <1>10. state' \in 0..snapshot /\ \A s \in 1..state' : s \in written'
    BY <1>5, <1>7 DEF SparkInv
  <1> QED BY <1>1, <1>4, <1>5, <1>7, <1>9, <1>10, JobMoves

LEMMA SparkFails ==
  ASSUME SparkOK, SparkInv, NEW e \in Executions, Spark!Fail(e)
  PROVE  SparkInv'
  <1>1. PICK w, o, done : /\ w = spark[e] /\ o = app[e] /\ done = phase[e] /\ o.state = "RUNNING"
                          /\ JobOK(w, o, done, snapshot, written)
                          /\ done \in {"running", "completed", "failed", "cancelled"}
    BY DEF SparkInv, Spark!Fail
  <1>2. PICK a : a = [o EXCEPT !.state = "FAILED"]
    OBVIOUS
  <1>3. /\ a \in SparkApp /\ a.state = "FAILED" /\ a.from = o.from /\ a.upto = o.upto
    BY <1>1, <1>2 DEF JobOK, SparkApp, AppStates
  <1>4. /\ app' = [app EXCEPT ![e] = a] /\ spark' = [spark EXCEPT ![e] = w] /\ phase' = [phase EXCEPT ![e] = done]
        /\ UNCHANGED <<snapshot, sparkSink, state, submitLost, written>>
    BY <1>1, <1>2 DEF Spark!Fail, Spark!world, SparkInv
  <1>5. JobOK(w, a, done, snapshot, written)
    BY <1>1, <1>3 DEF JobOK
  <1>6. /\ written \subseteq written' /\ written' \subseteq 1..snapshot /\ sparkSink' \in Nat /\ JobOK(w, a, done, snapshot, written')
        /\ state' \in 0..snapshot /\ \A s \in 1..state' : s \in written'
    BY <1>4, <1>5 DEF SparkInv
  <1> QED BY <1>1, <1>4, <1>6, JobMoves

LEMMA SparkReads ==
  ASSUME SparkOK, SparkInv, NEW e \in Executions, Spark!ReadSnapshots(e)
  PROVE  SparkInv'
  <1>1. PICK w, a, done : /\ w = spark[e] /\ a = app[e] /\ done = phase[e] /\ w.pc = "submit"
                          /\ JobOK(w, a, done, snapshot, written)
                          /\ done \in {"running", "completed", "failed", "cancelled"}
    BY DEF SparkInv, Spark!ReadSnapshots
  <1>2. UNCHANGED <<snapshot, sparkSink, written, state, app, submitLost>> /\ phase' = [phase EXCEPT ![e] = done]
    BY <1>1 DEF Spark!ReadSnapshots, Spark!world, SparkInv
  <1>3. PICK top : top = snapshot /\ top \in Nat /\ state \in Nat /\ \A s \in 1..state : s \in written
    BY DEF SparkInv, SparkOK, Spark!SparkAssumption
  <1>4. CASE state = snapshot /\ Spark!Move(e, "noop")
    <2>1. PICK q : q = [w EXCEPT !.pc = "noop"]
      OBVIOUS
    <2>2. spark' = [spark EXCEPT ![e] = q]
      BY <1>1, <1>4, <2>1 DEF Spark!Move, SparkInv
    <2>3. q \in SparkRun /\ q.pc = "noop" /\ q.attempt = w.attempt /\ q.from = w.from /\ q.input = w.input
      BY <1>1, <2>1 DEF JobOK, SparkRun
    <2>4. \A s \in 1..q.input : s \in written
      <3>1. PICK n : n = w.input /\ n \in Nat /\ n <= top
        BY <1>1, <1>3 DEF JobOK, SparkRun
      <3>2. \A s \in 1..n : s \in 1..top
        BY <1>3, <3>1
      <3> QED BY <1>3, <1>4, <2>3, <3>1, <3>2
    <2>5. JobOK(q, a, done, snapshot, written)
      BY <1>1, <2>3, <2>4 DEF JobOK
    <2> QED BY <1>1, <1>2, <1>4, <2>2, <2>5, WorkflowMoves
  <1>5. ASSUME NEW from \in {0, state}, NEW before \in {0, sparkSink}, Spark!Reading(e, from, before)
        PROVE  SparkInv'
    <2>1. PICK q : q = [w EXCEPT !.pc = "create", !.from = from, !.input = top, !.before = before]
      OBVIOUS
    <2>2. spark' = [spark EXCEPT ![e] = q]
      BY <1>1, <1>3, <1>5, <2>1 DEF SparkInv, Spark!Reading
    <2>3. from \in Nat /\ before \in Nat /\ \A s \in 1..from : s \in written
      BY <1>3 DEF SparkInv
    <2>4. q \in SparkRun /\ q.pc = "create" /\ q.attempt = w.attempt /\ q.from = from /\ q.input = top
      BY <1>1, <1>3, <2>1, <2>3 DEF JobOK, SparkRun
    <2>5. JobOK(q, a, done, snapshot, written)
      BY <1>1, <1>3, <2>3, <2>4 DEF JobOK
    <2> QED BY <1>1, <1>2, <2>2, <2>5, WorkflowMoves
  <1>6. \/ state = snapshot /\ Spark!Move(e, "noop")
        \/ Spark!Reading(e, state, sparkSink) \/ Spark!Reading(e, state, 0) \/ Spark!Reading(e, 0, sparkSink)
    BY Zenon DEF Spark!ReadSnapshots
  <1> QED BY <1>4, <1>5, <1>6

(* As no answer is lost, an execution creates its application once.        *)
LEMMA SparkCreates ==
  ASSUME SparkOK, SparkInv, NEW e \in Executions, Spark!Create(e)
  PROVE  SparkInv'
  <1>1. PICK w, o, done : /\ w = spark[e] /\ o = app[e] /\ done = phase[e] /\ w.pc = "create"
                          /\ JobOK(w, o, done, snapshot, written)
                          /\ done \in {"running", "completed", "failed", "cancelled"}
    BY DEF SparkInv, Spark!Create
  <1>2. PICK a : a = Spark!Application(e)
    OBVIOUS
  <1>3. a \in SparkApp /\ a.state = "RUNNING" /\ a.from = w.from /\ a.upto = w.input
    <2>1. w.from \in Nat /\ w.input \in Nat
      BY <1>1 DEF JobOK, SparkRun
    <2>2. a = [state |-> "RUNNING", from |-> w.from, upto |-> w.input]
      BY <1>1, <1>2 DEF Spark!Application
    <2> QED BY <2>1, <2>2 DEF SparkApp, AppStates
  <1>4. o.state = "none" /\ ~ submitLost < MaxLost /\ done # "completed"
    BY <1>1 DEF JobOK, SparkInv, SparkOK
  <1>5. UNCHANGED <<snapshot, sparkSink, written, state, phase, submitLost>>
    BY <1>4, Zenon DEF Spark!Create, Spark!world
  <1>6. phase' = [phase EXCEPT ![e] = done]
    BY <1>1, <1>5 DEF SparkInv
  <1>7. CASE app' = Spark!CreateOrAttach(e) /\ Spark!Move(e, "poll")
    <2>1. PICK q : q = [w EXCEPT !.pc = "poll"]
      OBVIOUS
    <2>2. app' = [app EXCEPT ![e] = a] /\ spark' = [spark EXCEPT ![e] = q]
      BY <1>1, <1>2, <1>4, <1>7, <2>1 DEF Spark!CreateOrAttach, Spark!Move, SparkInv
    <2>3. q \in SparkRun /\ q.pc = "poll" /\ q.attempt = w.attempt /\ q.from = w.from /\ q.input = w.input
      BY <1>1, <2>1 DEF JobOK, SparkRun
    <2>4. JobOK(q, a, done, snapshot, written)
      BY <1>1, <1>3, <2>3 DEF JobOK
    <2>5. /\ written \subseteq written' /\ written' \subseteq 1..snapshot /\ sparkSink' \in Nat
          /\ JobOK(q, a, done, snapshot, written')
          /\ state' \in 0..snapshot /\ \A s \in 1..state' : s \in written'
      BY <1>5, <2>4 DEF SparkInv
    <2> QED BY <1>1, <1>5, <1>6, <2>2, <2>5, JobMoves
  <1>8. CASE Spark!AttemptFails(e) /\ UNCHANGED app
    <2>1. PICK n : n = w.attempt /\ n \in Nat /\ n >= 1 /\ n <= SparkAttempts /\ SparkAttempts \in Nat
      <3>1. SparkAttempts \in Nat
        BY DEF SparkOK, Spark!SparkAssumption
      <3>2. w.attempt \in 1..SparkAttempts + 1 /\ w.attempt <= SparkAttempts
        <4>1. w.pc # "ended"
          BY <1>1
        <4> QED BY <1>1, <4>1, Zenon DEF JobOK
      <3> QED BY <3>1, <3>2
    <2>2. PICK pc, error : /\ pc = IF n = SparkAttempts THEN "ended" ELSE "submit"
                           /\ error = IF n = SparkAttempts THEN "submit" ELSE ""
      OBVIOUS
    <2>3. PICK q : q = [w EXCEPT !.attempt = n + 1, !.pc = pc, !.error = error]
      OBVIOUS
    <2>4. spark' = [spark EXCEPT ![e] = q]
      BY <1>1, <1>8, <2>1, <2>2, <2>3 DEF SparkInv, Spark!AttemptFails
    <2>5. /\ q \in SparkRun /\ q.pc = pc /\ pc \in {"submit", "ended"} /\ q.attempt = n + 1
          /\ q.from = w.from /\ q.input = w.input
      <3>1. w \in SparkRun /\ n + 1 \in Nat /\ pc \in {"submit", "ended"} /\ error \in {"", "submit"}
        <4>1. w \in SparkRun
          BY <1>1 DEF JobOK
        <4>2. pc \in {"submit", "ended"} /\ error \in {"", "submit"}
          BY <2>2, Zenon
        <4>3. n + 1 \in Nat
          BY <2>1
        <4> QED BY <4>1, <4>2, <4>3, Zenon
      <3> QED BY <2>3, <3>1 DEF SparkRun
    <2>6. q.attempt \in 1..SparkAttempts + 1 /\ (q.pc # "ended" => q.attempt <= SparkAttempts)
      <3>1. n + 1 \in 1..SparkAttempts + 1
        BY <2>1
      <3>2. n # SparkAttempts => n + 1 <= SparkAttempts
        BY <2>1
      <3>3. pc # "ended" => n # SparkAttempts
        BY <2>2
      <3> QED BY <2>5, <3>1, <3>2, <3>3
    <2>7. JobOK(q, o, done, snapshot, written)
      BY <1>1, <1>4, <2>5, <2>6 DEF JobOK
    <2> QED BY <1>1, <1>5, <1>6, <1>8, <2>4, <2>7, WorkflowMoves
  <1> QED BY <1>4, <1>7, <1>8, Zenon DEF Spark!Create

LEMMA SparkPolls ==
  ASSUME SparkOK, SparkInv, NEW e \in Executions, Spark!Poll(e)
  PROVE  SparkInv'
  <1>1. PICK w, o, done : /\ w = spark[e] /\ o = app[e] /\ done = phase[e] /\ w.pc = "poll"
                          /\ JobOK(w, o, done, snapshot, written)
                          /\ done \in {"running", "completed", "failed", "cancelled"}
    BY DEF SparkInv, Spark!Poll
  <1>2. UNCHANGED <<snapshot, sparkSink, written, state, app, submitLost>>
    BY Zenon DEF Spark!Poll, Spark!world
  <1>3. done # "completed"
    BY <1>1 DEF JobOK
  <1>4. \/ o.state = "COMPLETED" /\ Spark!Move(e, "commit") /\ UNCHANGED phase
        \/ Spark!Move(e, "cancel") /\ UNCHANGED phase
        \/ /\ \E error \in {"failed", "status"} : spark' = [spark EXCEPT ![e].pc = "ended", ![e].error = error]
           /\ phase' = [phase EXCEPT ![e] = "failed"] \/ UNCHANGED phase
    BY <1>1 DEF Spark!Poll, Spark!Status
  <1>5. CASE o.state = "COMPLETED" /\ Spark!Move(e, "commit") /\ UNCHANGED phase
    <2>1. PICK q : q = [w EXCEPT !.pc = "commit"]
      OBVIOUS
    <2>2. spark' = [spark EXCEPT ![e] = q] /\ phase' = [phase EXCEPT ![e] = done]
      BY <1>1, <1>5, <2>1 DEF Spark!Move, SparkInv
    <2>3. JobOK(q, o, done, snapshot, written)
      BY <1>1, <1>5, <2>1 DEF JobOK, SparkRun
    <2> QED BY <1>1, <1>2, <2>2, <2>3, WorkflowMoves
  <1>6. CASE Spark!Move(e, "cancel") /\ UNCHANGED phase
    <2>1. PICK q : q = [w EXCEPT !.pc = "cancel"]
      OBVIOUS
    <2>2. spark' = [spark EXCEPT ![e] = q] /\ phase' = [phase EXCEPT ![e] = done]
      BY <1>1, <1>6, <2>1 DEF Spark!Move, SparkInv
    <2>3. JobOK(q, o, done, snapshot, written)
      BY <1>1, <1>3, <2>1 DEF JobOK, SparkRun
    <2> QED BY <1>1, <1>2, <2>2, <2>3, WorkflowMoves
  <1>7. ASSUME NEW error \in {"failed", "status"}, spark' = [spark EXCEPT ![e].pc = "ended", ![e].error = error],
               NEW d \in {done, "failed"}, phase' = [phase EXCEPT ![e] = d]
        PROVE  SparkInv'
    <2>1. PICK q : q = [w EXCEPT !.pc = "ended", !.error = error]
      OBVIOUS
    <2>2. spark' = [spark EXCEPT ![e] = q]
      BY <1>1, <1>7, <2>1 DEF SparkInv
    <2>3. d # "completed" /\ d \in {"running", "completed", "failed", "cancelled"}
      BY <1>1, <1>3
    <2>4. q \in SparkRun /\ q.pc = "ended" /\ q.attempt = w.attempt /\ q.from = w.from /\ q.input = w.input
      BY <1>1, <2>1 DEF JobOK, SparkRun
    <2>5. JobOK(q, o, d, snapshot, written)
      BY <1>1, <2>3, <2>4 DEF JobOK
    <2> QED BY <1>1, <1>2, <1>7, <2>2, <2>3, <2>5, WorkflowMoves
  <1>8. UNCHANGED phase => phase' = [phase EXCEPT ![e] = done]
    BY <1>1 DEF SparkInv
  <1> QED BY <1>4, <1>5, <1>6, <1>7, <1>8, Zenon

LEMMA SparkCancels ==
  ASSUME SparkOK, SparkInv, NEW e \in Executions, Spark!CancelSparkJob(e)
  PROVE  SparkInv'
  <1>1. PICK w, o, done : /\ w = spark[e] /\ o = app[e] /\ done = phase[e] /\ w.pc = "cancel"
                          /\ JobOK(w, o, done, snapshot, written)
                          /\ done \in {"running", "completed", "failed", "cancelled"}
    BY DEF SparkInv, Spark!CancelSparkJob
  <1>2. PICK none : none = Spark!NoApp /\ none \in SparkApp /\ none.state = "none"
    <2>1. Spark!NoApp \in SparkApp /\ Spark!NoApp.state = "none"
      BY DEF Spark!NoApp, SparkApp, AppStates
    <2> QED BY <2>1
  <1>3. PICK q : q = [w EXCEPT !.pc = "ended"]
    OBVIOUS
  <1>4. /\ spark' = [spark EXCEPT ![e] = q] /\ UNCHANGED <<snapshot, sparkSink, written, state, submitLost>>
        /\ \E a \in {o, none} : app' = [app EXCEPT ![e] = a]
        /\ \E d \in {done, "cancelled"} : phase' = [phase EXCEPT ![e] = d]
    <2>1. app = [app EXCEPT ![e] = o] /\ phase = [phase EXCEPT ![e] = done] /\ spark' = [spark EXCEPT ![e] = q]
      BY <1>1, <1>3 DEF SparkInv, Spark!CancelSparkJob, Spark!Move
    <2>2. /\ UNCHANGED <<snapshot, sparkSink, written, state, submitLost>>
          /\ app' = [app EXCEPT ![e] = none] \/ app' = app
          /\ phase' = [phase EXCEPT ![e] = "cancelled"] \/ phase' = phase
      BY <1>2, Zenon DEF Spark!CancelSparkJob, Spark!world
    <2> QED BY <2>1, <2>2
  <1>5. done # "completed"
    BY <1>1 DEF JobOK
  <1>6. q \in SparkRun /\ q.pc = "ended" /\ q.attempt = w.attempt /\ q.from = w.from /\ q.input = w.input
    BY <1>1, <1>3 DEF JobOK, SparkRun
  <1>7. ASSUME NEW a \in {o, none}, NEW d \in {done, "cancelled"}
        PROVE  JobOK(q, a, d, snapshot, written)
    BY <1>1, <1>2, <1>5, <1>6 DEF JobOK
  <1>8. PICK a \in {o, none}, d \in {done, "cancelled"} : app' = [app EXCEPT ![e] = a] /\ phase' = [phase EXCEPT ![e] = d]
    BY <1>4
  <1>9. d \in {"running", "completed", "failed", "cancelled"}
    BY <1>1
  <1>10. /\ written \subseteq written' /\ written' \subseteq 1..snapshot /\ sparkSink' \in Nat /\ JobOK(q, a, d, snapshot, written')
         /\ state' \in 0..snapshot /\ \A s \in 1..state' : s \in written'
    BY <1>4, <1>7 DEF SparkInv
  <1> QED BY <1>4, <1>8, <1>9, <1>10, JobMoves

LEMMA SparkCommits ==
  ASSUME SparkOK, SparkInv, NEW e \in Executions, Spark!CommitSparkJob(e)
  PROVE  SparkInv'
  <1>1. PICK w, o, done : /\ w = spark[e] /\ o = app[e] /\ done = phase[e] /\ w.pc = "commit"
                          /\ JobOK(w, o, done, snapshot, written)
                          /\ done \in {"running", "completed", "failed", "cancelled"}
    BY DEF SparkInv, Spark!CommitSparkJob
  <1>2. UNCHANGED <<snapshot, sparkSink, written, app, phase, submitLost>>
    BY Zenon DEF Spark!CommitSparkJob, Spark!world
  <1>3. phase' = [phase EXCEPT ![e] = done] /\ done # "completed" /\ app' = [app EXCEPT ![e] = o]
    BY <1>1, <1>2 DEF SparkInv, JobOK
  <1>4. /\ o.state = "COMPLETED" /\ \A s \in 1..w.input : s \in written
        /\ w.input \in 0..snapshot
    <2>1. o.state = "COMPLETED" /\ (\A s \in 1..w.input : s \in written) /\ w.input \in Nat /\ w.input <= snapshot
      BY <1>1 DEF JobOK, SparkRun
    <2>2. snapshot \in Nat
      BY DEF SparkInv, SparkOK, Spark!SparkAssumption
    <2> QED BY <2>1, <2>2
  <1>5. CASE state' = spark[e].input /\ Spark!Move(e, "mark")
    <2>1. PICK q : q = [w EXCEPT !.pc = "mark"]
      OBVIOUS
    <2>2. spark' = [spark EXCEPT ![e] = q]
      BY <1>1, <1>5, <2>1 DEF Spark!Move, SparkInv
    <2>3. JobOK(q, o, done, snapshot, written)
      BY <1>1, <1>3, <2>1 DEF JobOK, SparkRun
    <2>4. /\ written \subseteq written' /\ written' \subseteq 1..snapshot /\ sparkSink' \in Nat
          /\ JobOK(q, o, done, snapshot, written')
          /\ state' \in 0..snapshot /\ \A s \in 1..state' : s \in written'
      BY <1>1, <1>2, <1>4, <1>5, <2>3 DEF SparkInv
    <2> QED BY <1>1, <1>2, <1>3, <2>2, <2>4, JobMoves
  <1>6. ASSUME NEW error \in {"no output", "commit"}, UNCHANGED state,
               spark' = [spark EXCEPT ![e].pc = "ended", ![e].error = error]
        PROVE  SparkInv'
    <2>1. PICK q : q = [w EXCEPT !.pc = "ended", !.error = error]
      OBVIOUS
    <2>2. spark' = [spark EXCEPT ![e] = q]
      BY <1>1, <1>6, <2>1 DEF SparkInv
    <2>3. q \in SparkRun /\ q.pc = "ended" /\ q.attempt = w.attempt /\ q.from = w.from /\ q.input = w.input
      BY <1>1, <2>1, Zenon DEF JobOK, SparkRun
    <2>4. JobOK(q, o, done, snapshot, written)
      BY <1>1, <1>3, <2>3 DEF JobOK
    <2> QED BY <1>1, <1>2, <1>3, <1>6, <2>2, <2>4, WorkflowMoves
  <1>7. \/ state' = spark[e].input /\ Spark!Move(e, "mark")
        \/ /\ UNCHANGED state
           /\ \E error \in {"no output", "commit"} : spark' = [spark EXCEPT ![e].pc = "ended", ![e].error = error]
    BY Zenon DEF Spark!CommitSparkJob
  <1> QED BY <1>5, <1>6, <1>7, Zenon

LEMMA SparkMarks ==
  ASSUME SparkOK, SparkInv, NEW e \in Executions, Spark!MarkCompleted(e)
  PROVE  SparkInv'
  <1>1. PICK w, o, done : /\ w = spark[e] /\ o = app[e] /\ done = phase[e] /\ w.pc \in {"mark", "noop"}
                          /\ JobOK(w, o, done, snapshot, written)
                          /\ done \in {"running", "completed", "failed", "cancelled"}
    BY DEF SparkInv, Spark!MarkCompleted
  <1>2. UNCHANGED <<snapshot, sparkSink, written, state, app, submitLost>>
    BY Zenon DEF Spark!MarkCompleted, Spark!world
  <1>3. PICK q : q = [w EXCEPT !.pc = "ended"]
    OBVIOUS
  <1>4. spark' = [spark EXCEPT ![e] = q] /\ \E d \in {done, "completed"} : phase' = [phase EXCEPT ![e] = d]
    <2>1. spark' = [spark EXCEPT ![e] = q] /\ phase = [phase EXCEPT ![e] = done]
      BY <1>1, <1>3 DEF SparkInv, Spark!MarkCompleted, Spark!Move
    <2>2. phase' = [phase EXCEPT ![e] = "completed"] \/ phase' = phase
      BY Zenon DEF Spark!MarkCompleted
    <2> QED BY <2>1, <2>2
  <1>5. \A s \in 1..w.input : s \in written
    BY <1>1 DEF JobOK
  <1>6. q \in SparkRun /\ q.pc = "ended" /\ q.attempt = w.attempt /\ q.from = w.from /\ q.input = w.input
    BY <1>1, <1>3 DEF JobOK, SparkRun
  <1>7. PICK d \in {done, "completed"} : phase' = [phase EXCEPT ![e] = d]
    BY <1>4
  <1>8. JobOK(q, o, d, snapshot, written) /\ d \in {"running", "completed", "failed", "cancelled"}
    BY <1>1, <1>5, <1>6 DEF JobOK
  <1> QED BY <1>1, <1>2, <1>4, <1>7, <1>8, WorkflowMoves

LEMMA SparkCancelRequested ==
  ASSUME SparkOK, SparkInv, NEW e \in Executions, Spark!RequestCancel(e)
  PROVE  SparkInv'
  <1>1. PICK w, o, done : /\ w = spark[e] /\ o = app[e] /\ done = phase[e]
                          /\ JobOK(w, o, done, snapshot, written)
                          /\ done \in {"running", "completed", "failed", "cancelled"}
    BY DEF SparkInv
  <1>2. PICK q : q = [w EXCEPT !.cancel = TRUE]
    OBVIOUS
  <1>3. /\ spark' = [spark EXCEPT ![e] = q] /\ phase' = [phase EXCEPT ![e] = done]
        /\ UNCHANGED <<snapshot, sparkSink, written, state, app, submitLost>>
    BY <1>1, <1>2 DEF Spark!RequestCancel, Spark!world, SparkInv
  <1>4. q \in SparkRun /\ q.pc = w.pc /\ q.attempt = w.attempt /\ q.from = w.from /\ q.input = w.input
    BY <1>1, <1>2 DEF JobOK, SparkRun
  <1>5. JobOK(q, o, done, snapshot, written)
    BY <1>1, <1>4 DEF JobOK
  <1> QED BY <1>1, <1>3, <1>5, WorkflowMoves

LEMMA SparkSteps ==
  ASSUME SparkOK, SparkInv, [Spark!Next]_(Spark!vars)
  PROVE  SparkInv'
  <1>1. ASSUME NEW e \in Executions, Spark!Workflow(e)
        PROVE  SparkInv'
    BY <1>1, SparkReads, SparkCreates, SparkPolls, SparkCancels, SparkCommits, SparkMarks, Zenon DEF Spark!Workflow
  <1>2. CASE UNCHANGED Spark!vars
    BY <1>2 DEF Spark!vars, SparkInv, JobOK
  <1> QED BY <1>1, <1>2, SparkIngests, SparkCompletes, SparkFails, SparkCancelRequested, Zenon DEF Spark!Next

LEMMA SparkImplies ==
  ASSUME SparkOK, SparkInv
  PROVE  Spark!TypeOK /\ Spark!NothingSkipped /\ Spark!CompletedHasOutput
  <1>1. \A e \in Executions : JobOK(spark[e], app[e], phase[e], snapshot, written)
    BY DEF SparkInv
  <1>2. Spark!TypeOK
    <2> QED BY <1>1 DEF SparkInv, JobOK, Spark!TypeOK
  <1>3. Spark!NothingSkipped
    BY DEF SparkInv, Spark!NothingSkipped
  <1>4. Spark!CompletedHasOutput
    BY <1>1 DEF JobOK, Spark!CompletedHasOutput
  <1> QED BY <1>2, <1>3, <1>4

(* SubmitSparkJob, CommitSparkJob: as long as the answer to a submission   *)
(* is not lost, every snapshot up to the committed one is in the sink,     *)
(* however many executions overlap, and an execution that says it          *)
(* completed leaves everything of the snapshot it read there.              *)
THEOREM SnapshotsAreWritten ==
  ASSUME SparkOK
  PROVE  Spark!Init /\ [][Spark!Next]_(Spark!vars) =>
             [](Spark!TypeOK /\ Spark!NothingSkipped /\ Spark!CompletedHasOutput)
  BY SparkStarts, SparkSteps, SparkImplies, PTL

-----------------------------------------------------------------------------
(* Transforms.                                                             *)

CONSTANTS Ops, LeftRecords, RightRecords, InputRows
VARIABLES op, a, b, passed, joinKeys, out

Trans == INSTANCE Transforms WITH Left <- LeftRecords, Right <- RightRecords, MaxRows <- InputRows

(* What the loops have done after n turns, as a relation between the rows  *)
(* R that they have written and the input s.                               *)
Key(s, i) == Trans!Id(s[i])
FirstAt(s, j) == \A i \in 1..(j - 1) : Key(s, i) # Key(s, j)
LastAt(s, j, n) == \A i \in (j + 1)..n : Key(s, i) # Key(s, j)

(* Each row is the first, or the last, with its key; each key has a row;   *)
(* and the rows are in the order of the first records of their keys.       *)
Deduped(R, s, n, keep) ==
    /\ \A i \in 1..Len(R) : \E j \in 1..n : R[i] = s[j] /\ (IF keep = "last" THEN LastAt(s, j, n) ELSE FirstAt(s, j))
    /\ \A i \in 1..Len(R) : \E j \in 1..n : FirstAt(s, j) /\ Key(s, j) = Key(R, i)
    /\ \A i, k \in 1..Len(R) : i < k => \E f, g \in 1..n : /\ f < g /\ FirstAt(s, f) /\ FirstAt(s, g)
                                                          /\ Key(s, f) = Key(R, i) /\ Key(s, g) = Key(R, k)
    /\ \A j \in 1..n : \E i \in 1..Len(R) : Key(R, i) = Key(s, j)

LEMMA DedupeTurn ==
  ASSUME NEW W, NEW R \in Seq(W), NEW s \in Seq(W), NEW n \in Nat, n < Len(s), NEW keep,
         Deduped(R, s, n, keep)
  PROVE  /\ Trans!DedupeRow(R, s[n + 1], keep) \in Seq(W)
         /\ Deduped(Trans!DedupeRow(R, s[n + 1], keep), s, n + 1, keep)
  <1> DEFINE x == s[n + 1]
             Q == Trans!DedupeRow(R, x, keep)
  <1>0. x \in W /\ n + 1 \in 1..Len(s) /\ Len(R) \in Nat /\ (\A i \in 1..Len(R) : R[i] \in W) /\ n + 1 \in Nat
    OBVIOUS
  <1>1. CASE Trans!PositionOf(R, x) = {}
    <2>1. \A i \in 1..Len(R) : Key(R, i) # Key(s, n + 1)
      BY <1>1 DEF Trans!PositionOf, Key
    <2>2. Q = Append(R, x)
      BY <1>1 DEF Trans!DedupeRow
    <2>3. /\ Q \in Seq(W) /\ Len(Q) = Len(R) + 1 /\ Q[Len(R) + 1] = x
          /\ \A i \in 1..Len(R) : Q[i] = R[i]
      BY <1>0, <2>2
    <2> HIDE DEF Q
    <2>4. \A j \in 1..n : Key(s, j) # Key(s, n + 1)
      BY <2>1 DEF Deduped
    <2>5. FirstAt(s, n + 1) /\ LastAt(s, n + 1, n + 1)
      BY <2>4 DEF FirstAt, LastAt
    <2>6. \A j \in 1..n : LastAt(s, j, n) => LastAt(s, j, n + 1)
      BY <2>4 DEF LastAt
    <2>7. (\A i \in 1..Len(R) : Key(Q, i) = Key(R, i)) /\ Key(Q, Len(R) + 1) = Key(s, n + 1)
      BY <2>3 DEF Key
    <2>8. \A i \in 1..Len(Q) : i \in 1..Len(R) \/ i = Len(R) + 1
      BY <1>0, <2>3
    <2>9. \A i \in 1..Len(Q) : \E j \in 1..(n + 1) : Q[i] = s[j] /\ (IF keep = "last" THEN LastAt(s, j, n + 1) ELSE FirstAt(s, j))
      <3>1. \A i \in 1..Len(R) : \E j \in 1..n : R[i] = s[j] /\ (IF keep = "last" THEN LastAt(s, j, n + 1) ELSE FirstAt(s, j))
        BY <2>6 DEF Deduped
      <3> QED BY <1>0, <2>3, <2>5, <2>8, <3>1
    <2>10. \A i \in 1..Len(Q) : \E j \in 1..(n + 1) : FirstAt(s, j) /\ Key(s, j) = Key(Q, i)
      <3>1. \A i \in 1..Len(R) : \E j \in 1..n : FirstAt(s, j) /\ Key(s, j) = Key(R, i)
        BY DEF Deduped
      <3>2. n + 1 \in 1..(n + 1) /\ \A j \in 1..n : j \in 1..(n + 1)
        OBVIOUS
      <3> QED BY <2>5, <2>7, <2>8, <3>1, <3>2
    <2>11. \A i, k \in 1..Len(Q) : i < k => \E f, g \in 1..(n + 1) : /\ f < g /\ FirstAt(s, f) /\ FirstAt(s, g)
                                                                  /\ Key(s, f) = Key(Q, i) /\ Key(s, g) = Key(Q, k)
      <3> SUFFICES ASSUME NEW i \in 1..Len(Q), NEW k \in 1..Len(Q), i < k
                   PROVE  \E f, g \in 1..(n + 1) : /\ f < g /\ FirstAt(s, f) /\ FirstAt(s, g)
                                                   /\ Key(s, f) = Key(Q, i) /\ Key(s, g) = Key(Q, k)
        OBVIOUS
      <3>1. i \in 1..Len(R)
        BY <1>0, <2>3
      <3>2. CASE k \in 1..Len(R)
        <4>1. PICK f \in 1..n, g \in 1..n : /\ f < g /\ FirstAt(s, f) /\ FirstAt(s, g)
                                            /\ Key(s, f) = Key(R, i) /\ Key(s, g) = Key(R, k)
          BY <3>1, <3>2 DEF Deduped
        <4> QED BY <2>7, <3>1, <3>2, <4>1
      <3>3. CASE k = Len(R) + 1
        <4>1. PICK f \in 1..n : FirstAt(s, f) /\ Key(s, f) = Key(R, i)
          BY <3>1 DEF Deduped
        <4> QED BY <1>0, <2>5, <2>7, <3>1, <3>3, <4>1
      <3> QED BY <2>8, <3>2, <3>3
    <2>12. \A j \in 1..(n + 1) : \E i \in 1..Len(Q) : Key(Q, i) = Key(s, j)
      <3>1. \A j \in 1..(n + 1) : j \in 1..n \/ j = n + 1
        OBVIOUS
      <3>2. 1..Len(R) \subseteq 1..Len(Q) /\ Len(R) + 1 \in 1..Len(Q)
        BY <1>0, <2>3
      <3>3. \A j \in 1..n : \E i \in 1..Len(R) : Key(R, i) = Key(s, j)
        BY DEF Deduped
      <3> QED BY <2>7, <3>1, <3>2, <3>3
    <2> QED BY <2>3, <2>9, <2>10, <2>11, <2>12 DEF Deduped, Q
  <1>2. CASE Trans!PositionOf(R, x) # {}
    <2>1. PICK p \in 1..Len(R) : Key(R, p) = Key(s, n + 1)
      BY <1>2 DEF Trans!PositionOf, Key
    <2>2. /\ Q \in Seq(W) /\ Len(Q) = Len(R)
          /\ \A i \in 1..Len(R) : Key(Q, i) = Key(R, i)
          /\ \A i \in 1..Len(R) : Q[i] = IF keep = "last" /\ Key(R, i) = Key(s, n + 1) THEN x ELSE R[i]
      <3>1. CASE keep = "last"
        <4>1. Q = [i \in 1..Len(R) |-> IF Trans!Id(R[i]) = Trans!Id(x) THEN x ELSE R[i]]
          BY <1>2, <3>1 DEF Trans!DedupeRow
        <4>2. Q \in Seq(W) /\ Len(Q) = Len(R)
          BY <1>0, <4>1
        <4>3. \A i \in 1..Len(R) : Q[i] = IF Key(R, i) = Key(s, n + 1) THEN x ELSE R[i]
          BY <4>1 DEF Key
        <4> HIDE DEF Q
        <4>4. \A i \in 1..Len(R) : Key(Q, i) = Key(R, i)
          BY <4>3 DEF Key
        <4> QED BY <3>1, <4>2, <4>3, <4>4
      <3>2. CASE keep # "last"
        <4>1. Q = R
          BY <1>2, <3>2 DEF Trans!DedupeRow
        <4> HIDE DEF Q
        <4> QED BY <3>2, <4>1
      <3> QED BY <3>1, <3>2
    <2> HIDE DEF Q
    <2>3. \A i \in 1..Len(Q) : \E j \in 1..(n + 1) : Q[i] = s[j] /\ (IF keep = "last" THEN LastAt(s, j, n + 1) ELSE FirstAt(s, j))
      <3> SUFFICES ASSUME NEW i \in 1..Len(R)
                   PROVE  \E j \in 1..(n + 1) : Q[i] = s[j] /\ (IF keep = "last" THEN LastAt(s, j, n + 1) ELSE FirstAt(s, j))
        BY <2>2
      <3>1. CASE keep = "last" /\ Key(R, i) = Key(s, n + 1)
        <4>1. LastAt(s, n + 1, n + 1)
          BY DEF LastAt
        <4> QED BY <1>0, <2>2, <3>1, <4>1
      <3>2. CASE ~(keep = "last" /\ Key(R, i) = Key(s, n + 1))
        <4>1. PICK j \in 1..n : R[i] = s[j] /\ (IF keep = "last" THEN LastAt(s, j, n) ELSE FirstAt(s, j))
          BY DEF Deduped
        <4>2. keep = "last" => LastAt(s, j, n + 1)
          <5>1. Key(s, j) = Key(R, i)
            BY <4>1 DEF Key
          <5> QED BY <3>2, <4>1, <5>1 DEF LastAt
        <4> QED BY <2>2, <3>2, <4>1, <4>2
      <3> QED BY <3>1, <3>2
    <2>4. \A i \in 1..Len(Q) : \E j \in 1..(n + 1) : FirstAt(s, j) /\ Key(s, j) = Key(Q, i)
      BY <2>2 DEF Deduped
    <2>5. \A i, k \in 1..Len(Q) : i < k => \E f, g \in 1..(n + 1) : /\ f < g /\ FirstAt(s, f) /\ FirstAt(s, g)
                                                                 /\ Key(s, f) = Key(Q, i) /\ Key(s, g) = Key(Q, k)
      <3> SUFFICES ASSUME NEW i \in 1..Len(R), NEW k \in 1..Len(R), i < k
                   PROVE  \E f, g \in 1..(n + 1) : /\ f < g /\ FirstAt(s, f) /\ FirstAt(s, g)
                                                   /\ Key(s, f) = Key(Q, i) /\ Key(s, g) = Key(Q, k)
        BY <2>2
      <3>0. \A v, w \in 1..Len(R) : v < w => \E f, g \in 1..n : /\ f < g /\ FirstAt(s, f) /\ FirstAt(s, g)
                                                               /\ Key(s, f) = Key(R, v) /\ Key(s, g) = Key(R, w)
        BY DEF Deduped
      <3>1. PICK f \in 1..n, g \in 1..n : /\ f < g /\ FirstAt(s, f) /\ FirstAt(s, g)
                                          /\ Key(s, f) = Key(R, i) /\ Key(s, g) = Key(R, k)
        BY <3>0
      <3>2. f \in 1..(n + 1) /\ g \in 1..(n + 1) /\ Key(Q, i) = Key(R, i) /\ Key(Q, k) = Key(R, k)
        BY <2>2
      <3> QED BY <3>1, <3>2
    <2>6. \A j \in 1..(n + 1) : \E i \in 1..Len(Q) : Key(Q, i) = Key(s, j)
      <3>1. \A j \in 1..(n + 1) : j \in 1..n \/ j = n + 1
        OBVIOUS
      <3>2. \A j \in 1..n : \E i \in 1..Len(R) : Key(R, i) = Key(s, j)
        BY DEF Deduped
      <3> QED BY <2>1, <2>2, <3>1, <3>2
    <2> QED BY <2>2, <2>3, <2>4, <2>5, <2>6 DEF Deduped, Q
  <1> QED BY <1>1, <1>2

LEMMA UpTo ==
  ASSUME NEW n \in Nat
  PROVE  IsFiniteSet(1..n) /\ Cardinality(1..n) = n
  BY FS_Interval

LEMMA Counted ==
  ASSUME NEW T
  PROVE  Trans!Cardinality(T) = Cardinality(T)
  BY Zenon DEF Cardinality, Trans!Cardinality

(* Rows that differ are as many as their set.                              *)
LEMMA CountRows ==
  ASSUME NEW W, NEW R \in Seq(W), NEW T, NEW f,
         f = [i \in 1..Len(R) |-> f[i]],
         \A i, k \in 1..Len(R) : i < k => f[i] # f[k],
         T = {f[i] : i \in 1..Len(R)}
  PROVE  IsFiniteSet(T) /\ Cardinality(T) = Len(R)
  <1>1. Len(R) \in Nat
    OBVIOUS
  <1>2. \A i, k \in 1..Len(R) : f[i] = f[k] => i = k
    BY <1>1
  <1>3. f \in Bijection(1..Len(R), T)
    <2>1. f \in [1..Len(R) -> T] /\ DOMAIN f = 1..Len(R)
      OBVIOUS
    <2>2. \A t \in T : \E i \in 1..Len(R) : f[i] = t
      OBVIOUS
    <2> QED BY <1>2, <2>1, <2>2 DEF Bijection, Injection, IsInjective, Surjection
  <1>4. IsFiniteSet(1..Len(R)) /\ Cardinality(1..Len(R)) = Len(R)
    BY <1>1, UpTo
  <1> QED BY <1>3, <1>4, FS_Bijection DEF ExistsBijection

(* The references of the model for the first and the last with a key.      *)
LEMMA FirstLast ==
  ASSUME NEW W, NEW s \in Seq(W), NEW j \in 1..Len(s)
  PROVE  /\ FirstAt(s, j) => Trans!FirstWith(s, Key(s, j)) = j
         /\ LastAt(s, j, Len(s)) => Trans!LastWith(s, Key(s, j)) = j
  <1>0. Len(s) \in Nat
    OBVIOUS
  <1>1. ASSUME FirstAt(s, j) PROVE Trans!FirstWith(s, Key(s, j)) = j
    <2> DEFINE P(i) == Trans!Id(s[i]) = Key(s, j) /\ \A k \in 1..(i - 1) : Trans!Id(s[k]) # Key(s, j)
    <2>1. P(j)
      BY <1>1 DEF FirstAt, Key
    <2>2. \A i \in 1..Len(s) : P(i) => i = j
      BY <1>0, <2>1 DEF Key
    <2>3. (CHOOSE i \in 1..Len(s) : P(i)) = j
      <3> HIDE DEF P
      <3> QED BY <2>1, <2>2
    <2> QED BY <2>3 DEF Trans!FirstWith
  <1>2. ASSUME LastAt(s, j, Len(s)) PROVE Trans!LastWith(s, Key(s, j)) = j
    <2> DEFINE P(i) == Trans!Id(s[i]) = Key(s, j) /\ \A k \in (i + 1)..Len(s) : Trans!Id(s[k]) # Key(s, j)
    <2>1. P(j)
      BY <1>2 DEF LastAt, Key
    <2>2. \A i \in 1..Len(s) : P(i) => i = j
      BY <1>0, <2>1 DEF Key
    <2>3. (CHOOSE i \in 1..Len(s) : P(i)) = j
      <3> HIDE DEF P
      <3> QED BY <2>1, <2>2
    <2> QED BY <2>3 DEF Trans!LastWith
  <1> QED BY <1>1, <1>2

LEMMA DedupeEnds ==
  ASSUME NEW W, NEW R \in Seq(W), NEW s \in Seq(W), NEW keep, Deduped(R, s, Len(s), keep)
  PROVE  /\ Len(R) = Cardinality({Trans!Id(r) : r \in Trans!Elements(s)})
         /\ \A i \in 1..Len(R) : R[i] = s[IF keep = "last" THEN Trans!LastWith(s, Trans!Id(R[i])) ELSE Trans!FirstWith(s, Trans!Id(R[i]))]
         /\ \A i, j \in 1..Len(R) : i < j => Trans!FirstWith(s, Trans!Id(R[i])) < Trans!FirstWith(s, Trans!Id(R[j]))
  <1>0. Len(R) \in Nat /\ Len(s) \in Nat
    OBVIOUS
  <1>1. \A i, k \in 1..Len(R) : i < k => Key(R, i) # Key(R, k)
    BY <1>0 DEF Deduped, FirstAt
  <1>2. Len(R) = Cardinality({Trans!Id(r) : r \in Trans!Elements(s)})
    <2> DEFINE f == [i \in 1..Len(R) |-> Key(R, i)]
    <2>1. {Trans!Id(r) : r \in Trans!Elements(s)} = {f[i] : i \in 1..Len(R)}
      <3>1. \A j \in 1..Len(s) : \E i \in 1..Len(R) : f[i] = Trans!Id(s[j])
        BY DEF Deduped, Key
      <3>2. \A i \in 1..Len(R) : \E j \in 1..Len(s) : f[i] = Trans!Id(s[j])
        BY DEF Deduped, Key
      <3>3. {Trans!Id(r) : r \in Trans!Elements(s)} = {Trans!Id(s[j]) : j \in 1..Len(s)}
        BY DEF Trans!Elements
      <3> HIDE DEF f
      <3>4. ASSUME NEW j \in 1..Len(s) PROVE Trans!Id(s[j]) \in {f[i] : i \in 1..Len(R)}
        <4>1. PICK i \in 1..Len(R) : f[i] = Trans!Id(s[j])
          BY <3>1
        <4> QED BY <4>1
      <3>5. ASSUME NEW i \in 1..Len(R) PROVE f[i] \in {Trans!Id(s[j]) : j \in 1..Len(s)}
        <4>1. PICK j \in 1..Len(s) : f[i] = Trans!Id(s[j])
          BY <3>2
        <4> QED BY <4>1
      <3> QED BY <3>3, <3>4, <3>5
    <2>2. \A i, k \in 1..Len(R) : i < k => f[i] # f[k]
      BY <1>1
    <2>3. f = [i \in 1..Len(R) |-> f[i]]
      OBVIOUS
    <2> HIDE DEF f
    <2> QED BY <2>1, <2>2, <2>3, CountRows
  <1>3. ASSUME NEW i \in 1..Len(R)
        PROVE  R[i] = s[IF keep = "last" THEN Trans!LastWith(s, Trans!Id(R[i])) ELSE Trans!FirstWith(s, Trans!Id(R[i]))]
    <2>1. PICK j \in 1..Len(s) : R[i] = s[j] /\ (IF keep = "last" THEN LastAt(s, j, Len(s)) ELSE FirstAt(s, j))
      BY DEF Deduped
    <2>2. Key(s, j) = Trans!Id(R[i])
      BY <2>1 DEF Key
    <2> QED BY <2>1, <2>2, FirstLast
  <1>4. ASSUME NEW i \in 1..Len(R), NEW k \in 1..Len(R), i < k
        PROVE  Trans!FirstWith(s, Trans!Id(R[i])) < Trans!FirstWith(s, Trans!Id(R[k]))
    <2>1. PICK f \in 1..Len(s), g \in 1..Len(s) : /\ f < g /\ FirstAt(s, f) /\ FirstAt(s, g)
                                                  /\ Key(s, f) = Key(R, i) /\ Key(s, g) = Key(R, k)
      BY <1>4 DEF Deduped
    <2>2. Trans!FirstWith(s, Key(s, f)) = f /\ Trans!FirstWith(s, Key(s, g)) = g
      BY <2>1, FirstLast
    <2> QED BY <2>1, <2>2 DEF Key
  <1> QED BY <1>2, <1>3, <1>4

-----------------------------------------------------------------------------
(* The records that conform, and their places in the output.               *)
GoodOf(s, schema, n) == {i \in 1..n : Trans!Meets(s[i], schema)}

Checked(R, failed, s, schema, n) ==
    /\ Len(R) + failed = n /\ Len(R) = Cardinality(GoodOf(s, schema, n))
    /\ \A i \in GoodOf(s, schema, n) : /\ Cardinality(GoodOf(s, schema, i)) \in 1..Len(R)
                                       /\ R[Cardinality(GoodOf(s, schema, i))] = s[i]
    /\ \A i \in 1..Len(R) : \E j \in GoodOf(s, schema, n) : R[i] = s[j]

LEMMA ConformsMeets ==
  ASSUME NEW r, NEW schema
  PROVE  Trans!Conforms(r, schema) <=> Trans!Meets(r, schema)
  BY DEF Trans!Conforms, Trans!Meets

LEMMA GoodGrows ==
  ASSUME NEW s, NEW schema, NEW n \in Nat
  PROVE  /\ IsFiniteSet(GoodOf(s, schema, n)) /\ Cardinality(GoodOf(s, schema, n)) \in Nat
         /\ Trans!Meets(s[n + 1], schema) =>
                Cardinality(GoodOf(s, schema, n + 1)) = Cardinality(GoodOf(s, schema, n)) + 1
         /\ ~Trans!Meets(s[n + 1], schema) => GoodOf(s, schema, n + 1) = GoodOf(s, schema, n)
         /\ \A i \in GoodOf(s, schema, n + 1) : i = n + 1 \/ i \in GoodOf(s, schema, n)
  <1>1. IsFiniteSet(1..n)
    BY FS_Interval
  <1>2. IsFiniteSet(GoodOf(s, schema, n))
    BY <1>1, FS_Subset DEF GoodOf
  <1>3. ASSUME Trans!Meets(s[n + 1], schema)
        PROVE  Cardinality(GoodOf(s, schema, n + 1)) = Cardinality(GoodOf(s, schema, n)) + 1
    <2>1. GoodOf(s, schema, n + 1) = GoodOf(s, schema, n) \cup {n + 1} /\ n + 1 \notin GoodOf(s, schema, n)
      BY <1>3 DEF GoodOf
    <2> QED BY <1>2, <2>1, FS_AddElement
  <1>4. ASSUME ~Trans!Meets(s[n + 1], schema) PROVE GoodOf(s, schema, n + 1) = GoodOf(s, schema, n)
    BY <1>4 DEF GoodOf
  <1>5. \A i \in GoodOf(s, schema, n + 1) : i = n + 1 \/ i \in GoodOf(s, schema, n)
    BY DEF GoodOf
  <1> QED BY <1>2, <1>3, <1>4, <1>5, FS_CardinalityType

LEMMA ContractTurn ==
  ASSUME NEW W, NEW R \in Seq(W), NEW s \in Seq(W), NEW n \in Nat, n < Len(s), NEW schema, NEW failed \in Nat,
         Checked(R, failed, s, schema, n)
  PROVE  /\ Trans!Meets(s[n + 1], schema) => Checked(Append(R, s[n + 1]), failed, s, schema, n + 1)
         /\ ~Trans!Meets(s[n + 1], schema) => Checked(R, failed + 1, s, schema, n + 1)
  <1>0. Len(R) \in Nat /\ s[n + 1] \in W /\ n + 1 \in Nat
    OBVIOUS
  <1>1. ASSUME Trans!Meets(s[n + 1], schema)
        PROVE  Checked(Append(R, s[n + 1]), failed, s, schema, n + 1)
    <2> DEFINE Q == Append(R, s[n + 1])
    <2>1. /\ Len(Q) = Len(R) + 1 /\ Q[Len(R) + 1] = s[n + 1] /\ Len(R) + 1 \in 1..Len(Q)
          /\ \A i \in 1..Len(R) : i \in 1..Len(Q) /\ Q[i] = R[i]
      BY <1>0
    <2>2. Len(Q) = Cardinality(GoodOf(s, schema, n + 1))
      BY <1>1, <2>1, GoodGrows DEF Checked
    <2>3. n + 1 \in GoodOf(s, schema, n + 1) /\ GoodOf(s, schema, n) \subseteq GoodOf(s, schema, n + 1)
      BY <1>1 DEF GoodOf
    <2> HIDE DEF Q
    <2>4. ASSUME NEW i \in GoodOf(s, schema, n + 1)
          PROVE  Cardinality(GoodOf(s, schema, i)) \in 1..Len(Q) /\ Q[Cardinality(GoodOf(s, schema, i))] = s[i]
      <3>1. CASE i = n + 1
        BY <2>1, <2>2, <3>1
      <3>2. CASE i \in GoodOf(s, schema, n)
        BY <2>1, <3>2 DEF Checked
      <3> QED BY <3>1, <3>2, GoodGrows
    <2>5. ASSUME NEW i \in 1..Len(Q) PROVE \E j \in GoodOf(s, schema, n + 1) : Q[i] = s[j]
      <3>1. CASE i = Len(R) + 1
        BY <2>1, <2>3, <3>1
      <3>2. CASE i \in 1..Len(R)
        BY <2>1, <2>3, <3>2 DEF Checked
      <3> QED BY <1>0, <2>1, <3>1, <3>2
    <2>6. Len(Q) + failed = n + 1
      BY <1>0, <2>1 DEF Checked
    <2> QED BY <2>2, <2>4, <2>5, <2>6 DEF Checked, Q
  <1>2. ASSUME ~Trans!Meets(s[n + 1], schema) PROVE Checked(R, failed + 1, s, schema, n + 1)
    <2>1. GoodOf(s, schema, n + 1) = GoodOf(s, schema, n)
      BY <1>2, GoodGrows
    <2> QED BY <1>0, <2>1 DEF Checked
  <1> QED BY <1>1, <1>2

-----------------------------------------------------------------------------
(* Rows and the set of them: those of a union are those of the input,      *)
(* once each.                                                              *)
United(R, s, n) ==
    /\ \A i \in 1..Len(R) : \E j \in 1..n : R[i] = s[j]
    /\ \A j \in 1..n : \E i \in 1..Len(R) : R[i] = s[j]
    /\ \A i, k \in 1..Len(R) : i < k => R[i] # R[k]

LEMMA UnionTurn ==
  ASSUME NEW W, NEW R \in Seq(W), NEW s \in Seq(W), NEW n \in Nat, n < Len(s), United(R, s, n)
  PROVE  /\ s[n + 1] \in Trans!Elements(R) => United(R, s, n + 1)
         /\ s[n + 1] \notin Trans!Elements(R) => United(Append(R, s[n + 1]), s, n + 1)
  <1>0. Len(R) \in Nat /\ s[n + 1] \in W /\ n + 1 \in 1..(n + 1) /\ \A j \in 1..(n + 1) : j \in 1..n \/ j = n + 1
    OBVIOUS
  <1>1. ASSUME s[n + 1] \in Trans!Elements(R) PROVE United(R, s, n + 1)
    <2>1. \E i \in 1..Len(R) : R[i] = s[n + 1]
      BY <1>1 DEF Trans!Elements
    <2>2. \A i \in 1..Len(R) : \E j \in 1..(n + 1) : R[i] = s[j]
      BY DEF United
    <2>3. \A j \in 1..(n + 1) : \E i \in 1..Len(R) : R[i] = s[j]
      BY <1>0, <2>1 DEF United
    <2> QED BY <2>2, <2>3 DEF United
  <1>2. ASSUME s[n + 1] \notin Trans!Elements(R) PROVE United(Append(R, s[n + 1]), s, n + 1)
    <2> DEFINE Q == Append(R, s[n + 1])
    <2>1. /\ Len(Q) = Len(R) + 1 /\ Q[Len(R) + 1] = s[n + 1] /\ Len(R) + 1 \in 1..Len(Q)
          /\ \A i \in 1..Len(R) : i \in 1..Len(Q) /\ Q[i] = R[i]
          /\ \A i \in 1..Len(Q) : i \in 1..Len(R) \/ i = Len(R) + 1
      BY <1>0
    <2>2. \A i \in 1..Len(R) : R[i] # s[n + 1]
      BY <1>2 DEF Trans!Elements
    <2> HIDE DEF Q
    <2>3. \A i \in 1..Len(Q) : \E j \in 1..(n + 1) : Q[i] = s[j]
      BY <1>0, <2>1 DEF United
    <2>4. \A j \in 1..(n + 1) : \E i \in 1..Len(Q) : Q[i] = s[j]
      BY <1>0, <2>1 DEF United
    <2>5. ASSUME NEW i \in 1..Len(Q), NEW k \in 1..Len(Q), i < k PROVE Q[i] # Q[k]
      <3>1. i \in 1..Len(R) /\ (k \in 1..Len(R) \/ k = Len(R) + 1)
        BY <1>0, <2>1, <2>5
      <3> QED BY <2>1, <2>2, <2>5, <3>1 DEF United
    <2> QED BY <2>3, <2>4, <2>5 DEF United, Q
  <1> QED BY <1>1, <1>2

-----------------------------------------------------------------------------
(* Each record of an append names its input; m records are of the first.   *)
Tag(s, m, i) == Trans!Object(Trans!Override([_source |-> IF i <= m THEN 0 ELSE 1], s[i].f))
Tagged(R, s, m, n) == Len(R) = n /\ \A i \in 1..n : R[i] = Tag(s, m, i)

LEMMA TagTurn ==
  ASSUME NEW W, NEW R \in Seq(W), NEW s, NEW m, NEW n \in Nat, Tagged(R, s, m, n), Tag(s, m, n + 1) \in W
  PROVE  Tagged(Append(R, Tag(s, m, n + 1)), s, m, n + 1)
  BY DEF Tagged

LEMMA TagFields ==
  ASSUME NEW s, NEW m, NEW i
  PROVE  LET r == Tag(s, m, i).f IN
         /\ r._source = (IF i <= m THEN 0 ELSE 1) /\ DOMAIN r = DOMAIN s[i].f \cup {"_source"}
         /\ \A f \in DOMAIN r \ {"_source"} : r[f] = s[i].f[f]
  BY DEF Tag, Trans!Object, Trans!Override

-----------------------------------------------------------------------------
(* The joins, of inputs in which a key comes once.                         *)
JoinOf(x, y, k) == Trans!Object(Trans!Override(Trans!IndexOf(y, k).f, Trans!IndexOf(x, k).f))
Passes(y, mode, k) == mode = "innerJoin" => Trans!Has(y, k)

Joint(R, ks, x, y, mode, n) ==
    /\ \A i \in 1..Len(R) : \E j \in 1..n : Passes(y, mode, ks[j]) /\ R[i] = JoinOf(x, y, ks[j])
    /\ \A j \in 1..n : Passes(y, mode, ks[j]) => \E i \in 1..Len(R) : R[i] = JoinOf(x, y, ks[j])
    /\ \A i, l \in 1..Len(R) : i < l =>
         \E f, g \in 1..n : f < g /\ R[i] = JoinOf(x, y, ks[f]) /\ R[l] = JoinOf(x, y, ks[g])

LEMMA JoinTurn ==
  ASSUME NEW W, NEW R \in Seq(W), NEW ks, NEW x, NEW y, NEW mode, NEW n \in Nat, Joint(R, ks, x, y, mode, n),
         JoinOf(x, y, ks[n + 1]) \in W
  PROVE  /\ ~Passes(y, mode, ks[n + 1]) => Joint(R, ks, x, y, mode, n + 1)
         /\ Passes(y, mode, ks[n + 1]) => Joint(Append(R, JoinOf(x, y, ks[n + 1])), ks, x, y, mode, n + 1)
  <1>0. Len(R) \in Nat /\ n + 1 \in 1..(n + 1) /\ (\A j \in 1..(n + 1) : j \in 1..n \/ j = n + 1) /\ 1..n \subseteq 1..(n + 1)
    OBVIOUS
  <1>1. ASSUME ~Passes(y, mode, ks[n + 1]) PROVE Joint(R, ks, x, y, mode, n + 1)
    BY <1>0, <1>1 DEF Joint
  <1>2. ASSUME Passes(y, mode, ks[n + 1]) PROVE Joint(Append(R, JoinOf(x, y, ks[n + 1])), ks, x, y, mode, n + 1)
    <2> DEFINE Q == Append(R, JoinOf(x, y, ks[n + 1]))
    <2>1. /\ Len(Q) = Len(R) + 1 /\ Q[Len(R) + 1] = JoinOf(x, y, ks[n + 1]) /\ Len(R) + 1 \in 1..Len(Q)
          /\ \A i \in 1..Len(R) : i \in 1..Len(Q) /\ Q[i] = R[i]
          /\ \A i \in 1..Len(Q) : i \in 1..Len(R) \/ i = Len(R) + 1
      BY <1>0
    <2> HIDE DEF Q
    <2>2. \A i \in 1..Len(Q) : \E j \in 1..(n + 1) : Passes(y, mode, ks[j]) /\ Q[i] = JoinOf(x, y, ks[j])
      BY <1>0, <1>2, <2>1 DEF Joint
    <2>3. \A j \in 1..(n + 1) : Passes(y, mode, ks[j]) => \E i \in 1..Len(Q) : Q[i] = JoinOf(x, y, ks[j])
      BY <1>0, <1>2, <2>1 DEF Joint
    <2>4. ASSUME NEW i \in 1..Len(Q), NEW l \in 1..Len(Q), i < l
          PROVE  \E f, g \in 1..(n + 1) : f < g /\ Q[i] = JoinOf(x, y, ks[f]) /\ Q[l] = JoinOf(x, y, ks[g])
      <3>1. i \in 1..Len(R)
        BY <1>0, <2>1, <2>4
      <3>2. CASE l \in 1..Len(R)
        BY <1>0, <2>1, <2>4, <3>1, <3>2 DEF Joint
      <3>3. CASE l = Len(R) + 1
        <4>1. PICK f \in 1..n : R[i] = JoinOf(x, y, ks[f])
          BY <3>1 DEF Joint
        <4> QED BY <1>0, <2>1, <3>1, <3>3, <4>1
      <3> QED BY <2>1, <3>2, <3>3
    <2> QED BY <2>2, <2>3, <2>4 DEF Joint, Q
  <1> QED BY <1>1, <1>2


LEMMA IndexOnly ==
  ASSUME NEW W, NEW s \in Seq(W), Trans!Distinct(s)
  PROVE  /\ \A i \in 1..Len(s) : Trans!IndexOf(s, Trans!Id(s[i])) = s[i]
         /\ \A k : ~Trans!Has(s, k) => Trans!IndexOf(s, k) = Trans!Object(<<>>)
  <1>1. ASSUME NEW i \in 1..Len(s) PROVE Trans!IndexOf(s, Trans!Id(s[i])) = s[i]
    <2> DEFINE At == {l \in 1..Len(s) : Trans!Id(s[l]) = Trans!Id(s[i])}
    <2>1. At = {i}
      BY DEF Trans!Distinct
    <2>2. (CHOOSE l \in At : \A j \in At : j <= l) = i
      <3>1. \A j \in At : j <= i
        BY <2>1
      <3> HIDE DEF At
      <3> QED BY <2>1, <3>1
    <2>3. Trans!IndexOf(s, Trans!Id(s[i])) =
              IF At = {} THEN Trans!Object(<<>>) ELSE s[CHOOSE l \in At : \A j \in At : j <= l]
      BY DEF Trans!IndexOf
    <2> HIDE DEF At
    <2> QED BY <2>1, <2>2, <2>3
  <1>2. ASSUME NEW k, ~Trans!Has(s, k) PROVE Trans!IndexOf(s, k) = Trans!Object(<<>>)
    <2>1. {l \in 1..Len(s) : Trans!Id(s[l]) = k} = {}
      BY <1>2 DEF Trans!Has
    <2> QED BY <2>1 DEF Trans!IndexOf
  <1> QED BY <1>1, <1>2

LEMMA OverNothing ==
  ASSUME NEW r, Trans!IsRecord(r), r.object
  PROVE  /\ Trans!Object(Trans!Override(<<>>, r.f)) = r
         /\ Trans!Object(Trans!Override(r.f, <<>>)) = r
  <1>1. DOMAIN <<>> = {}
    OBVIOUS
  <1>2. r.f = [x \in DOMAIN r.f |-> r.f[x]] /\ r.object = TRUE
    BY DEF Trans!IsRecord
  <1>3. Trans!Override(<<>>, r.f) = r.f /\ Trans!Override(r.f, <<>>) = r.f
    BY <1>1, <1>2 DEF Trans!Override
  <1>4. r = [object |-> TRUE, f |-> r.f]
    BY <1>2 DEF Trans!IsRecord
  <1> QED BY <1>3, <1>4 DEF Trans!Object

Joinable(W, x, y) ==
    /\ x \in Seq(W) /\ y \in Seq(W)
    /\ \A r \in W : Trans!IsRecord(r)
    /\ Trans!AllObjects(x) /\ Trans!AllObjects(y)

LEMMA JoinRows ==
  ASSUME NEW W, NEW x, NEW y, Joinable(W, x, y), Trans!Distinct(x), Trans!Distinct(y)
  PROVE  /\ \A i \in 1..Len(x), j \in 1..Len(y) : Trans!Id(x[i]) = Trans!Id(y[j]) =>
                JoinOf(x, y, Trans!Id(x[i])) = Trans!Object(Trans!Override(y[j].f, x[i].f))
         /\ \A i \in 1..Len(x) : ~Trans!Has(y, Trans!Id(x[i])) => JoinOf(x, y, Trans!Id(x[i])) = x[i]
         /\ \A j \in 1..Len(y) : ~Trans!Has(x, Trans!Id(y[j])) => JoinOf(x, y, Trans!Id(y[j])) = y[j]
         /\ \A k : Trans!Has(x, k) \/ Trans!Has(y, k) => Trans!Id(JoinOf(x, y, k)) = k
  <1>0. /\ x \in Seq(W) /\ y \in Seq(W) /\ Trans!Object(<<>>).f = <<>>
        /\ \A i \in 1..Len(x) : Trans!IsRecord(x[i]) /\ x[i].object
        /\ \A i \in 1..Len(y) : Trans!IsRecord(y[i]) /\ y[i].object
    BY DEF Joinable, Trans!AllObjects, Trans!Object
  <1>1. ASSUME NEW i \in 1..Len(x), NEW j \in 1..Len(y), Trans!Id(x[i]) = Trans!Id(y[j])
        PROVE  JoinOf(x, y, Trans!Id(x[i])) = Trans!Object(Trans!Override(y[j].f, x[i].f))
    <2>1. Trans!IndexOf(x, Trans!Id(x[i])) = x[i] /\ Trans!IndexOf(y, Trans!Id(x[i])) = y[j]
      BY <1>0, <1>1, IndexOnly
    <2> QED BY <2>1 DEF JoinOf
  <1>2. ASSUME NEW i \in 1..Len(x), ~Trans!Has(y, Trans!Id(x[i])) PROVE JoinOf(x, y, Trans!Id(x[i])) = x[i]
    <2>1. Trans!IndexOf(x, Trans!Id(x[i])) = x[i] /\ Trans!IndexOf(y, Trans!Id(x[i])) = Trans!Object(<<>>)
      BY <1>0, <1>2, IndexOnly
    <2> QED BY <1>0, <2>1, OverNothing DEF JoinOf
  <1>3. ASSUME NEW j \in 1..Len(y), ~Trans!Has(x, Trans!Id(y[j])) PROVE JoinOf(x, y, Trans!Id(y[j])) = y[j]
    <2>1. Trans!IndexOf(y, Trans!Id(y[j])) = y[j] /\ Trans!IndexOf(x, Trans!Id(y[j])) = Trans!Object(<<>>)
      BY <1>0, <1>3, IndexOnly
    <2> QED BY <1>0, <2>1, OverNothing DEF JoinOf
  <1>4. ASSUME NEW k, Trans!Has(x, k) \/ Trans!Has(y, k) PROVE Trans!Id(JoinOf(x, y, k)) = k
    <2>1. CASE Trans!Has(x, k) /\ Trans!Has(y, k)
      <3>1. PICK i \in 1..Len(x), j \in 1..Len(y) : Trans!Id(x[i]) = k /\ Trans!Id(y[j]) = k
        BY <2>1 DEF Trans!Has
      <3>2. JoinOf(x, y, k) = Trans!Object(Trans!Override(y[j].f, x[i].f))
        BY <1>1, <3>1
      <3> QED BY <3>1, <3>2 DEF Trans!Id, Trans!Object, Trans!Override
    <2>2. CASE Trans!Has(x, k) /\ ~Trans!Has(y, k)
      BY <1>2, <2>2 DEF Trans!Has
    <2>3. CASE ~Trans!Has(x, k) /\ Trans!Has(y, k)
      BY <1>3, <2>3 DEF Trans!Has
    <2> QED BY <1>4, <2>1, <2>2, <2>3
  <1> QED BY <1>1, <1>2, <1>3, <1>4

(* The keys of a join: those of the first input, for an outer join also    *)
(* those of the second, and once each if they come once in the first.      *)
KeysOf(ks, x, y, mode) ==
    /\ \A k : (\E j \in 1..Len(ks) : ks[j] = k) <=> (Trans!Has(x, k) \/ (mode = "outerJoin" /\ Trans!Has(y, k)))
    /\ Trans!Distinct(x) => \A i, j \in 1..Len(ks) : i < j => ks[i] # ks[j]

PairsOf(x, y) ==
    {Trans!Object(Trans!Override(m[2].f, m[1].f)) :
        m \in {p \in Trans!Elements(x) \X Trans!Elements(y) : Trans!Id(p[1]) = Trans!Id(p[2])}}

LEMMA JoinEnds ==
  ASSUME NEW W, NEW x, NEW y, Joinable(W, x, y), Trans!Distinct(x), Trans!Distinct(y),
         NEW V, NEW R \in Seq(V), NEW K, NEW ks \in Seq(K), NEW mode \in Trans!Joins,
         KeysOf(ks, x, y, mode), Joint(R, ks, x, y, mode, Len(ks))
  PROVE  /\ Trans!Elements(R) = PairsOf(x, y) \cup (IF mode = "innerJoin" THEN {} ELSE Trans!Lonely(x, y))
                                              \cup (IF mode = "outerJoin" THEN Trans!Lonely(y, x) ELSE {})
         /\ Len(R) = Cardinality(Trans!Elements(R))
  <1> DEFINE Result == PairsOf(x, y) \cup (IF mode = "innerJoin" THEN {} ELSE Trans!Lonely(x, y))
                                     \cup (IF mode = "outerJoin" THEN Trans!Lonely(y, x) ELSE {})
  <1>0. Len(R) \in Nat /\ Len(ks) \in Nat /\ x \in Seq(W) /\ y \in Seq(W) /\ mode \in {"innerJoin", "leftJoin", "outerJoin"}
    BY DEF Joinable, Trans!Joins
  <1>1. \A r : r \in PairsOf(x, y) <=>
             \E i \in 1..Len(x), j \in 1..Len(y) : /\ Trans!Id(x[i]) = Trans!Id(y[j])
                                                   /\ r = Trans!Object(Trans!Override(y[j].f, x[i].f))
    <2> DEFINE P == {p \in Trans!Elements(x) \X Trans!Elements(y) : Trans!Id(p[1]) = Trans!Id(p[2])}
    <2>1. PairsOf(x, y) = {Trans!Object(Trans!Override(m[2].f, m[1].f)) : m \in P}
      BY DEF PairsOf
    <2>2. ASSUME NEW i \in 1..Len(x), NEW j \in 1..Len(y), Trans!Id(x[i]) = Trans!Id(y[j])
          PROVE  Trans!Object(Trans!Override(y[j].f, x[i].f)) \in PairsOf(x, y)
      <3>1. <<x[i], y[j]>> \in P
        BY <2>2 DEF Trans!Elements
      <3> HIDE DEF P
      <3> QED BY <2>1, <3>1
    <2>3. ASSUME NEW r, r \in PairsOf(x, y)
          PROVE  \E i \in 1..Len(x), j \in 1..Len(y) : /\ Trans!Id(x[i]) = Trans!Id(y[j])
                                                        /\ r = Trans!Object(Trans!Override(y[j].f, x[i].f))
      <3>1. PICK m \in P : r = Trans!Object(Trans!Override(m[2].f, m[1].f))
        <4> HIDE DEF P
        <4> QED BY <2>1, <2>3
      <3>2. m[1] \in Trans!Elements(x) /\ m[2] \in Trans!Elements(y) /\ Trans!Id(m[1]) = Trans!Id(m[2])
        BY <3>1
      <3> QED BY <3>1, <3>2 DEF Trans!Elements
    <2> QED BY <2>2, <2>3
  <1>2. \A r : r \in Trans!Lonely(x, y) <=> \E i \in 1..Len(x) : ~Trans!Has(y, Trans!Id(x[i])) /\ r = x[i]
    BY DEF Trans!Lonely, Trans!Elements, Trans!Has
  <1>3. \A r : r \in Trans!Lonely(y, x) <=> \E j \in 1..Len(y) : ~Trans!Has(x, Trans!Id(y[j])) /\ r = y[j]
    BY DEF Trans!Lonely, Trans!Elements, Trans!Has
  <1>4. ASSUME NEW i \in 1..Len(R) PROVE R[i] \in Result
    <2>1. PICK j \in 1..Len(ks) : Passes(y, mode, ks[j]) /\ R[i] = JoinOf(x, y, ks[j])
      BY DEF Joint
    <2>2. PICK k : k = ks[j]
      OBVIOUS
    <2>3. Trans!Has(x, k) \/ (mode = "outerJoin" /\ Trans!Has(y, k))
      BY <2>2 DEF KeysOf
    <2>4. CASE Trans!Has(x, k) /\ Trans!Has(y, k)
      <3>1. PICK l \in 1..Len(x), m \in 1..Len(y) : Trans!Id(x[l]) = k /\ Trans!Id(y[m]) = k
        BY <2>4 DEF Trans!Has
      <3>2. R[i] = Trans!Object(Trans!Override(y[m].f, x[l].f))
        BY <2>1, <2>2, <3>1, JoinRows
      <3> QED BY <1>1, <3>1, <3>2
    <2>5. CASE Trans!Has(x, k) /\ ~Trans!Has(y, k)
      <3>1. PICK l \in 1..Len(x) : Trans!Id(x[l]) = k
        BY <2>5 DEF Trans!Has
      <3>2. R[i] = x[l] /\ ~Trans!Has(y, Trans!Id(x[l]))
        BY <2>1, <2>2, <2>5, <3>1, JoinRows
      <3>3. mode # "innerJoin"
        BY <2>1, <2>2, <2>5 DEF Passes
      <3> QED BY <1>2, <3>2, <3>3
    <2>6. CASE ~Trans!Has(x, k)
      <3>1. PICK m \in 1..Len(y) : Trans!Id(y[m]) = k
        BY <2>3, <2>6 DEF Trans!Has
      <3>2. R[i] = y[m] /\ ~Trans!Has(x, Trans!Id(y[m]))
        BY <2>1, <2>2, <2>6, <3>1, JoinRows
      <3> QED BY <1>3, <2>3, <2>6, <3>2
    <2> QED BY <2>4, <2>5, <2>6
  <1>5. ASSUME NEW k, Trans!Has(x, k) \/ (mode = "outerJoin" /\ Trans!Has(y, k)), Passes(y, mode, k)
        PROVE  \E i \in 1..Len(R) : R[i] = JoinOf(x, y, k)
    <2>1. PICK j \in 1..Len(ks) : ks[j] = k
      BY <1>5 DEF KeysOf
    <2> QED BY <1>5, <2>1 DEF Joint
  <1>6. ASSUME NEW r, r \in Result PROVE \E i \in 1..Len(R) : R[i] = r
    <2>1. CASE r \in PairsOf(x, y)
      <3>1. PICK i \in 1..Len(x), j \in 1..Len(y) : /\ Trans!Id(x[i]) = Trans!Id(y[j])
                                                    /\ r = Trans!Object(Trans!Override(y[j].f, x[i].f))
        BY <1>1, <2>1
      <3>2. Trans!Has(x, Trans!Id(x[i])) /\ Trans!Has(y, Trans!Id(x[i])) /\ r = JoinOf(x, y, Trans!Id(x[i]))
        BY <3>1, JoinRows DEF Trans!Has
      <3> QED BY <1>5, <3>2 DEF Passes
    <2>2. CASE mode # "innerJoin" /\ r \in Trans!Lonely(x, y)
      <3>1. PICK i \in 1..Len(x) : ~Trans!Has(y, Trans!Id(x[i])) /\ r = x[i]
        BY <1>2, <2>2
      <3>2. Trans!Has(x, Trans!Id(x[i])) /\ r = JoinOf(x, y, Trans!Id(x[i]))
        BY <3>1, JoinRows DEF Trans!Has
      <3> QED BY <1>5, <2>2, <3>2 DEF Passes
    <2>3. CASE mode = "outerJoin" /\ r \in Trans!Lonely(y, x)
      <3>1. PICK j \in 1..Len(y) : ~Trans!Has(x, Trans!Id(y[j])) /\ r = y[j]
        BY <1>3, <2>3
      <3>2. Trans!Has(y, Trans!Id(y[j])) /\ r = JoinOf(x, y, Trans!Id(y[j]))
        BY <3>1, JoinRows DEF Trans!Has
      <3> QED BY <1>5, <2>3, <3>2 DEF Passes
    <2> QED BY <1>6, <2>1, <2>2, <2>3
  <1>7. Trans!Elements(R) = {R[i] : i \in 1..Len(R)}
    BY DEF Trans!Elements
  <1>8. Trans!Elements(R) = Result
    <2> HIDE DEF Result
    <2> QED BY <1>4, <1>6, <1>7
  <1>9. ASSUME NEW i \in 1..Len(R), NEW l \in 1..Len(R), i < l PROVE R[i] # R[l]
    <2>1. PICK f \in 1..Len(ks), g \in 1..Len(ks) : f < g /\ R[i] = JoinOf(x, y, ks[f]) /\ R[l] = JoinOf(x, y, ks[g])
      BY <1>9 DEF Joint
    <2>2. ks[f] # ks[g]
      BY <2>1 DEF KeysOf
    <2>3. /\ Trans!Has(x, ks[f]) \/ Trans!Has(y, ks[f])
          /\ Trans!Has(x, ks[g]) \/ Trans!Has(y, ks[g])
      BY DEF KeysOf
    <2>4. Trans!Id(R[i]) = ks[f] /\ Trans!Id(R[l]) = ks[g]
      BY <2>1, <2>3, JoinRows
    <2> QED BY <2>2, <2>4
  <1>10. R = [i \in 1..Len(R) |-> R[i]]
    OBVIOUS
  <1>11. Len(R) = Cardinality(Trans!Elements(R))
    BY <1>7, <1>9, <1>10, CountRows
  <1> QED BY <1>8, <1>11

(* Index, of either kind of keys.                                          *)
Whole(x, y) == [i \in 1..(Len(x) + Len(y)) |-> IF i <= Len(x) THEN x[i] ELSE y[i - Len(x)]]

LEMMA Wholes ==
  ASSUME NEW W, NEW x \in Seq(W), NEW y \in Seq(W)
  PROVE  /\ Whole(x, y) \in Seq(W) /\ Len(Whole(x, y)) = Len(x) + Len(y) /\ Len(x) \in Nat /\ Len(y) \in Nat
         /\ Trans!Elements(Whole(x, y)) = Trans!Elements(x) \cup Trans!Elements(y)
  <1>0. Len(x) \in Nat /\ Len(y) \in Nat
    OBVIOUS
  <1>1. Whole(x, y) \in Seq(W) /\ Len(Whole(x, y)) = Len(x) + Len(y)
    BY <1>0 DEF Whole
  <1>2. \A i \in 1..Len(x) : i \in 1..(Len(x) + Len(y)) /\ Whole(x, y)[i] = x[i]
    BY <1>0 DEF Whole
  <1>3. \A j \in 1..Len(y) : Len(x) + j \in 1..(Len(x) + Len(y)) /\ Whole(x, y)[Len(x) + j] = y[j]
    BY <1>0 DEF Whole
  <1>4. \A i \in 1..(Len(x) + Len(y)) : \/ i \in 1..Len(x) /\ Whole(x, y)[i] = x[i]
                                        \/ i - Len(x) \in 1..Len(y) /\ Whole(x, y)[i] = y[i - Len(x)]
    BY <1>0 DEF Whole
  <1>5. Trans!Elements(x) \subseteq Trans!Elements(Whole(x, y)) /\ Trans!Elements(y) \subseteq Trans!Elements(Whole(x, y))
    BY <1>1, <1>2, <1>3 DEF Trans!Elements
  <1>6. Trans!Elements(Whole(x, y)) \subseteq Trans!Elements(x) \cup Trans!Elements(y)
    BY <1>1, <1>4 DEF Trans!Elements
  <1> QED BY <1>0, <1>1, <1>5, <1>6

LEMMA KeysSorted ==
  ASSUME NEW W, NEW x, NEW y, Joinable(W, x, y),
         NEW ks \in Trans!SortedKeys({Trans!Id(r) : r \in Trans!Elements(x) \cup Trans!Elements(y)})
  PROVE  ks \in Seq(Nat) /\ KeysOf(ks, x, y, "outerJoin")
  <1> DEFINE K == {Trans!Id(r) : r \in Trans!Elements(x) \cup Trans!Elements(y)}
             w == Whole(x, y)
             f == [i \in 1..Len(w) |-> Trans!Id(w[i])]
  <1>0. x \in Seq(W) /\ y \in Seq(W) /\ \A r \in W : Trans!Id(r) \in Nat
    BY DEF Joinable, Trans!IsRecord
  <1>1. w \in Seq(W) /\ Len(w) \in Nat /\ Trans!Elements(w) = Trans!Elements(x) \cup Trans!Elements(y)
    BY <1>0, Wholes
  <1>2. K = {f[i] : i \in 1..Len(w)} /\ K \subseteq Nat
    <2>1. K = {Trans!Id(r) : r \in {w[i] : i \in 1..Len(w)}}
      <3> HIDE DEF w
      <3> QED BY <1>1 DEF Trans!Elements
    <2> HIDE DEF K, w
    <2>2. K = {f[i] : i \in 1..Len(w)}
      BY <2>1
    <2>3. \A i \in 1..Len(w) : f[i] \in Nat
      BY <1>0, <1>1
    <2> QED BY <2>2, <2>3
  <1>3. IsFiniteSet(K) /\ Cardinality(K) \in Nat
    <2>1. f \in Surjection(1..Len(w), K)
      BY <1>2 DEF Surjection
    <2>2. IsFiniteSet(1..Len(w))
      BY <1>1, FS_Interval
    <2> HIDE DEF f, K
    <2> QED BY <2>1, <2>2, FS_Surjection, FS_CardinalityType
  <1>4. \A k : k \in K <=> Trans!Has(x, k) \/ Trans!Has(y, k)
    BY DEF Trans!Elements, Trans!Has
  <1>9. ks \in Trans!SortedKeys(K)
    OBVIOUS
  <1> HIDE DEF K, f, w
  <1>5. ks \in [1..Cardinality(K) -> K] /\ \A i, j \in DOMAIN ks : i < j => ks[i] < ks[j]
    BY <1>9, Counted DEF Trans!SortedKeys
  <1>6. ks \in Seq(Nat) /\ Len(ks) = Cardinality(K) /\ DOMAIN ks = 1..Len(ks)
    BY <1>2, <1>3, <1>5
  <1>7. \A i, j \in 1..Len(ks) : i < j => ks[i] # ks[j]
    BY <1>2, <1>5, <1>6
  <1>8. \A k : (\E j \in 1..Len(ks) : ks[j] = k) <=> k \in K
    <2>1. ks \in Injection(1..Len(ks), K)
      BY <1>5, <1>6, <1>7 DEF Injection, IsInjective
    <2>2. Cardinality(1..Len(ks)) = Cardinality(K)
      BY <1>3, <1>6, FS_Interval
    <2>3. ks \in Surjection(1..Len(ks), K)
      BY <1>3, <2>1, <2>2, FS_Injection
    <2> QED BY <2>3 DEF Surjection
  <1> QED BY <1>4, <1>6, <1>7, <1>8 DEF KeysOf

LEMMA KeysTaken ==
  ASSUME NEW W, NEW x, NEW y, Joinable(W, x, y), NEW mode, mode # "outerJoin"
  PROVE  Trans!KeysInOrder(x) \in Seq(Nat) /\ KeysOf(Trans!KeysInOrder(x), x, y, mode)
  <1> DEFINE ks == Trans!KeysInOrder(x)
  <1>0. x \in Seq(W) /\ Len(x) \in Nat /\ \A r \in W : Trans!Id(r) \in Nat
    BY DEF Joinable, Trans!IsRecord
  <1>1. ks \in Seq(Nat) /\ Len(ks) = Len(x) /\ \A i \in 1..Len(x) : ks[i] = Trans!Id(x[i])
    BY <1>0 DEF Trans!KeysInOrder
  <1> HIDE DEF ks
  <1>2. \A k : (\E j \in 1..Len(ks) : ks[j] = k) <=> Trans!Has(x, k)
    BY <1>1 DEF Trans!Has
  <1>3. Trans!Distinct(x) => \A i, j \in 1..Len(ks) : i < j => ks[i] # ks[j]
    BY <1>0, <1>1 DEF Trans!Distinct
  <1> QED BY <1>1, <1>2, <1>3 DEF KeysOf, ks

-----------------------------------------------------------------------------
(* What holds between two turns of a loop: the rows so far are those of    *)
(* the records that it has passed.                                         *)
InputRecords == LeftRecords \cup RightRecords

Written ==
    InputRecords \cup {Tag(Whole(a, b), Len(a), i) : i \in 1..(Len(a) + Len(b))} \cup {JoinOf(a, b, k) : k \in Nat}

InputOK ==
    /\ Trans!IsOp(op) /\ passed \in Nat
    /\ a \in Seq(InputRecords) /\ b \in Seq(InputRecords)
    /\ op.name # "merge" => b = <<>>

OutOK ==
    /\ out \in [rows : Seq(Written), status : Trans!Statuses, failed : Nat]
    /\ out.status = "SchemaValidationError" => out.rows = <<>>

\* The loop is at `passed` of n turns, or has ended.
Reached(n, status) == passed <= n /\ out.status \in {"pending", "keyed"} \cup status /\ (out.status \in status => passed = n)

DedupeOK ==
    op.name = "dedupe" =>
        out.status # "keyed" /\ Reached(Len(a), {"ok"}) /\ Deduped(out.rows, a, passed, op.mode)

ContractOK ==
    op.name = "contract" =>
        \/ /\ out.status = "SchemaValidationError" /\ op.mode = "fail"
           /\ \E i \in 1..Len(a) : ~Trans!Meets(a[i], op.schema)
        \/ /\ out.status # "keyed" /\ Reached(Len(a), {"passed", "warning"})
           /\ Checked(out.rows, out.failed, a, op.schema, passed)

UnionOK ==
    op.name = "merge" /\ op.mode = "union" =>
        out.status # "keyed" /\ Reached(Len(a) + Len(b), {"ok"}) /\ United(out.rows, Whole(a, b), passed)

TagOK ==
    op.name = "merge" /\ op.mode = "appendWithSourceTag" /\ out.status # "SchemaValidationError" =>
        out.status # "keyed" /\ Reached(Len(a) + Len(b), {"ok"}) /\ Tagged(out.rows, Whole(a, b), Len(a), passed)

ConcatOK ==
    op.name = "merge" /\ op.mode = "concat" =>
        out.status = "pending" \/ (out.status = "ok" /\ out.rows = a \o b)

JoinOK ==
    op.name = "merge" /\ op.mode \in Trans!Joins /\ out.status # "SchemaValidationError" =>
        \/ out.status = "pending" /\ passed = 0
        \/ /\ out.status # "pending" /\ Reached(Len(joinKeys), {"ok"})
           /\ Joinable(InputRecords, a, b) /\ joinKeys \in Seq(Nat) /\ KeysOf(joinKeys, a, b, op.mode)
           /\ Joint(out.rows, joinKeys, a, b, op.mode, passed)

TransInv == InputOK /\ OutOK /\ DedupeOK /\ ContractOK /\ UnionOK /\ TagOK /\ ConcatOK /\ JoinOK

LEMMA Inputs ==
  ASSUME InputRows \in Nat, NEW S, NEW s \in Trans!InputsOf(S), NEW W, S \subseteq W
  PROVE  s \in Seq(W)
  <1>1. PICK m \in 0..InputRows : s \in [1..m -> S]
    BY DEF Trans!InputsOf
  <1> QED BY <1>1

LEMMA TransStarts ==
  ASSUME Trans!TransformsAssumption, Trans!Init
  PROVE  TransInv
  <1>1. InputOK
    <2>1. InputRows \in Nat /\ LeftRecords \subseteq InputRecords /\ RightRecords \subseteq InputRecords
      BY DEF InputRecords, Trans!TransformsAssumption
    <2>2. a \in Seq(InputRecords)
      BY <2>1, Inputs DEF Trans!Init
    <2>3. b \in Seq(InputRecords) /\ (op.name # "merge" => b = <<>>)
      <3>1. CASE op.name = "merge"
        BY <2>1, <3>1, Inputs DEF Trans!Init
      <3>2. CASE op.name # "merge"
        BY <3>2 DEF Trans!Init
      <3> QED BY <3>1, <3>2
    <2>4. Trans!IsOp(op) /\ passed \in Nat
      BY DEF Trans!Init, Trans!TransformsAssumption
    <2> QED BY <2>2, <2>3, <2>4 DEF InputOK
  <1>2. /\ out = [rows |-> <<>>, status |-> "pending", failed |-> 0] /\ passed = 0
        /\ Len(a) \in Nat /\ Len(b) \in Nat /\ Len(out.rows) = 0 /\ 1..0 = {}
    BY <1>1 DEF Trans!Init, InputOK
  <1>3. OutOK
    BY <1>2 DEF OutOK, Trans!Statuses
  <1>4. Deduped(out.rows, a, passed, op.mode) /\ United(out.rows, Whole(a, b), passed) /\ Tagged(out.rows, Whole(a, b), Len(a), passed)
    BY <1>2 DEF Deduped, United, Tagged
  <1>5. Checked(out.rows, out.failed, a, op.schema, passed)
    <2>1. GoodOf(a, op.schema, 0) = {}
      BY <1>2 DEF GoodOf
    <2> QED BY <1>2, <2>1, FS_EmptySet DEF Checked
  <1> QED BY <1>1, <1>2, <1>3, <1>4, <1>5
          DEF TransInv, DedupeOK, ContractOK, UnionOK, TagOK, ConcatOK, JoinOK, Reached

(* The steps of the loops leave the inputs alone, and each works on its    *)
(* own operation.                                                          *)
LEMMA InputStays ==
  ASSUME TransInv, UNCHANGED <<op, a, b>>, passed' \in Nat
  PROVE  InputOK' /\ Written' = Written /\ Len(a) \in Nat /\ Len(b) \in Nat /\ (op.name # "merge" => Len(b) = 0)
  BY DEF TransInv, InputOK, Written

LEMMA DedupeKeeps ==
  ASSUME TransInv, Trans!Dedupe
  PROVE  TransInv'
  <1> DEFINE Q == Trans!DedupeRow(out.rows, Trans!Row(passed + 1), op.mode)
  <1>1. /\ UNCHANGED <<op, a, b, joinKeys>> /\ passed' = passed + 1 /\ passed < Trans!Total
        /\ op.name = "dedupe" /\ out.status = "pending" /\ out' = [out EXCEPT !.rows = Q, !.status = "pending"]
    BY DEF Trans!Dedupe, Trans!Turn, Trans!Result
  <1>2. /\ InputOK' /\ Written' = Written /\ Len(a) \in Nat /\ passed \in Nat
        /\ Trans!Total = Len(a) /\ Trans!Row(passed + 1) = a[passed + 1]
    BY <1>1, InputStays DEF TransInv, InputOK, Trans!Total, Trans!Row
  <1>3. /\ out \in [rows : Seq(Written), status : Trans!Statuses, failed : Nat]
        /\ a \in Seq(Written) /\ Deduped(out.rows, a, passed, op.mode)
    BY <1>1 DEF TransInv, InputOK, OutOK, DedupeOK, Written
  <1>4. Q \in Seq(Written) /\ Deduped(Q, a, passed + 1, op.mode)
    BY <1>1, <1>2, <1>3, DedupeTurn
  <1> HIDE DEF Q
  <1>5. out'.rows = Q /\ out'.status = "pending" /\ out'.failed = out.failed /\ out' \in [rows : Seq(Written), status : Trans!Statuses, failed : Nat]
    BY <1>1, <1>3, <1>4 DEF Trans!Statuses
  <1>6. OutOK'
    BY <1>2, <1>5 DEF OutOK, Trans!Statuses
  <1>7. DedupeOK'
    BY <1>1, <1>2, <1>4, <1>5 DEF DedupeOK, Reached
  <1> QED BY <1>1, <1>2, <1>6, <1>7 DEF TransInv, ContractOK, UnionOK, TagOK, ConcatOK, JoinOK

(* The result of a turn.                                                   *)
LEMMA OutTurns ==
  ASSUME NEW W, NEW S, NEW o \in [rows : Seq(W), status : S, failed : Nat], NEW p
  PROVE  /\ \A r \in W : p = [o EXCEPT !.rows = Append(@, r)] =>
                /\ p.rows = Append(o.rows, r) /\ p.status = o.status /\ p.failed = o.failed
                /\ p \in [rows : Seq(W), status : S, failed : Nat]
         /\ \A R \in Seq(W), s \in S : p = [o EXCEPT !.rows = R, !.status = s] =>
                /\ p.rows = R /\ p.status = s /\ p.failed = o.failed
                /\ p \in [rows : Seq(W), status : S, failed : Nat]
         /\ p = [o EXCEPT !.failed = @ + 1] =>
                /\ p.rows = o.rows /\ p.status = o.status /\ p.failed = o.failed + 1
                /\ p \in [rows : Seq(W), status : S, failed : Nat]
  <1>1. o.rows \in Seq(W) /\ o.status \in S /\ o.failed \in Nat /\ \A r \in W : Append(o.rows, r) \in Seq(W)
    OBVIOUS
  <1>2. ASSUME NEW r \in W, p = [o EXCEPT !.rows = Append(@, r)]
        PROVE  /\ p.rows = Append(o.rows, r) /\ p.status = o.status /\ p.failed = o.failed
               /\ p \in [rows : Seq(W), status : S, failed : Nat]
    <2> DEFINE Q == Append(o.rows, r)
    <2>1. Q \in Seq(W) /\ p = [o EXCEPT !.rows = Q]
      BY <1>1, <1>2
    <2> HIDE DEF Q
    <2>2. p.rows = Q /\ p.status = o.status /\ p.failed = o.failed /\ p \in [rows : Seq(W), status : S, failed : Nat]
      BY <2>1
    <2> QED BY <2>2 DEF Q
  <1>3. ASSUME NEW R \in Seq(W), NEW s \in S, p = [o EXCEPT !.rows = R, !.status = s]
        PROVE  /\ p.rows = R /\ p.status = s /\ p.failed = o.failed
               /\ p \in [rows : Seq(W), status : S, failed : Nat]
    BY <1>3
  <1>4. ASSUME p = [o EXCEPT !.failed = @ + 1]
        PROVE  /\ p.rows = o.rows /\ p.status = o.status /\ p.failed = o.failed + 1
               /\ p \in [rows : Seq(W), status : S, failed : Nat]
    <2> DEFINE n == o.failed + 1
    <2>1. n \in Nat /\ p = [o EXCEPT !.failed = n]
      BY <1>1, <1>4
    <2> HIDE DEF n
    <2>2. p.rows = o.rows /\ p.status = o.status /\ p.failed = n /\ p \in [rows : Seq(W), status : S, failed : Nat]
      BY <2>1
    <2> QED BY <2>2 DEF n
  <1> QED BY <1>2, <1>3, <1>4

LEMMA ContractKeeps ==
  ASSUME TransInv, Trans!Contract
  PROVE  TransInv'
  <1> DEFINE record == Trans!Row(passed + 1)
  <1>1. /\ UNCHANGED <<op, a, b, joinKeys>> /\ passed' = passed + 1 /\ passed < Trans!Total
        /\ op.name = "contract" /\ out.status = "pending"
    BY DEF Trans!Contract, Trans!Turn
  <1>2. /\ InputOK' /\ Written' = Written /\ Len(a) \in Nat /\ passed \in Nat /\ passed + 1 \in 1..Len(a)
        /\ Trans!Total = Len(a) /\ record = a[passed + 1]
    BY <1>1, InputStays DEF TransInv, InputOK, Trans!Total, Trans!Row
  <1>3. /\ out \in [rows : Seq(Written), status : Trans!Statuses, failed : Nat]
        /\ a \in Seq(Written) /\ Checked(out.rows, out.failed, a, op.schema, passed)
    BY <1>1 DEF TransInv, InputOK, OutOK, ContractOK, Written
  <1>4. record \in Written
    BY <1>2, <1>3
  <1>5. \/ Trans!Meets(record, op.schema) /\ Trans!Emit(record)
        \/ ~Trans!Meets(record, op.schema) /\ op.mode = "fail" /\ Trans!Refuse
        \/ ~Trans!Meets(record, op.schema) /\ out' = [out EXCEPT !.failed = @ + 1]
    BY ConformsMeets DEF Trans!Contract
  <1> HIDE DEF record
  <1>6. OutOK' /\ ContractOK'
    <2>1. CASE Trans!Meets(record, op.schema) /\ Trans!Emit(record)
      <3>1. /\ out' = [out EXCEPT !.rows = Append(@, record)]
            /\ Checked(Append(out.rows, record), out.failed, a, op.schema, passed + 1)
        BY <1>2, <1>3, <2>1, ContractTurn DEF Trans!Emit
      <3>2. /\ out'.rows = Append(out.rows, record) /\ out'.status = "pending" /\ out'.failed = out.failed
            /\ out' \in [rows : Seq(Written), status : Trans!Statuses, failed : Nat]
        <4>1. out \in [rows : Seq(Written), status : Trans!Statuses, failed : Nat] /\ out' = [out EXCEPT !.rows = Append(@, record)]
          BY <1>3, <3>1
        <4>2. out.status = "pending"
          BY <1>1
        <4> QED BY <1>4, <4>1, <4>2, OutTurns
      <3> QED BY <1>1, <1>2, <3>1, <3>2 DEF OutOK, ContractOK, Reached
    <2>2. CASE ~Trans!Meets(record, op.schema) /\ op.mode = "fail" /\ Trans!Refuse
      <3>1. out'.rows = <<>> /\ out'.status = "SchemaValidationError" /\ out' \in [rows : Seq(Written), status : Trans!Statuses, failed : Nat]
        <4>1. <<>> \in Seq(Written) /\ "SchemaValidationError" \in Trans!Statuses
          BY DEF Trans!Statuses
        <4>2. out' = [out EXCEPT !.rows = <<>>, !.status = "SchemaValidationError"]
          BY <2>2 DEF Trans!Refuse, Trans!Result
        <4> QED BY <1>3, <4>1, <4>2, OutTurns
      <3> QED BY <1>1, <1>2, <2>2, <3>1 DEF OutOK, ContractOK
    <2>3. CASE ~Trans!Meets(record, op.schema) /\ out' = [out EXCEPT !.failed = @ + 1]
      <3>1. Checked(out.rows, out.failed + 1, a, op.schema, passed + 1)
        BY <1>2, <1>3, <2>3, ContractTurn
      <3>2. /\ out'.rows = out.rows /\ out'.status = "pending" /\ out'.failed = out.failed + 1
            /\ out' \in [rows : Seq(Written), status : Trans!Statuses, failed : Nat]
        BY <1>1, <1>3, <2>3, OutTurns
      <3> QED BY <1>1, <1>2, <3>1, <3>2 DEF OutOK, ContractOK, Reached
    <2> QED BY <1>5, <2>1, <2>2, <2>3
  <1> QED BY <1>1, <1>2, <1>6 DEF TransInv, DedupeOK, UnionOK, TagOK, ConcatOK, JoinOK

LEMMA ConcatKeeps ==
  ASSUME TransInv, Trans!Concat
  PROVE  TransInv'
  <1>1. /\ UNCHANGED <<op, a, b, passed, joinKeys>> /\ op.name = "merge" /\ op.mode = "concat"
        /\ out' = [out EXCEPT !.rows = a \o b, !.status = "ok"]
    BY DEF Trans!Concat, Trans!Result
  <1>2. InputOK' /\ Written' = Written
    BY <1>1, InputStays DEF TransInv, InputOK
  <1>3. out \in [rows : Seq(Written), status : Trans!Statuses, failed : Nat] /\ a \o b \in Seq(Written)
    BY DEF TransInv, InputOK, OutOK, Written
  <1>4. out'.rows = a \o b /\ out'.status = "ok" /\ out' \in [rows : Seq(Written), status : Trans!Statuses, failed : Nat]
    BY <1>1, <1>3 DEF Trans!Statuses
  <1>5. OutOK' /\ ConcatOK'
    BY <1>1, <1>2, <1>4 DEF OutOK, ConcatOK
  <1> QED BY <1>1, <1>2, <1>5 DEF TransInv, DedupeOK, ContractOK, UnionOK, TagOK, JoinOK, Trans!Joins

(* The records of both inputs, one after the other.                        *)
LEMMA Rows ==
  ASSUME TransInv, passed < Trans!Total
  PROVE  /\ Whole(a, b) \in Seq(InputRecords) /\ Whole(a, b) \in Seq(Written)
         /\ Len(Whole(a, b)) = Len(a) + Len(b) /\ Len(a) + Len(b) \in Nat
         /\ Trans!Total = Len(a) + Len(b) /\ passed + 1 \in 1..(Len(a) + Len(b))
         /\ Trans!Row(passed + 1) = Whole(a, b)[passed + 1] /\ Trans!Row(passed + 1) \in InputRecords
  <1>1. a \in Seq(InputRecords) /\ b \in Seq(InputRecords) /\ passed \in Nat
    BY DEF TransInv, InputOK
  <1>2. Len(a) \in Nat /\ Len(b) \in Nat /\ Len(Whole(a, b)) = Len(a) + Len(b) /\ Whole(a, b) \in Seq(InputRecords)
    BY <1>1, Wholes
  <1>3. passed + 1 \in 1..(Len(a) + Len(b))
    BY <1>1, <1>2 DEF Trans!Total
  <1>4. Trans!Row(passed + 1) = Whole(a, b)[passed + 1]
    BY <1>3 DEF Trans!Row, Whole
  <1> QED BY <1>1, <1>2, <1>3, <1>4 DEF Written, Trans!Total

LEMMA UnionKeeps ==
  ASSUME TransInv, Trans!Union
  PROVE  TransInv'
  <1> DEFINE w == Whole(a, b)
             record == Trans!Row(passed + 1)
  <1>1. /\ UNCHANGED <<op, a, b, joinKeys>> /\ passed' = passed + 1 /\ passed < Trans!Total
        /\ op.name = "merge" /\ op.mode = "union" /\ out.status = "pending"
    BY DEF Trans!Union, Trans!Turn
  <1>2. InputOK' /\ Written' = Written /\ passed \in Nat
    BY <1>1, InputStays DEF TransInv, InputOK
  <1>3. /\ w \in Seq(Written) /\ Len(w) = Len(a) + Len(b) /\ Len(a) + Len(b) \in Nat
        /\ passed + 1 \in 1..(Len(a) + Len(b)) /\ record = w[passed + 1] /\ record \in Written
    BY <1>1, Rows DEF Written
  <1>4. /\ out \in [rows : Seq(Written), status : Trans!Statuses, failed : Nat]
        /\ United(out.rows, w, passed)
    BY <1>1 DEF TransInv, OutOK, UnionOK
  <1>5. \/ record \in Trans!Elements(out.rows) /\ out' = out
        \/ record \notin Trans!Elements(out.rows) /\ out' = [out EXCEPT !.rows = Append(@, record)]
    BY DEF Trans!Union, Trans!Emit
  <1> HIDE DEF w, record
  <1>6. \/ record \in Trans!Elements(out.rows) /\ out' = out /\ United(out.rows, w, passed + 1)
        \/ out' = [out EXCEPT !.rows = Append(@, record)] /\ United(Append(out.rows, record), w, passed + 1)
    BY <1>2, <1>3, <1>4, <1>5, UnionTurn
  <1>7. /\ out'.status = "pending" /\ United(out'.rows, w, passed + 1)
        /\ out' \in [rows : Seq(Written), status : Trans!Statuses, failed : Nat]
    <2>1. out.status = "pending" /\ out \in [rows : Seq(Written), status : Trans!Statuses, failed : Nat] /\ record \in Written
      BY <1>1, <1>3, <1>4
    <2>2. CASE out' = out /\ United(out.rows, w, passed + 1)
      BY <2>1, <2>2
    <2>3. CASE out' = [out EXCEPT !.rows = Append(@, record)] /\ United(Append(out.rows, record), w, passed + 1)
      <3>1. /\ out'.status = "pending" /\ out'.rows = Append(out.rows, record)
            /\ out' \in [rows : Seq(Written), status : Trans!Statuses, failed : Nat]
        BY <2>1, <2>3, OutTurns
      <3> QED BY <2>3, <3>1
    <2> QED BY <1>6, <2>2, <2>3
  <1>8. OutOK' /\ UnionOK'
    BY <1>1, <1>2, <1>3, <1>7 DEF OutOK, UnionOK, Reached, w
  <1> QED BY <1>1, <1>2, <1>8 DEF TransInv, DedupeOK, ContractOK, TagOK, ConcatOK, JoinOK, Trans!Joins

LEMMA TagKeeps ==
  ASSUME TransInv, Trans!AppendWithSourceTag
  PROVE  TransInv'
  <1> DEFINE w == Whole(a, b)
             record == Trans!Row(passed + 1)
             new == Tag(w, Len(a), passed + 1)
  <1>1. /\ UNCHANGED <<op, a, b, joinKeys>> /\ passed' = passed + 1 /\ passed < Trans!Total
        /\ op.name = "merge" /\ op.mode = "appendWithSourceTag" /\ out.status = "pending"
    BY DEF Trans!AppendWithSourceTag, Trans!Turn
  <1>2. InputOK' /\ Written' = Written /\ passed \in Nat
    BY <1>1, InputStays DEF TransInv, InputOK
  <1>3. /\ Len(a) + Len(b) \in Nat /\ passed + 1 \in 1..(Len(a) + Len(b)) /\ record = w[passed + 1]
    BY <1>1, Rows
  <1>4. new \in Written
    BY <1>3 DEF Written
  <1>5. /\ out \in [rows : Seq(Written), status : Trans!Statuses, failed : Nat]
        /\ Tagged(out.rows, w, Len(a), passed)
    BY <1>1 DEF TransInv, OutOK, TagOK
  <1>6. new = Trans!Object(Trans!Override([_source |-> Trans!SourceOf(passed + 1)], record.f))
    BY <1>3 DEF Tag, Trans!SourceOf
  <1>7. Trans!Emit(new) \/ Trans!Refuse
    BY <1>6 DEF Trans!AppendWithSourceTag
  <1>8. Tagged(Append(out.rows, new), w, Len(a), passed + 1)
    BY <1>2, <1>4, <1>5, TagTurn
  <1> HIDE DEF w, record, new
  <1>9. OutOK' /\ TagOK'
    <2>1. CASE Trans!Emit(new)
      <3>1. /\ out'.status = "pending" /\ out'.rows = Append(out.rows, new)
            /\ out' \in [rows : Seq(Written), status : Trans!Statuses, failed : Nat]
        BY <1>1, <1>4, <1>5, <2>1, OutTurns DEF Trans!Emit
      <3> QED BY <1>1, <1>2, <1>3, <1>8, <3>1 DEF OutOK, TagOK, Reached, w
    <2>2. CASE Trans!Refuse
      <3>1. out'.rows = <<>> /\ out'.status = "SchemaValidationError" /\ out' \in [rows : Seq(Written), status : Trans!Statuses, failed : Nat]
        <4>1. <<>> \in Seq(Written) /\ "SchemaValidationError" \in Trans!Statuses
          BY DEF Trans!Statuses
        <4>2. out' = [out EXCEPT !.rows = <<>>, !.status = "SchemaValidationError"]
          BY <2>2 DEF Trans!Refuse, Trans!Result
        <4> QED BY <1>5, <4>1, <4>2, OutTurns
      <3> QED BY <1>2, <3>1 DEF OutOK, TagOK
    <2> QED BY <1>7, <2>1, <2>2
  <1> QED BY <1>1, <1>2, <1>9 DEF TransInv, DedupeOK, ContractOK, UnionOK, ConcatOK, JoinOK, Trans!Joins

LEMMA JoinKeeps ==
  ASSUME TransInv, Trans!Join, \A r \in InputRecords : Trans!IsRecord(r)
  PROVE  TransInv'
  <1> DEFINE k == joinKeys[passed + 1]
             new == JoinOf(a, b, k)
  <1>1. /\ UNCHANGED <<op, a, b, joinKeys>> /\ passed' = passed + 1 /\ passed < Len(joinKeys) /\ out.status = "keyed"
    BY DEF Trans!Join
  <1>2. InputOK' /\ Written' = Written /\ passed \in Nat
    BY <1>1, InputStays DEF TransInv, InputOK
  <1>3. op.name = "merge" /\ op.mode \in Trans!Joins
    BY <1>1 DEF TransInv, InputOK, Trans!IsOp, DedupeOK, ContractOK, UnionOK, TagOK, ConcatOK
  <1>4. /\ Joinable(InputRecords, a, b) /\ joinKeys \in Seq(Nat) /\ KeysOf(joinKeys, a, b, op.mode)
        /\ Joint(out.rows, joinKeys, a, b, op.mode, passed)
    BY <1>1, <1>3 DEF TransInv, JoinOK
  <1>5. out \in [rows : Seq(Written), status : Trans!Statuses, failed : Nat]
    BY DEF TransInv, OutOK
  <1>6. k \in Nat /\ passed + 1 <= Len(joinKeys) /\ Len(joinKeys) \in Nat
    BY <1>1, <1>2, <1>4
  <1>7. new \in Written
    BY <1>6 DEF Written
  <1>8. \/ ~Passes(b, op.mode, k) /\ out' = out
        \/ Passes(b, op.mode, k) /\ out' = [out EXCEPT !.rows = Append(@, new)]
    BY DEF Trans!Join, Trans!Emit, Passes, JoinOf, Trans!Joined
  <1> HIDE DEF new
  <1>9. /\ out'.status = "keyed" /\ Joint(out'.rows, joinKeys, a, b, op.mode, passed + 1)
        /\ out' \in [rows : Seq(Written), status : Trans!Statuses, failed : Nat]
    <2>1. /\ ~Passes(b, op.mode, k) => Joint(out.rows, joinKeys, a, b, op.mode, passed + 1)
          /\ Passes(b, op.mode, k) => Joint(Append(out.rows, new), joinKeys, a, b, op.mode, passed + 1)
      BY <1>2, <1>4, <1>5, <1>7, JoinTurn DEF new
    <2>2. CASE ~Passes(b, op.mode, k) /\ out' = out
      BY <1>1, <1>5, <2>1, <2>2
    <2>3. CASE Passes(b, op.mode, k) /\ out' = [out EXCEPT !.rows = Append(@, new)]
      BY <1>1, <1>5, <1>7, <2>1, <2>3, OutTurns
    <2> QED BY <1>8, <2>2, <2>3
  <1>10. OutOK' /\ JoinOK'
    BY <1>1, <1>2, <1>4, <1>6, <1>9 DEF OutOK, JoinOK, Reached
  <1> QED BY <1>1, <1>2, <1>3, <1>10 DEF TransInv, DedupeOK, ContractOK, UnionOK, TagOK, ConcatOK, Trans!Joins

LEMMA IndexKeeps ==
  ASSUME TransInv, Trans!Index, \A r \in InputRecords : Trans!IsRecord(r)
  PROVE  TransInv'
  <1>1. /\ UNCHANGED <<op, a, b, passed>> /\ op.name = "merge" /\ op.mode \in Trans!Joins /\ out.status = "pending"
    BY DEF Trans!Index
  <1>2. InputOK' /\ Written' = Written /\ passed = 0
    BY <1>1, InputStays DEF TransInv, InputOK, JoinOK
  <1>3. out \in [rows : Seq(Written), status : Trans!Statuses, failed : Nat] /\ <<>> \in Seq(Written)
    BY DEF TransInv, OutOK
  <1>4. OutOK' /\ JoinOK'
    <2>1. CASE Trans!AllObjects(a) /\ Trans!AllObjects(b)
      <3>1. out' = [out EXCEPT !.rows = <<>>, !.status = "keyed"] /\ "keyed" \in Trans!Statuses
        BY <2>1 DEF Trans!Index, Trans!Result, Trans!Statuses
      <3>2. /\ out'.rows = <<>> /\ out'.status = "keyed"
            /\ out' \in [rows : Seq(Written), status : Trans!Statuses, failed : Nat]
        BY <1>3, <3>1, OutTurns
      <3>3. Joinable(InputRecords, a, b)
        BY <2>1 DEF Joinable, TransInv, InputOK
      <3>4. joinKeys' \in Seq(Nat) /\ KeysOf(joinKeys', a, b, op.mode)
        <4>1. CASE op.mode = "outerJoin"
          <5>1. joinKeys' \in Trans!SortedKeys({Trans!Id(r) : r \in Trans!Elements(a) \cup Trans!Elements(b)})
            BY <2>1, <4>1 DEF Trans!Index
          <5> QED BY <3>3, <4>1, <5>1, KeysSorted
        <4>2. CASE op.mode # "outerJoin"
          <5>1. joinKeys' = Trans!KeysInOrder(a)
            BY <2>1, <4>2 DEF Trans!Index
          <5> QED BY <3>3, <4>2, <5>1, KeysTaken
        <4> QED BY <4>1, <4>2
      <3>5. Joint(out'.rows, joinKeys', a, b, op.mode, 0)
        <4>1. 1..0 = {} /\ Len(out'.rows) = 0
          BY <3>2
        <4> QED BY <4>1 DEF Joint
      <3>6. Len(joinKeys') \in Nat
        BY <3>4
      <3> QED BY <1>1, <1>2, <3>2, <3>3, <3>4, <3>5, <3>6 DEF OutOK, JoinOK, Reached
    <2>2. CASE ~(Trans!AllObjects(a) /\ Trans!AllObjects(b))
      <3>1. /\ out' = [out EXCEPT !.rows = <<>>, !.status = "SchemaValidationError"]
            /\ "SchemaValidationError" \in Trans!Statuses
        BY <2>2 DEF Trans!Index, Trans!Refuse, Trans!Result, Trans!Statuses
      <3>2. /\ out'.rows = <<>> /\ out'.status = "SchemaValidationError"
            /\ out' \in [rows : Seq(Written), status : Trans!Statuses, failed : Nat]
        BY <1>3, <3>1, OutTurns
      <3> QED BY <1>2, <3>2 DEF OutOK, JoinOK
    <2> QED BY <2>1, <2>2
  <1> QED BY <1>1, <1>2, <1>4 DEF TransInv, DedupeOK, ContractOK, UnionOK, TagOK, ConcatOK, Trans!Joins

LEMMA ReturnKeeps ==
  ASSUME TransInv, Trans!Return
  PROVE  TransInv'
  <1>1. /\ UNCHANGED <<op, a, b, passed, joinKeys>>
        /\ out' = [out EXCEPT !.rows = out.rows, !.status = Trans!ReturnStatus]
        /\ \/ out.status = "keyed" /\ passed = Len(joinKeys)
           \/ out.status = "pending" /\ passed = Trans!Total /\ op.mode \notin Trans!Joins \cup {"concat"}
    BY DEF Trans!Return, Trans!Result
  <1>2. InputOK' /\ Written' = Written /\ Len(a) \in Nat /\ Len(b) \in Nat /\ (op.name # "merge" => Len(b) = 0)
    BY <1>1, InputStays DEF TransInv, InputOK
  <1>3. /\ out \in [rows : Seq(Written), status : Trans!Statuses, failed : Nat] /\ out.rows \in Seq(Written)
        /\ out.status # "SchemaValidationError"
    BY <1>1 DEF TransInv, OutOK
  <1>4. /\ Trans!ReturnStatus \in Trans!Statuses \ {"SchemaValidationError", "pending", "keyed"}
        /\ (op.name # "contract" => Trans!ReturnStatus = "ok")
        /\ (op.name = "contract" => Trans!ReturnStatus \in {"passed", "warning"})
    BY DEF Trans!ReturnStatus, Trans!Statuses
  <1>5. /\ out'.rows = out.rows /\ out'.status = Trans!ReturnStatus /\ out'.failed = out.failed
        /\ out' \in [rows : Seq(Written), status : Trans!Statuses, failed : Nat]
    BY <1>1, <1>3, <1>4, OutTurns
  <1> USE <1>1, <1>2, <1>3, <1>4, <1>5 DEF TransInv, Reached
  <1>6. OutOK'
    BY DEF OutOK
  <1>7. DedupeOK'
    BY DEF DedupeOK, Trans!Total, InputOK
  <1>8. ContractOK'
    BY DEF ContractOK, Trans!Total
  <1>9. UnionOK' /\ TagOK'
    BY DEF UnionOK, TagOK, Trans!Total
  <1>10. ConcatOK'
    BY DEF ConcatOK
  <1>11. JoinOK'
    BY DEF JoinOK
  <1> QED BY <1>6, <1>7, <1>8, <1>9, <1>10, <1>11

LEMMA TransSteps ==
  ASSUME Trans!TransformsAssumption, TransInv, Trans!Next \/ UNCHANGED Trans!vars
  PROVE  TransInv'
  <1>1. \A r \in InputRecords : Trans!IsRecord(r)
    BY DEF Trans!TransformsAssumption, InputRecords
  <1>2. CASE UNCHANGED Trans!vars
    <2>1. InputOK' /\ Written' = Written
      BY <1>2, InputStays DEF Trans!vars, TransInv, InputOK
    <2> QED BY <1>2, <2>1 DEF Trans!vars, TransInv, OutOK, DedupeOK, ContractOK, UnionOK, TagOK, ConcatOK, JoinOK, Reached
  <1> QED BY <1>1, <1>2, DedupeKeeps, ContractKeeps, ConcatKeeps, UnionKeeps, TagKeeps, IndexKeeps, JoinKeeps, ReturnKeeps
          DEF Trans!Next

LEMMA TransImplies ==
  ASSUME TransInv, \A r \in InputRecords : Trans!IsRecord(r)
  PROVE  Trans!TypeOK /\ Trans!DedupeReference /\ Trans!ContractReference /\ Trans!MergeReference /\ Trans!JoinReference
  <1>1. /\ out \in [rows : Seq(Written), status : Trans!Statuses, failed : Nat] /\ out.rows \in Seq(Written)
        /\ a \in Seq(InputRecords) /\ b \in Seq(InputRecords) /\ a \in Seq(Written) /\ Len(a) \in Nat /\ Len(b) \in Nat
    BY DEF TransInv, InputOK, OutOK, Written
  <1>2. Trans!TypeOK
    <2>1. \A r \in Written : r.object \/ r = Trans!Scalar
      <3>1. \A i : Tag(Whole(a, b), Len(a), i).object
        BY DEF Tag, Trans!Object
      <3>2. \A k : JoinOf(a, b, k).object
        BY DEF JoinOf, Trans!Object
      <3>3. \A r \in InputRecords : r.object \/ r = Trans!Scalar
        BY DEF Trans!IsRecord
      <3> QED BY <3>1, <3>2, <3>3 DEF Written
    <2> QED BY <1>1, <2>1 DEF TransInv, OutOK, Trans!TypeOK
  <1>3. Trans!DedupeReference
    <2> SUFFICES ASSUME Trans!Done("dedupe")
                 PROVE  /\ Len(out.rows) = Trans!Cardinality({Trans!Id(r) : r \in Trans!Elements(a)})
                        /\ \A i \in 1..Len(out.rows) :
                              LET k == Trans!Id(out.rows[i])
                              IN  out.rows[i] = a[IF op.mode = "last" THEN Trans!LastWith(a, k) ELSE Trans!FirstWith(a, k)]
                        /\ \A i, j \in 1..Len(out.rows) :
                              i < j => Trans!FirstWith(a, Trans!Id(out.rows[i])) < Trans!FirstWith(a, Trans!Id(out.rows[j]))
      BY DEF Trans!DedupeReference
    <2>1. Deduped(out.rows, a, Len(a), op.mode)
      BY DEF Trans!Done, TransInv, DedupeOK, Reached
    <2> QED BY <1>1, <2>1, DedupeEnds, Counted
  <1>4. Trans!ContractReference
    <2> SUFFICES ASSUME Trans!Done("contract")
                 PROVE  IF out.status = "SchemaValidationError"
                        THEN op.mode = "fail" /\ \E r \in Trans!Elements(a) : ~Trans!Meets(r, op.schema)
                        ELSE /\ \A r \in Trans!Elements(out.rows) : Trans!Meets(r, op.schema)
                             /\ Len(out.rows) = Trans!Cardinality(Trans!Good(Len(a)))
                             /\ Len(out.rows) + out.failed = Len(a)
                             /\ \A i \in Trans!Good(Len(a)) : out.rows[Trans!Cardinality(Trans!Good(i))] = a[i]
      BY DEF Trans!ContractReference
    <2>1. CASE out.status = "SchemaValidationError"
      <3>1. op.mode = "fail" /\ \E i \in 1..Len(a) : ~Trans!Meets(a[i], op.schema)
        BY <2>1 DEF Trans!Done, TransInv, ContractOK, Reached
      <3> QED BY <2>1, <3>1 DEF Trans!Elements
    <2>2. CASE out.status # "SchemaValidationError"
      <3>1. Checked(out.rows, out.failed, a, op.schema, Len(a))
        BY <2>2 DEF Trans!Done, TransInv, ContractOK, Reached
      <3>2. \A n : Trans!Good(n) = GoodOf(a, op.schema, n)
        BY DEF Trans!Good, GoodOf
      <3>3. \A r \in Trans!Elements(out.rows) : Trans!Meets(r, op.schema)
        BY <3>1 DEF Checked, Trans!Elements, GoodOf
      <3> QED BY <2>2, <3>1, <3>2, <3>3, Counted DEF Checked
    <2> QED BY <2>1, <2>2
  <1>5. Trans!MergeReference
    <2> SUFFICES ASSUME Trans!Done("merge"), out.status = "ok"
                 PROVE  /\ op.mode = "union" => /\ Trans!Elements(out.rows) = Trans!Elements(a) \cup Trans!Elements(b)
                                                /\ Len(out.rows) = Trans!Cardinality(Trans!Elements(out.rows))
                        /\ op.mode = "concat" => out.rows = a \o b
                        /\ op.mode = "appendWithSourceTag" =>
                              /\ Len(out.rows) = Len(a) + Len(b)
                              /\ \A i \in 1..Len(out.rows) :
                                    LET r == out.rows[i].f IN
                                    /\ r._source = (IF i <= Len(a) THEN 0 ELSE 1) /\ DOMAIN r = DOMAIN Trans!Row(i).f \cup {"_source"}
                                    /\ \A f \in DOMAIN r \ {"_source"} : r[f] = Trans!Row(i).f[f]
      BY DEF Trans!MergeReference
    <2>1. ASSUME op.mode = "union"
          PROVE  /\ Trans!Elements(out.rows) = Trans!Elements(a) \cup Trans!Elements(b)
                 /\ Len(out.rows) = Trans!Cardinality(Trans!Elements(out.rows))
      <3>1. United(out.rows, Whole(a, b), Len(a) + Len(b))
        BY <2>1 DEF Trans!Done, TransInv, UnionOK, Reached
      <3>2. /\ Trans!Elements(Whole(a, b)) = Trans!Elements(a) \cup Trans!Elements(b)
            /\ Len(Whole(a, b)) = Len(a) + Len(b)
        BY <1>1, Wholes
      <3>3. Trans!Elements(out.rows) = Trans!Elements(Whole(a, b))
        <4> DEFINE w == Whole(a, b)
                   n == Len(a) + Len(b)
        <4>1. /\ \A i \in 1..Len(out.rows) : \E j \in 1..n : out.rows[i] = w[j]
              /\ \A j \in 1..n : \E i \in 1..Len(out.rows) : out.rows[i] = w[j]
          BY <3>1 DEF United
        <4>2. Trans!Elements(w) = {w[j] : j \in 1..n}
          BY <3>2 DEF Trans!Elements
        <4>3. Trans!Elements(out.rows) = {out.rows[i] : i \in 1..Len(out.rows)}
          BY DEF Trans!Elements
        <4> HIDE DEF w, n
        <4>4. \A x : x \in Trans!Elements(out.rows) <=> x \in Trans!Elements(w)
          BY <4>1, <4>2, <4>3
        <4> QED BY <4>4 DEF w
      <3>4. Trans!Elements(out.rows) = {out.rows[i] : i \in 1..Len(out.rows)}
        BY DEF Trans!Elements
      <3>5. \A i, k \in 1..Len(out.rows) : i < k => out.rows[i] # out.rows[k]
        BY <3>1 DEF United
      <3>6. out.rows = [i \in 1..Len(out.rows) |-> out.rows[i]]
        BY <1>1
      <3> QED BY <1>1, <3>2, <3>3, <3>4, <3>5, <3>6, CountRows, Counted
    <2>2. ASSUME op.mode = "concat" PROVE out.rows = a \o b
      BY <2>2 DEF Trans!Done, TransInv, ConcatOK
    <2>3. ASSUME op.mode = "appendWithSourceTag"
          PROVE  /\ Len(out.rows) = Len(a) + Len(b)
                 /\ \A i \in 1..Len(out.rows) :
                       LET r == out.rows[i].f IN
                       /\ r._source = (IF i <= Len(a) THEN 0 ELSE 1) /\ DOMAIN r = DOMAIN Trans!Row(i).f \cup {"_source"}
                       /\ \A f \in DOMAIN r \ {"_source"} : r[f] = Trans!Row(i).f[f]
      <3>1. Tagged(out.rows, Whole(a, b), Len(a), Len(a) + Len(b))
        BY <2>3 DEF Trans!Done, TransInv, TagOK, Reached
      <3>2. ASSUME NEW i \in 1..Len(out.rows)
            PROVE  out.rows[i] = Tag(Whole(a, b), Len(a), i) /\ Whole(a, b)[i] = Trans!Row(i)
        BY <1>1, <3>1 DEF Tagged, Whole, Trans!Row
      <3> QED BY <3>1, <3>2, TagFields DEF Tagged
    <2> QED BY <2>1, <2>2, <2>3
  <1>6. Trans!JoinReference
    <2> SUFFICES ASSUME Trans!Done("merge"), op.mode \in Trans!Joins, out.status = "ok", Trans!Distinct(a), Trans!Distinct(b)
                 PROVE  /\ Trans!Elements(out.rows) =
                              PairsOf(a, b) \cup (IF op.mode = "innerJoin" THEN {} ELSE Trans!Lonely(a, b))
                                            \cup (IF op.mode = "outerJoin" THEN Trans!Lonely(b, a) ELSE {})
                        /\ Len(out.rows) = Trans!Cardinality(Trans!Elements(out.rows))
      BY DEF Trans!JoinReference, Trans!Pairs, PairsOf
    <2>1. /\ Joinable(InputRecords, a, b) /\ joinKeys \in Seq(Nat) /\ KeysOf(joinKeys, a, b, op.mode)
          /\ Joint(out.rows, joinKeys, a, b, op.mode, Len(joinKeys))
      BY DEF Trans!Done, TransInv, JoinOK, Reached
    <2> QED BY <1>1, <2>1, JoinEnds, Counted
  <1> QED BY <1>2, <1>3, <1>4, <1>5, <1>6

(* dedupeHandler, contractHandler, MergeArrays: what is written is, for    *)
(* every input, what the references say: one record for each key, in       *)
(* order; what conforms, with the rest counted; the union and the tagged   *)
(* append; and with unique keys the relational joins.                      *)
THEOREM TransformsAreExact ==
  ASSUME Trans!TransformsAssumption
  PROVE  Trans!Spec =>
             [](Trans!DedupeReference /\ Trans!ContractReference /\ Trans!MergeReference /\ Trans!JoinReference)
  <1>1. Trans!Init => TransInv
    BY TransStarts
  <1>2. TransInv /\ [Trans!Next]_(Trans!vars) => TransInv'
    BY TransSteps
  <1>3. TransInv => Trans!DedupeReference /\ Trans!ContractReference /\ Trans!MergeReference /\ Trans!JoinReference
    BY TransImplies DEF Trans!TransformsAssumption, InputRecords
  <1> QED BY <1>1, <1>2, <1>3, PTL DEF Trans!Spec

=============================================================================
