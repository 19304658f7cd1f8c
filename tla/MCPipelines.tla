---------------------------- MODULE MCPipelines -----------------------------
(* What the API keeps about pipelines, side by side: versions, sharing and *)
(* schedules, the check of a graph and its plan, the comparison of         *)
(* contracts, the paged listings, and the plan of a backfill.  A behaviour *)
(* takes the steps of the component that `scenario` names, and leaves the  *)
(* others where they begin.                                                *)
EXTENDS Integers, Sequences, FiniteSets

SX == INSTANCE SequencesExt

VARIABLES
    scenario,
    from, to, partitionDays, planCursor, partitions, planOutcome,  \* BackfillPlan
    pipelineRow, schedule, saveJob,                                \* PipelineLifecycle
    def, pc, indegree, queue, visited, levels, graphOutcome,       \* PipelineGraph
    prod, asked, override, promotion,                              \* Contracts
    pageRows, match, pageClock, walk, pageCursor, listed, kept     \* ListPages

planVars == <<from, to, partitionDays, planCursor, partitions, planOutcome>>
lifecycleVars == <<pipelineRow, schedule, saveJob>>
graphVars == <<def, pc, indegree, queue, visited, levels, graphOutcome>>
contractVars == <<prod, asked, override, promotion>>
pageVars == <<pageRows, match, pageClock, walk, pageCursor, listed, kept>>
pipelinesVars == <<scenario, planVars, lifecycleVars, graphVars, contractVars, pageVars>>

(* Requests for backfills: ranges of up to ten days, of two hours each.    *)
SomeInstants == 0..20
SomeDays == -1..5
Plan == INSTANCE BackfillPlan WITH
    cursor <- planCursor, outcome <- planOutcome,
    Instant <- SomeInstants, DaysRequested <- SomeDays, DayHours <- 2, MaxDays <- 4, MaxPartitions <- 5

-----------------------------------------------------------------------------
(* Two members who share and save, one request at a time; two requests at  *)
(* once; versions with and without a promised field, one request at a      *)
(* time; and cron versions while Temporal answers.                         *)
Plain == {[cron |-> FALSE, fields |-> {}]}
Cron == {[cron |-> TRUE, fields |-> {}]}
Promising == {[cron |-> FALSE, fields |-> f] : f \in {{}, {"id"}}}
Sharing == INSTANCE PipelineLifecycle WITH
    row <- pipelineRow, job <- saveJob,
    User <- {"u1", "u2"}, Owner <- {}, Request <- {"q1"}, Definition <- Plain,
    Existing <- FALSE, Grants <- {0, 2}, Reliable <- FALSE, MaxRows <- 2
Concurrent == INSTANCE PipelineLifecycle WITH
    row <- pipelineRow, job <- saveJob,
    User <- {"o1"}, Owner <- {"o1"}, Request <- {"q1", "q2"}, Definition <- Cron,
    Existing <- TRUE, Grants <- {}, Reliable <- FALSE, MaxRows <- 3
Promotions == INSTANCE PipelineLifecycle WITH
    row <- pipelineRow, job <- saveJob,
    User <- {"o1"}, Owner <- {"o1"}, Request <- {"q1"}, Definition <- Promising,
    Existing <- TRUE, Grants <- {}, Reliable <- TRUE, MaxRows <- 4
Schedules == INSTANCE PipelineLifecycle WITH
    row <- pipelineRow, job <- saveJob,
    User <- {"o1"}, Owner <- {"o1"}, Request <- {"q1"}, Definition <- Cron,
    Existing <- TRUE, Grants <- {}, Reliable <- TRUE, MaxRows <- 4

(* All the graphs of four nodes and four edges, parallel edges, loops and  *)
(* dangling edges included; and the kinds of nodes and the engines that    *)
(* the checks tell apart, on graphs of at most two edges.  Ids are the     *)
(* positions; one definition repeats an id.                                *)
Kind(type, activity) == [id |-> 0, type |-> type, activity |-> activity, policy |-> "none", agent |-> FALSE]
PlainKinds == {Kind("transform", "transform.map")}
AllKinds ==
    {Kind("source", "kafka.fetch"), Kind("transform", "transform.map"), Kind("sink", "sink.clickhouse"),
     Kind("source", "iceberg.fetch"), Kind("transform", ""), Kind("agent", "transform.map"),
     [Kind("agent", "agent.run") EXCEPT !.agent = TRUE],
     [Kind("transform", "transform.map") EXCEPT !.policy = "ok"],
     [Kind("transform", "transform.map") EXCEPT !.policy = "bad"]}
NodeSeqs(kinds, n) ==
    {[i \in DOMAIN s |-> [s[i] EXCEPT !.id = i]] : s \in SX!SeqOf(kinds, n)}
      \cup {<<[k EXCEPT !.id = 1], [k EXCEPT !.id = 1]>> : k \in kinds}
Graphs(kinds, n, m, engines, sqls) ==
    UNION {[nodes : {ns}, edges : SX!SeqOf((0..Len(ns)) \X (1..Len(ns)), m), engine : engines, sql : sqls] :
              ns \in NodeSeqs(kinds, n)}
ShapeGraphs == Graphs(PlainKinds, 4, 4, {"workflow"}, {TRUE})
EngineGraphs == Graphs(AllKinds, 2, 2, {"", "stream-direct", "spark-sql", "flink-sql", "batch"}, BOOLEAN)
EmptyGraph == {[nodes |-> <<>>, edges |-> <<>>, engine |-> "workflow", sql |-> TRUE]}
Shapes == INSTANCE PipelineGraph WITH outcome <- graphOutcome, Definitions <- ShapeGraphs
Engines == INSTANCE PipelineGraph WITH outcome <- graphOutcome, Definitions <- EngineGraphs
NoGraph == INSTANCE PipelineGraph WITH outcome <- graphOutcome, Definitions <- EmptyGraph

(* Definitions with a contract b before the sink k, with a transform x in  *)
(* between, or with the contract on no way to the sink; without a contract *)
(* or without a sink.  And every sequence of up to four edges, without a   *)
(* cycle, between two contracts, a plain node and a sink.                  *)
Fields(types) == UNION {[fs -> [type : types, optional : {FALSE}]] : fs \in SUBSET {"f", "g"}}
Ways == {<<<<"a", "b">>, <<"b", "k">>>>, <<<<"a", "b">>, <<"b", "x">>, <<"x", "k">>>>,
         <<<<"a", "b">>, <<"a", "k">>>>}
Mapped(types) == [{"b"} -> [form : {"map"}, fields : Fields(types)]]
Compared ==
    [nodes : {{"a", "b", "x", "k"}}, edges : Ways, schema : Mapped({"string", "number"})]
      \cup [nodes : {{"a", "x", "k"}}, edges : {<<<<"a", "k">>>>}, schema : [{} -> {}]]
      \cup [nodes : {{"a", "b", "x"}}, edges : {<<<<"a", "b">>, <<"b", "x">>>>}, schema : Mapped({"string"})]
Rank == [c |-> 1, x |-> 2, b |-> 3, k |-> 4]
Edges == {e \in (DOMAIN Rank) \X (DOMAIN Rank) : Rank[e[1]] < Rank[e[2]]}
Sequences4 == UNION {{s \in [1..n -> Edges] : SX!IsInjective(s)} : n \in 0..4}
Typed(f) == [g \in {f} |-> [type |-> "string", optional |-> FALSE]]
Schemas(forms) == {[b |-> [form |-> m, fields |-> Typed("f")], c |-> [form |-> n, fields |-> Typed("g")]] :
                      m \in forms, n \in forms}
ContractShapes == [nodes : {DOMAIN Rank}, edges : Sequences4, schema : Schemas({"map", "text"})]
OneShape == [nodes : {DOMAIN Rank}, edges : {<<<<"b", "k">>>>}, schema : Schemas({"map"})]
Compare == INSTANCE Contracts WITH answer <- promotion, Sink <- {"k"}, Current <- Compared, Candidate <- Compared
Extract == INSTANCE Contracts WITH answer <- promotion, Sink <- {"k"}, Current <- ContractShapes, Candidate <- OneShape
NoPromotion == INSTANCE Contracts WITH answer <- promotion, Sink <- {"k"}, Current <- OneShape, Candidate <- OneShape

(* Versions of one pipeline, and the current versions of two pipelines, a  *)
(* row a page.                                                             *)
Versions == INSTANCE ListPages WITH
    rows <- pageRows, clock <- pageClock, cursor <- pageCursor,
    Route <- "pipelines", Keys <- {"k1"}, MaxId <- 3, MaxTime <- 2, Limit <- 1
Currents == INSTANCE ListPages WITH
    rows <- pageRows, clock <- pageClock, cursor <- pageCursor,
    Route <- "current", Keys <- {"k1", "k2"}, MaxId <- 3, MaxTime <- 2, Limit <- 1
Lineage == INSTANCE ListPages WITH
    rows <- pageRows, clock <- pageClock, cursor <- pageCursor,
    Route <- "lineage", Keys <- {"k1"}, MaxId <- 3, MaxTime <- 2, Limit <- 1

ASSUME PipelinesAssumption ==
    /\ Plan!PlanAssumption /\ Sharing!OwnerAssumption /\ Concurrent!OwnerAssumption /\ Promotions!OwnerAssumption
    /\ Schedules!OwnerAssumption /\ Versions!ListPagesAssumption /\ Currents!ListPagesAssumption
    /\ Lineage!ListPagesAssumption /\ Shapes!DefinitionsAssumption /\ Engines!DefinitionsAssumption

-----------------------------------------------------------------------------
PipelinesInit ==
    /\ scenario \in {"plan", "sharing", "concurrent", "promotions", "schedules", "shapes", "engines",
                     "compare", "extract", "versions", "currents", "lineage"}
    /\ Plan!Init /\ (scenario # "plan" => Plan!request = <<0, 0, 1>>)
    /\ CASE scenario = "concurrent" -> Concurrent!Init
         [] scenario = "promotions" -> Promotions!Init
         [] scenario = "schedules" -> Schedules!Init
         [] OTHER -> Sharing!Init
    /\ CASE scenario = "shapes" -> Shapes!Init
         [] scenario = "engines" -> Engines!Init
         [] OTHER -> NoGraph!Init
    /\ CASE scenario = "compare" -> Compare!Init
         [] scenario = "extract" -> Extract!Init
         [] OTHER -> NoPromotion!Init
    /\ CASE scenario = "currents" -> Currents!Init
         [] scenario = "lineage" -> Lineage!Init
         [] OTHER -> Versions!Init

PlanStep ==
    /\ scenario = "plan" /\ Plan!Next
    /\ UNCHANGED <<scenario, lifecycleVars, graphVars, contractVars, pageVars>>

LifecycleStep ==
    /\ \/ scenario = "sharing" /\ Sharing!Next
       \/ scenario = "concurrent" /\ Concurrent!Next
       \/ scenario = "promotions" /\ Promotions!Next
       \/ scenario = "schedules" /\ Schedules!Next
    /\ UNCHANGED <<scenario, planVars, graphVars, contractVars, pageVars>>

GraphStep ==
    /\ \/ scenario = "shapes" /\ Shapes!Next
       \/ scenario = "engines" /\ Engines!Next
    /\ UNCHANGED <<scenario, planVars, lifecycleVars, contractVars, pageVars>>

ContractStep ==
    /\ \/ scenario = "compare" /\ Compare!Next
       \/ scenario = "extract" /\ Extract!Next
    /\ UNCHANGED <<scenario, planVars, lifecycleVars, graphVars, pageVars>>

PageStep ==
    /\ \/ scenario = "versions" /\ Versions!Next
       \/ scenario = "currents" /\ Currents!Next
       \/ scenario = "lineage" /\ Lineage!Next
    /\ UNCHANGED <<scenario, planVars, lifecycleVars, graphVars, contractVars>>

PipelinesNext == PlanStep \/ LifecycleStep \/ GraphStep \/ ContractStep \/ PageStep
PipelinesSpec == PipelinesInit /\ [][PipelinesNext]_pipelinesVars

-----------------------------------------------------------------------------
(* planBackfill: the partitions of a plan cover the requested range, each  *)
(* instant once; a range is refused for its size exactly when it needs     *)
(* more partitions than the limit.                                         *)
PlanExact == scenario = "plan" => Plan!PlanCoversRange /\ Plan!PlanSizeExact

(* Concurrent activations and promotions, failures included, leave one     *)
(* active version in an environment, and a production version is a tested  *)
(* version, unchanged.  syncSchedule, one request at a time and cron       *)
(* triggers only: at rest a schedule runs an active version.               *)
VersionsConsistent ==
    /\ scenario = "sharing" => Sharing!TypeOK
    /\ scenario = "concurrent" => Concurrent!OneActive /\ Concurrent!ProductionWasTested
    /\ scenario = "schedules" => Schedules!ScheduleFollowsActive

(* What a new version takes over, one request at a time.  updatePipeline:  *)
(* whoever could use the latest version can use the one saved after it.    *)
(* createProductionVersion: a member may do with the production version    *)
(* what the member may do with the version it was made from; and without   *)
(* an override it keeps the fields of the version it replaces.             *)
VersionsCarryOver ==
    [][/\ scenario = "sharing" => Sharing!CarriesSharing /\ Sharing!CarriesRoles
       /\ scenario = "promotions" => Promotions!KeepsContract]_pipelinesVars

(* compareContracts: without an override a promotion keeps, for each sink  *)
(* with one contract, the sink, a contract for it and its typed fields;    *)
(* a version that only adds fields is promoted, and what is refused leaves *)
(* the production version.  extractContracts finds a contract for exactly  *)
(* the sinks that have one upstream, whatever the edges' order.            *)
ContractsCompared ==
    [][/\ scenario = "compare" => Compare!TypeOK /\ Compare!BlocksBreaking /\ Compare!PassesAdditive
       /\ scenario = "extract" => Extract!ContractFound]_pipelinesVars

(* validatePipeline refuses a graph as cyclic exactly when it has a cycle, *)
(* and buildPlan never refuses one that was accepted: every node comes     *)
(* once, right after the last of its predecessors, and what is planned can *)
(* run as defined (no reserved node, no ignored policy, one end on each    *)
(* side of an engine's own job).                                           *)
DefinitionsExact ==
    /\ scenario = "shapes" =>
        Shapes!TypeOK /\ Shapes!CycleExact /\ Shapes!SavedCanBePlanned /\ Shapes!PlanOrdered
    /\ scenario = "engines" => Engines!PlannedIsRunnable

(* Keyset paging: a walk lists every row that was there all along, however *)
(* rows are inserted, refiltered and share a created_at meanwhile, and no  *)
(* row is in two of its pages.                                             *)
WalksComplete ==
    /\ scenario = "versions" => Versions!TypeOK /\ Versions!WalkComplete /\ Versions!ListedOnce
    /\ scenario = "currents" => Currents!WalkComplete /\ Currents!ListedOnce
    /\ scenario = "lineage" => Lineage!WalkComplete

=============================================================================
