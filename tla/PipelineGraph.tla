--------------------------- MODULE PipelineGraph ---------------------------
(***************************************************************************)
(* What a pipeline definition goes through before its nodes run: the       *)
(* checks of validatePipeline when it is saved, and buildPlan when a run    *)
(* starts.  Both walk the graph with a queue of nodes whose predecessors   *)
(* are done; the walks are kept, one step per node and one per level.      *)
(* A node is [id, type, activity, policy, agent]: policy is "none", "ok"   *)
(* or "bad" (timeoutSec or maximumAttempts out of range), agent says that  *)
(* the config satisfies the agent contract.  sql says that the transform   *)
(* and, for Flink, the columns and names satisfy the engine's spec.        *)
(***************************************************************************)
EXTENDS Integers, Sequences, FiniteSets, SequencesExt, FiniteSetsExt

CONSTANTS
    Definitions     \* the definitions of the requests: [nodes, edges, engine, sql]

(* A definition has a sequence of nodes and a sequence of edges.           *)
IsSequence(s) == Len(s) \in Nat /\ DOMAIN s = 1..Len(s)
DefinitionsAssumption ==
    \A d \in Definitions :
        /\ IsSequence(d.nodes) /\ IsSequence(d.edges)
        /\ \A i \in DOMAIN d.nodes : d.nodes[i].policy \in {"none", "ok", "bad"}

VARIABLES def, pc, indegree, queue, visited, levels, outcome

vars == <<def, pc, indegree, queue, visited, levels, outcome>>

NodeSet == ToSet(def.nodes)
Ids == {n.id : n \in NodeSet}
Edges == DOMAIN def.edges
NodesOf(type) == {i \in DOMAIN def.nodes : def.nodes[i].type = type}
Incoming(id) == {e \in Edges : def.edges[e][2] = id}
OwnEngine == def.engine \notin {"", "workflow"}

(* ValidateAgentNodes and ValidateAgentAdmission: an agent node needs its  *)
(* type, its activity, the workflow engine, its config and exactly one     *)
(* edge from another node; it is refused all the same.                     *)
IsAgent(n) == n.type = "agent" \/ n.activity = "agent.run"
AgentNodeValid(n) ==
    /\ n.type = "agent" /\ n.activity = "agent.run"
    /\ ~OwnEngine /\ n.agent
    /\ Cardinality(Incoming(n.id)) = 1
    /\ \A e \in Incoming(n.id) : def.edges[e][1] \in Ids \ {n.id}
AgentContractOnly == \A n \in NodeSet : IsAgent(n) => AgentNodeValid(n)
AgentAdmission ==
    /\ \A n \in NodeSet : IsAgent(n) => AgentNodeValid(n)
    /\ \A n \in NodeSet : n.type # "agent"

NodePolicies == \A n \in NodeSet : n.policy # "bad" /\ (n.policy = "ok" => ~OwnEngine)

(* A layer other than bronze, silver or gold is refused like a bad type.   *)
NodesValid ==
    /\ \A n \in NodeSet : n.type \in {"source", "transform", "sink", "fork", "merge", "agent"}
    /\ \A n \in NodeSet : n.type \notin {"fork", "merge"} => n.activity # ""
    /\ Cardinality(Ids) = Len(def.nodes)

EdgesKnown == \A e \in Edges : def.edges[e][1] \in Ids /\ def.edges[e][2] \in Ids

(* The checks before the walk, in their order: the reason of the refusal.  *)
FirstRefusal ==
    CASE def.nodes = <<>> -> "empty"
      [] def.engine \notin {"", "workflow", "stream-direct", "spark-sql", "flink-sql"} -> "engine"
      [] ~AgentAdmission -> "agent"
      [] ~NodePolicies -> "policy"
      [] ~NodesValid -> "node"
      [] ~EdgesKnown -> "edge"
      [] OTHER -> ""

OneSourceOneSink == Cardinality(NodesOf("source")) = 1 /\ Cardinality(NodesOf("sink")) = 1

StreamActivities ==
    {"kafka.fetch", "transform.map", "transform.filter", "transform.rename", "transform.parse",
     "transform.contract", "sink.postgres", "sink.mysql", "sink.mongodb", "sink.clickhouse"}
validateStreamDirect ==
    /\ \A n \in NodeSet : n.activity \in StreamActivities
    /\ OneSourceOneSink
    /\ Len(def.edges) = Len(def.nodes) - 1

validateSparkSQL ==
    /\ def.sql
    /\ \A i \in NodesOf("source") : def.nodes[i].activity \in {"s3.fetch", "iceberg.fetch"}
    /\ \A i \in NodesOf("sink") : def.nodes[i].activity \in {"sink.iceberg", "sink.clickhouse"}
    /\ NodesOf("transform") = {}
    /\ OneSourceOneSink

validateFlinkSQL ==
    /\ def.sql
    /\ \A i \in NodesOf("source") : def.nodes[i].activity = "kafka.fetch"
    /\ \A i \in NodesOf("sink") : def.nodes[i].activity = "sink.clickhouse"
    /\ NodesOf("transform") = {}
    /\ OneSourceOneSink

EngineAccepts ==
    CASE def.engine = "stream-direct" -> validateStreamDirect
      [] def.engine = "spark-sql" -> validateSparkSQL
      [] def.engine = "flink-sql" -> validateFlinkSQL
      [] OTHER -> TRUE

InDegrees == [id \in Ids |-> Cardinality(Incoming(id))]
Roots == {id \in Ids : InDegrees[id] = 0}

(* The pass over the edges that leave the nodes in `ids`: every edge       *)
(* lowers the count of its target, and a target joins the queue when its   *)
(* count reaches zero.  The order in which targets join is left open.      *)
Lowered(ids, id) == Cardinality({e \in Incoming(id) : def.edges[e][1] \in ids})
LowerTargets(ids) == [id \in Ids |-> indegree[id] - Lowered(ids, id)]
Ready(ids) == {id \in Ids : indegree[id] \in 1..Lowered(ids, id)}

-----------------------------------------------------------------------------

Init ==
    /\ def \in Definitions
    /\ pc = "check" /\ outcome = ""
    /\ indegree = <<>> /\ queue = <<>> /\ visited = 0 /\ levels = <<>>

Refuse(reason) == pc' = "refused" /\ outcome' = reason

(* The queue starts in the order of a Go map: any order.                   *)
Check ==
    /\ pc = "check"
    /\ \/ FirstRefusal # "" /\ Refuse(FirstRefusal) /\ UNCHANGED <<indegree, queue>>
       \/ /\ FirstRefusal = ""
          /\ indegree' = InDegrees
          /\ queue' \in SetToSeqs(Roots)
          /\ pc' = "walk"
          /\ UNCHANGED outcome
    /\ UNCHANGED <<def, visited, levels>>

Pop ==
    /\ pc = "walk" /\ queue # <<>>
    /\ indegree' = LowerTargets({Head(queue)})
    /\ queue' \in {Tail(queue) \o ready : ready \in SetToSeqs(Ready({Head(queue)}))}
    /\ visited' = visited + 1
    /\ UNCHANGED <<def, pc, levels, outcome>>

DecideUncounted ==
    /\ pc = "walk" /\ queue = <<>>
    /\ pc' = IF EngineAccepts THEN "accepted" ELSE "refused"
    /\ UNCHANGED <<def, indegree, queue, visited, levels, outcome>>

Decide ==
    /\ pc = "walk" /\ queue = <<>>
    /\ \/ visited # Len(def.nodes) /\ Refuse("cycle")
       \/ visited = Len(def.nodes) /\ ~EngineAccepts /\ Refuse("shape")
       \/ visited = Len(def.nodes) /\ EngineAccepts /\ pc' = "accepted" /\ UNCHANGED outcome
    /\ UNCHANGED <<def, indegree, queue, visited, levels>>

(* buildPlan, on a definition that was accepted; the order of the nodes    *)
(* within a level is left open.                                            *)
StartPlanUncleared ==
    /\ pc = "accepted"
    /\ pc' = "plan" /\ levels' = <<>>
    /\ indegree' = InDegrees
    /\ queue' \in SetToSeqs(Roots)
    /\ UNCHANGED <<def, outcome, visited>>

StartPlan ==
    /\ pc = "accepted"
    /\ pc' = "plan" /\ visited' = 0 /\ levels' = <<>>
    /\ indegree' = InDegrees
    /\ queue' \in SetToSeqs(Roots)
    /\ UNCHANGED <<def, outcome>>

AddNode ==
    /\ pc = "plan" /\ queue # <<>>
    /\ levels' = Append(levels, <<Head(queue)>>)
    /\ visited' = visited + 1
    /\ indegree' = LowerTargets({Head(queue)})
    /\ queue' \in {Tail(queue) \o ready : ready \in SetToSeqs(Ready({Head(queue)}))}
    /\ UNCHANGED <<def, pc, outcome>>

AddLevel ==
    /\ pc = "plan" /\ queue # <<>>
    /\ levels' = Append(levels, queue)
    /\ visited' = visited + Len(queue)
    /\ indegree' = LowerTargets(ToSet(queue))
    /\ queue' \in SetToSeqs(Ready(ToSet(queue)))
    /\ UNCHANGED <<def, pc, outcome>>

ReturnPlan ==
    /\ pc = "plan" /\ queue = <<>>
    /\ pc' = IF visited = Len(def.nodes) THEN "planned" ELSE "failed"
    /\ UNCHANGED <<def, indegree, queue, visited, levels, outcome>>

Next == Check \/ Pop \/ Decide \/ StartPlan \/ AddLevel \/ ReturnPlan

Spec == Init /\ [][Next]_vars

-----------------------------------------------------------------------------

(* The counters of the walk are never negative, and the queue only holds   *)
(* nodes of the definition.                                                *)
TypeOK ==
    /\ pc \in {"check", "walk", "refused", "accepted", "plan", "planned", "failed"}
    /\ pc \notin {"check", "refused"} => indegree \in [Ids -> Nat]
    /\ ToSet(queue) \subseteq Ids
    /\ visited \in Nat

(* The reference for "contains a cycle": a set of nodes none of which can  *)
(* be the first, every one having a predecessor in the set.                *)
Cyclic ==
    \E S \in (SUBSET Ids) \ {{}} :
        \A id \in S : \E e \in Edges : def.edges[e][2] = id /\ def.edges[e][1] \in S

(* validatePipeline refuses a graph as cyclic exactly when it has a cycle, *)
(* whatever the order of its queue, with parallel edges and self-loops.    *)
CycleExact ==
    /\ outcome = "cycle" => Cyclic
    /\ pc \in {"accepted", "plan", "planned"} => ~Cyclic

(* A definition that was saved can be planned: buildPlan, which walks the  *)
(* graph with its own code when the run starts, never refuses what the     *)
(* save accepted.                                                          *)
SavedCanBePlanned == pc # "failed"

(* The levels of a plan hold every node exactly once, and a node's level   *)
(* is the one right after the last of its predecessors: no node runs       *)
(* before its inputs, and none waits longer than it must.                  *)
LevelOf(id) == CHOOSE l \in DOMAIN levels : id \in ToSet(levels[l])
Places(id) == {p \in (DOMAIN levels) \X (1..Len(def.nodes)) : p[2] <= Len(levels[p[1]]) /\ levels[p[1]][p[2]] = id}
PlanOrdered ==
    pc = "planned" =>
        /\ \A id \in Ids : Cardinality(Places(id)) = 1
        /\ \A id \in Ids :
             LevelOf(id) = 1 + Max({0} \cup {LevelOf(def.edges[e][1]) : e \in Incoming(id)})

(* What is planned can run as it was defined: no node would call the       *)
(* reserved agent.run, no policy is ignored by an engine without policies, *)
(* and an engine with its own job has exactly one end on each side.        *)
PlannedIsRunnable ==
    pc = "planned" =>
        /\ \A n \in NodeSet : n.activity # "agent.run" /\ n.type # "agent"
        /\ def.engine \in {"stream-direct", "spark-sql", "flink-sql"} =>
             \A n \in NodeSet : n.policy = "none" /\
                (n.type \in {"source", "sink"} => \A m \in NodeSet : m.type = n.type => m = n)

=============================================================================
