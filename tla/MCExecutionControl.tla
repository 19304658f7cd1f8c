------------------------- MODULE MCExecutionControl -------------------------
(* Small pipelines for ExecutionControl.  The node names are strings; each  *)
(* cfg picks one of the pipelines.                                          *)
EXTENDS ExecutionControl

(* Two sinks that run in parallel.                                          *)
ParNodes == {"a", "b"}
ParBatches == <<{"a", "b"}>>
ParUpstream == [n \in ParNodes |-> {}]
ParKind == [n \in ParNodes |-> "dispatch"]
ParConditions == [n \in ParNodes |-> 0]
ParAttempts == [n \in ParNodes |-> 1]

(* One sink with a budget of three attempts.                                *)
OneNodes == {"a"}
OneBatches == <<{"a"}>>
OneUpstream == [n \in OneNodes |-> {}]
OneKind == [n \in OneNodes |-> "dispatch"]
OneConditions == [n \in OneNodes |-> 0]
OneAttempts == [n \in OneNodes |-> 3]

(* The same sink with two attempts, for the liveness run.                   *)
LiveNodes == OneNodes
LiveBatches == OneBatches
LiveUpstream == OneUpstream
LiveKind == OneKind
LiveConditions == OneConditions
LiveAttempts == [n \in OneNodes |-> 2]

(* A paged source, a conditional fork and a sink in a chain.                *)
DagNodes == {"src", "fork", "sink"}
DagBatches == <<{"src"}, {"fork"}, {"sink"}>>
DagUpstream == [n \in DagNodes |-> CASE n = "src" -> {} [] n = "fork" -> {"src"}
                                     [] OTHER -> {"fork"}]
DagKind == [n \in DagNodes |-> CASE n = "src" -> "source" [] n = "fork" -> "fork"
                                 [] OTHER -> "dispatch"]
DagConditions == [n \in DagNodes |-> IF n = "fork" THEN 1 ELSE 0]
DagAttempts == [n \in DagNodes |-> 1]

=============================================================================
