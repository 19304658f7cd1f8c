------------------------------- MODULE Contracts -------------------------------
(***************************************************************************)
(* The comparison of data contracts when a version is promoted:            *)
(* extractContracts, compareContracts and their use in                     *)
(* createProductionVersion (api/routes_pipelines.go).  The other gates of  *)
(* a promotion are in PipelineLifecycle.                                   *)
(*                                                                         *)
(* A definition is a record: nodes, edges (a sequence of pairs, in the     *)
(* order of the definition) and, for each transform.contract node, its     *)
(* schemaJson: the fields with their specs, as an object ("map") or as     *)
(* JSON text ("text"), which contractHandler accepts both.                 *)
(***************************************************************************)
EXTENDS Naturals, SequencesExt, Relation

CONSTANTS Sink,        \* names of sink nodes
          Current,     \* definitions that may be in production at first
          Candidate    \* definitions that may be promoted

VARIABLES prod,        \* definition of the active production version
          asked,       \* definition of the last promotion
          override,    \* its allowBreakingContract
          answer       \* "promoted" or "breaking"
vars == <<prod, asked, override, answer>>

Definitions == Current \cup Candidate
ContractNodes(d) == DOMAIN d.schema
Sinks(d) == d.nodes \cap Sink

-----------------------------------------------------------------------------
Incoming(d, n) == LET into == SelectSeq(d.edges, LAMBDA e : e[2] = n)
                  IN  [i \in DOMAIN into |-> into[i][1]]

(* Only an object is a contract to extractContracts.                       *)
HasSchema(d, n) == n \in ContractNodes(d) /\ d.schema[n].form = "map"

(* findContract, depth first: the sources still to look at and the nodes   *)
(* already entered.  At most one schema.                                   *)
FirstBranchOnly(d, n, rest) == Incoming(d, n)
Onwards(d, n, rest) == Incoming(d, n) \o rest
FindContract(d, start, entered) ==
    LET Find[sources \in Seq(d.nodes), visited \in SUBSET d.nodes] ==
            IF sources = <<>> THEN {}
            ELSE LET n == Head(sources) IN
                 IF HasSchema(d, n) THEN {d.schema[n].fields}
                 ELSE IF n \in visited THEN Find[Tail(sources), visited]
                 ELSE Find[Onwards(d, n, Tail(sources)), visited \cup {n}]
    IN  Find[start, entered]

ContractOf(d, s) == FindContract(d, Incoming(d, s), {s})
ExtractContracts(d) ==
    [s \in {k \in Sinks(d) : ContractOf(d, k) # {}} |-> CHOOSE c \in ContractOf(d, s) : TRUE]

(* trimOptional: the marker of an optional field is not compared.          *)
FieldBreaks(old, new, f) == f \notin DOMAIN new \/ old[f].type # new[f].type

TypesOnly(old, new) == \E s \in DOMAIN old \cap DOMAIN new :
    \E f \in DOMAIN old[s] \cap DOMAIN new[s] : old[s][f].type # new[s][f].type
BothDirections(old, new) == \E s \in DOMAIN old :
    s \notin DOMAIN new \/ DOMAIN old[s] # DOMAIN new[s] \/ \E f \in DOMAIN old[s] : FieldBreaks(old[s], new[s], f)
CompareContracts(old, new) == \E s \in DOMAIN old :
    s \notin DOMAIN new \/ \E f \in DOMAIN old[s] : FieldBreaks(old[s], new[s], f)

-----------------------------------------------------------------------------
Init == prod \in Current /\ asked = prod /\ override = FALSE /\ answer = "promoted"

CreateProductionVersion(d, allow) ==
    LET breaks == CompareContracts(ExtractContracts(prod), ExtractContracts(d)) /\ ~allow IN
    /\ asked' = d /\ override' = allow
    /\ prod' = IF breaks THEN prod ELSE d
    /\ answer' = IF breaks THEN "breaking" ELSE "promoted"

Next == \E d \in Candidate, allow \in BOOLEAN : CreateProductionVersion(d, allow)
Spec == Init /\ [][Next]_vars

-----------------------------------------------------------------------------
(* A refused promotion leaves the version in production that was there:    *)
(* what is in production is what was last asked for, or was not replaced.  *)
TypeOK == /\ prod \in Definitions /\ asked \in Definitions
          /\ override \in BOOLEAN /\ answer \in {"promoted", "breaking"}
          /\ answer = "promoted" => prod = asked
          /\ answer = "breaking" => ~override /\ prod # asked

(* Reference: the contracts a record may pass on its way to sink s.        *)
EdgeMatrix(d) == [p \in d.nodes \X d.nodes |-> Contains(d.edges, p)]
Upstream(d, s) == LET closure == TransitiveClosure(EdgeMatrix(d), d.nodes)
                  IN  {n \in d.nodes : closure[<<n, s>>]}
Published(d, s) == ContractNodes(d) \cap Upstream(d, s)

(* extractContracts finds a contract for exactly the sinks that have one   *)
(* upstream, whatever the order of the edges and the way between them, and *)
(* takes it from one of those nodes.                                       *)
ContractFound == \A s \in Sinks(prod) :
    LET maps == {n \in Published(prod, s) : prod.schema[n].form = "map"} IN
    ContractOf(prod, s) \subseteq {prod.schema[n].fields : n \in maps}
    /\ (s \in DOMAIN ExtractContracts(prod) <=> maps # {})

Keeps(old, new) == \A f \in DOMAIN old : f \in DOMAIN new /\ old[f].type = new[f].type

(* A promotion without an override keeps, for each sink with one contract, *)
(* the sink, a contract for it, and its fields with their types.           *)
BlocksBreaking == prod' # prod /\ ~override' =>
    \A s \in Sinks(prod), c \in ContractNodes(prod) : Published(prod, s) = {c} =>
        s \in Sinks(prod') /\ \E k \in Published(prod', s) : Keeps(prod.schema[c].fields, prod'.schema[k].fields)

(* A version that only adds fields to the contracts is promoted.           *)
Additive(old, new) ==
    /\ old.nodes = new.nodes /\ old.edges = new.edges
    /\ \A c \in ContractNodes(old) : Keeps(old.schema[c].fields, new.schema[c].fields)
PassesAdditive == Additive(prod, asked') => answer' = "promoted"

================================================================================
