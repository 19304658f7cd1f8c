---------------------------- MODULE CrossRunDedupe ----------------------------
(***************************************************************************)
(* transform.dedupe with scope "pipeline": filterCrossRunDedupe drops the  *)
(* records whose hash is in dedupe_keys and hands the others on with a     *)
(* checkpoint; the workflow commits the checkpoints once every node has    *)
(* succeeded (activities.go, dynamic_dag.go, execution_control.go).  Runs  *)
(* of the pipeline overlap, nodes fail, and the commit inserts the keys of *)
(* one node after another, fails in the middle and is tried again.         *)
(*                                                                         *)
(* An attempt of a node whose answer is lost leaves a payload nobody       *)
(* refers to and is the same as one that has not begun; what counts is the *)
(* attempt that is answered.  Each dedupe node leads to a sink of its own. *)
(***************************************************************************)
EXTENDS Naturals, FiniteSets, SequencesExt

CONSTANTS Run, Node, Key,
          Version,       \* pipeline rows: dedupe_keys are kept for each of them
          MaxAttempts    \* attempts of commitDedupeKeys

ASSUME NodesAreFinite == IsFiniteSet(Node)
ASSUME AttemptsAreCounted == MaxAttempts \in Nat

VARIABLES
    keys,     \* dedupe_keys: <<version, node, key>>
    run,      \* runs of the pipeline
    sent,     \* <<run, node, key>> the sinks have written
    dropped   \* <<run, node, key>> filtered out
vars == <<keys, run, sent, dropped>>

Unused == [at |-> "unused"]
Started(v, rows) ==
    [at |-> "nodes", version |-> v, rows |-> rows, node |-> [n \in Node |-> "idle"],
     existing |-> [n \in Node |-> {}], fresh |-> [n \in Node |-> {}],
     \* History: keys a partial answer left out, and the runs that had completed then.
     missed |-> [n \in Node |-> {}], after |-> [n \in Node |-> {}],
     order |-> <<>>, pos |-> 1, attempts |-> 0]

At(r, s) == run[r].at = s
NodeAt(r, n, s) == At(r, "nodes") /\ run[r].node[n] = s
Set(r, new) == run' = [run EXCEPT ![r] = new]

Init == keys = {} /\ run = [r \in Run |-> Unused] /\ sent = {} /\ dropped = {}

Start(r) == /\ At(r, "unused")
            /\ \E v \in Version, rows \in [Node -> SUBSET Key] : Set(r, Started(v, rows))
            /\ UNCHANGED <<keys, sent, dropped>>

-----------------------------------------------------------------------------
(* SELECT key_hash FROM dedupe_keys.  The rows are read until there are no *)
(* more: that the connection broke before the last of them is not noticed. *)
ExistingKeys(r, n) == {k \in run[r].rows[n] : <<run[r].version, n, k>> \in keys}

FilterReads(r, n) ==
    /\ NodeAt(r, n, "idle")
    /\ \E rest \in SUBSET ExistingKeys(r, n) :
          Set(r, [run[r] EXCEPT !.node[n] = "read", !.existing[n] = ExistingKeys(r, n) \ rest,
                                !.missed[n] = rest, !.after[n] = {o \in Run : At(o, "completed")}])
    /\ UNCHANGED <<keys, sent, dropped>>

FilterAnswers(r, n) ==
    /\ NodeAt(r, n, "read")
    /\ Set(r, [run[r] EXCEPT !.node[n] = "filtered", !.fresh[n] = run[r].rows[n] \ run[r].existing[n]])
    /\ dropped' = dropped \cup {<<r, n, k>> : k \in run[r].existing[n]}
    /\ UNCHANGED <<keys, sent>>

SinkWrites(r, n) ==
    /\ NodeAt(r, n, "filtered")
    /\ Set(r, [run[r] EXCEPT !.node[n] = "success"])
    /\ sent' = sent \cup {<<r, n, k>> : k \in run[r].fresh[n]}
    /\ UNCHANGED <<keys, dropped>>

(* The dedupe node or its sink has used up its attempts.                   *)
NodeFails(r, n) ==
    /\ At(r, "nodes") /\ run[r].node[n] # "success"
    /\ Set(r, [run[r] EXCEPT !.node[n] = "failed"])
    /\ UNCHANGED <<keys, sent, dropped>>

-----------------------------------------------------------------------------
(* The checkpoints are collected from a map: their order is any.           *)
Ended(r) == At(r, "nodes") /\ \A n \in Node : run[r].node[n] \in {"success", "failed"}
CommitsAlways(r) ==
    /\ Ended(r)
    /\ \E order \in SetToSeqs(Node) : Set(r, [run[r] EXCEPT !.at = "commit", !.order = order])
    /\ UNCHANGED <<keys, sent, dropped>>
DagEnds(r) ==
    /\ Ended(r)
    /\ IF \E n \in Node : run[r].node[n] = "failed" THEN Set(r, [run[r] EXCEPT !.at = "failed"])
       ELSE \E order \in SetToSeqs(Node) : Set(r, [run[r] EXCEPT !.at = "commit", !.order = order])
    /\ UNCHANGED <<keys, sent, dropped>>

StopsAtEmpty(r, n) == IF run[r].fresh[n] = {} THEN Len(run[r].order) + 1 ELSE run[r].pos + 1
(* A node without new hashes is passed over.                               *)
NextCheckpoint(r, n) == run[r].pos + 1

CommitDedupeKeys(r) ==
    /\ At(r, "commit") /\ run[r].pos \in DOMAIN run[r].order
    /\ LET n == run[r].order[run[r].pos] IN
       /\ keys' = keys \cup {<<run[r].version, n, k>> : k \in run[r].fresh[n]}
       /\ Set(r, [run[r] EXCEPT !.pos = NextCheckpoint(r, n)])
    /\ UNCHANGED <<sent, dropped>>

CommitAnswered(r) ==
    /\ At(r, "commit") /\ run[r].pos > Len(run[r].order)
    /\ Set(r, [run[r] EXCEPT !.at = "completed"])
    /\ UNCHANGED <<keys, sent, dropped>>

(* A payload cannot be read, a statement fails, or the answer is lost.     *)
CommitFails(r) ==
    /\ At(r, "commit")
    /\ Set(r, IF run[r].attempts + 1 < MaxAttempts
              THEN [run[r] EXCEPT !.pos = 1, !.attempts = @ + 1]
              ELSE [run[r] EXCEPT !.at = "failed"])
    /\ UNCHANGED <<keys, sent, dropped>>

Next == \E r \in Run : \/ Start(r) \/ DagEnds(r) \/ CommitDedupeKeys(r) \/ CommitAnswered(r) \/ CommitFails(r)
                       \/ \E n \in Node : FilterReads(r, n) \/ FilterAnswers(r, n) \/ SinkWrites(r, n) \/ NodeFails(r, n)
Spec == Init /\ [][Next]_vars

-----------------------------------------------------------------------------
(* The runs that have been started.                                        *)
RunRecord ==
    [at : {"nodes", "commit", "completed", "failed"}, version : Version, rows : [Node -> SUBSET Key],
     node : [Node -> {"idle", "read", "filtered", "success", "failed"}],
     existing : [Node -> SUBSET Key], fresh : [Node -> SUBSET Key],
     missed : [Node -> SUBSET Key], after : [Node -> SUBSET Run],
     order : {<<>>} \cup SetToSeqs(Node), pos : 1 .. Cardinality(Node) + 1, attempts : Nat]

(* The type of the state: the position in the checkpoints is one of them   *)
(* or the end.                                                             *)
TypeOK == /\ run \in [Run -> {Unused} \cup RunRecord]
          /\ keys \subseteq Version \X Node \X Key
          /\ sent \subseteq Run \X Node \X Key /\ dropped \subseteq Run \X Node \X Key

(* What is filtered out has been written by a run of the same version all  *)
(* of whose nodes succeeded: nothing a failed run left half done is lost,  *)
(* and one version does not drop the records of another.                   *)
DroppedWasDelivered == \A d \in dropped : \E r \in Run :
    /\ <<r, d[2], d[3]>> \in sent
    /\ run[r].version = run[d[1]].version
    /\ \A n \in Node : run[r].node[n] = "success"

(* A record is written twice only by runs that overlap, or when the commit *)
(* of the first was given up, or when its key was in the part of an answer *)
(* that got lost: a run that completed is never repeated else.             *)
DeliveredOnce == \A r, o \in Run : \A n \in Node, k \in Key :
    {<<r, n, k>>, <<o, n, k>>} \subseteq sent /\ run[r].version = run[o].version
        => r \notin run[o].after[n] \/ k \in run[o].missed[n]
================================================================================
