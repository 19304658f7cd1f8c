----------------------------- MODULE SuiteProofs -----------------------------
(***************************************************************************)
(* What the suites of TLC's runs show of their components, by proof.       *)
(*                                                                         *)
(* CrossRunDedupe, which the data suite uses under its own names, comes    *)
(* first.  A record is dropped only when a run all of whose nodes          *)
(* succeeded has written it, for any number of runs, nodes, keys and       *)
(* versions: the invariant ties each key to such a run (Backed), and each  *)
(* key a run has read to the table (Read); keys are only ever added, and a *)
(* node that has succeeded stays so.  And a record is written twice only   *)
(* by runs that overlap, or after a part of an answer was lost: OnceInv    *)
(* says which keys of a committing run are in the table, and that a node   *)
(* filtered after a run had completed has read its keys or lost them.      *)
(*                                                                         *)
(* The components of MCTriggers and MCIdentity, with the constants of      *)
(* their runs, are instances of TriggerProofs and IdentityProofs, and a    *)
(* behaviour of a suite is one of the component that `trigger` or          *)
(* `concern` names.  DataSuiteProofs does the same for MCData, and         *)
(* BackfillProofs for MCPipelines.                                         *)
(***************************************************************************)
EXTENDS CrossRunDedupe, MCTriggers, MCIdentity, FiniteSetTheorems, TLAPS

Succeeded(r) == ~ At(r, "unused") /\ \A n \in Node : run[r].node[n] = "success"

(* What a started run has read is in the table.                            *)
Read == \A r \in Run : ~ At(r, "unused") =>
            \A n \in Node : \A k \in run[r].existing[n] : <<run[r].version, n, k>> \in keys

(* A node that has succeeded has written what it let through.              *)
Written == \A r \in Run : ~ At(r, "unused") =>
            \A n \in Node : run[r].node[n] = "success" => \A k \in run[r].fresh[n] : <<r, n, k>> \in sent

(* Only runs whose nodes have all succeeded commit.                        *)
CommitsSucceeded == \A r \in Run : At(r, "commit") => Succeeded(r)

(* Each key has been written by a run of its version that succeeded.       *)
Backed == \A v \in Version, n \in Node, k \in Key : <<v, n, k>> \in keys =>
            \E r \in Run : <<r, n, k>> \in sent /\ Succeeded(r) /\ run[r].version = v

(* Each dropped record has its key in the table.                           *)
DroppedIsKey == \A r \in Run, n \in Node, k \in Key : <<r, n, k>> \in dropped =>
            ~ At(r, "unused") /\ <<run[r].version, n, k>> \in keys

KeysInv == TypeOK /\ Read /\ Written /\ CommitsSucceeded /\ Backed /\ DroppedIsKey

-----------------------------------------------------------------------------
(* A started run is a record; a run that is not at "unused" has started.   *)
LEMMA StartedIsRecord ==
  ASSUME TypeOK, NEW r \in Run
  PROVE  /\ ~ At(r, "unused") => run[r] \in RunRecord
         /\ At(r, "unused") <=> run[r] = Unused
  BY DEF TypeOK, At, RunRecord, Unused

(* The number of nodes is a natural number.                                *)
LEMMA NodeCount == Cardinality(Node) \in Nat
  BY NodesAreFinite, FS_CardinalityType

(* The checkpoints are those of nodes, one position for each node.         *)
LEMMA OrderType ==
  ASSUME NEW perm \in {<<>>} \cup SetToSeqs(Node), NEW i \in DOMAIN perm
  PROVE  perm[i] \in Node /\ i \in 1 .. Cardinality(Node)
  <1>1. CASE perm = <<>>
    BY <1>1
  <1>2. CASE perm \in SetToSeqs(Node)
    BY <1>2 DEF SetToSeqs
  <1> QED BY <1>1, <1>2

(* A run as it starts is a record.                                         *)
LEMMA StartedType ==
  ASSUME NEW v \in Version, NEW records \in [Node -> SUBSET Key]
  PROVE  Started(v, records) \in RunRecord
  BY NodeCount DEF Started, RunRecord

(* Replacing a run by a record keeps the type.                             *)
LEMMA SetType ==
  ASSUME TypeOK, NEW r \in Run, NEW new \in RunRecord, Set(r, new)
  PROVE  /\ run' \in [Run -> {Unused} \cup RunRecord]
         /\ run'[r] = new
         /\ \A o \in Run \ {r} : run'[o] = run[o]
  BY DEF TypeOK, Set

(* The initial state has no runs, no keys and no records.                  *)
LEMMA InitInv == Init => KeysInv
  BY DEF Init, KeysInv, TypeOK, Read, Written, CommitsSucceeded, Backed, DroppedIsKey, At, Unused

-----------------------------------------------------------------------------
(* What a step of one started run leaves true: it keeps its version and    *)
(* the nodes that have succeeded, and nothing is removed from the tables.  *)
Advances(r, new) ==
    /\ ~ At(r, "unused") /\ Set(r, new)
    /\ new.version = run[r].version
    /\ \A n \in Node : run[r].node[n] = "success" => new.node[n] = "success" /\ new.fresh[n] = run[r].fresh[n]
    /\ keys \subseteq keys' /\ sent \subseteq sent'

LEMMA Frame ==
  ASSUME KeysInv, NEW r \in Run, NEW new \in RunRecord, Advances(r, new)
  PROVE  /\ run' \in [Run -> {Unused} \cup RunRecord]
         /\ run'[r] = new /\ \A o \in Run \ {r} : run'[o] = run[o]
         /\ \A o \in Run : ~ At(o, "unused") => ~ At(o, "unused")' /\ run'[o].version = run[o].version
         /\ \A o \in Run : Succeeded(o) => Succeeded(o)'
         /\ \A v \in Version, n \in Node, k \in Key : <<v, n, k>> \in keys =>
               \E o \in Run : <<o, n, k>> \in sent' /\ Succeeded(o)' /\ run'[o].version = v
         /\ \A o \in Run, n \in Node, k \in Key : <<o, n, k>> \in dropped =>
               ~ At(o, "unused")' /\ <<run'[o].version, n, k>> \in keys'
  <1>1. /\ run' \in [Run -> {Unused} \cup RunRecord]
        /\ run'[r] = new /\ \A o \in Run \ {r} : run'[o] = run[o]
    BY SetType DEF KeysInv, Advances
  <1>2. new.at # "unused"
    BY DEF RunRecord
  <1>3. \A o \in Run : ~ At(o, "unused") => ~ At(o, "unused")' /\ run'[o].version = run[o].version
    BY <1>1, <1>2 DEF Advances, At
  <1>4. \A o \in Run : Succeeded(o) => Succeeded(o)'
    BY <1>1, <1>3 DEF Advances, Succeeded
  <1>5. ASSUME NEW v \in Version, NEW n \in Node, NEW k \in Key, <<v, n, k>> \in keys
        PROVE  \E o \in Run : <<o, n, k>> \in sent' /\ Succeeded(o)' /\ run'[o].version = v
    <2>1. PICK o \in Run : <<o, n, k>> \in sent /\ Succeeded(o) /\ run[o].version = v
      BY <1>5 DEF KeysInv, Backed
    <2> QED BY <2>1, <1>3, <1>4 DEF Advances, Succeeded
  <1>6. \A o \in Run, n \in Node, k \in Key : <<o, n, k>> \in dropped =>
               ~ At(o, "unused")' /\ <<run'[o].version, n, k>> \in keys'
    BY <1>3 DEF KeysInv, DroppedIsKey, Advances
  <1> QED BY <1>1, <1>3, <1>4, <1>5, <1>6

(* The parts of the invariant that need no thought once the changed run is *)
(* known to satisfy them.                                                  *)
LEMMA Step ==
  ASSUME KeysInv, NEW r \in Run, NEW new \in RunRecord, Advances(r, new),
         keys' \subseteq Version \X Node \X Key, sent' \subseteq Run \X Node \X Key,
         \A n \in Node : \A k \in new.existing[n] : <<new.version, n, k>> \in keys',
         \A n \in Node : new.node[n] = "success" => \A k \in new.fresh[n] : <<r, n, k>> \in sent',
         new.at = "commit" => \A n \in Node : new.node[n] = "success",
         dropped' \subseteq dropped \cup {<<r, n, k>> : n \in Node, k \in Key},
         \A n \in Node, k \in Key : <<r, n, k>> \in dropped' \ dropped => <<new.version, n, k>> \in keys',
         \A v \in Version, n \in Node, k \in Key : <<v, n, k>> \in keys' \ keys =>
             \E o \in Run : <<o, n, k>> \in sent' /\ Succeeded(o)' /\ run'[o].version = v
  PROVE  KeysInv'
  <1>1. /\ run' \in [Run -> {Unused} \cup RunRecord]
        /\ run'[r] = new /\ \A o \in Run \ {r} : run'[o] = run[o]
    BY Frame
  <1>2. new.at # "unused" /\ ~ At(r, "unused")'
    BY <1>1 DEF RunRecord, At
  <1>3. TypeOK'
    BY <1>1 DEF KeysInv, TypeOK
  <1>4. Read'
    BY <1>1, <1>2 DEF KeysInv, Read, At, Advances
  <1>5. Written'
    BY <1>1, <1>2 DEF KeysInv, Written, At, Advances
  <1>6. CommitsSucceeded'
    BY <1>1, <1>2 DEF KeysInv, CommitsSucceeded, At, Succeeded
  <1>7. Backed'
    <2> SUFFICES ASSUME NEW v \in Version, NEW n \in Node, NEW k \in Key, <<v, n, k>> \in keys'
                 PROVE  \E o \in Run : <<o, n, k>> \in sent' /\ Succeeded(o)' /\ run'[o].version = v
      BY DEF Backed
    <2>1. CASE <<v, n, k>> \in keys
      BY <2>1, Frame
    <2>2. CASE <<v, n, k>> \notin keys
      BY <2>2
    <2> QED BY <2>1, <2>2
  <1>8. DroppedIsKey'
    <2> SUFFICES ASSUME NEW o \in Run, NEW n \in Node, NEW k \in Key, <<o, n, k>> \in dropped'
                 PROVE  ~ At(o, "unused")' /\ <<run'[o].version, n, k>> \in keys'
      BY DEF DroppedIsKey
    <2>1. CASE <<o, n, k>> \in dropped
      BY <2>1, Frame
    <2>2. CASE <<o, n, k>> \notin dropped
      <3>1. o = r
        BY <2>2
      <3> QED BY <3>1, <2>2, <1>1, <1>2
    <2> QED BY <2>1, <2>2
  <1> QED BY <1>3, <1>4, <1>5, <1>6, <1>7, <1>8 DEF KeysInv

-----------------------------------------------------------------------------
(* A new run has read nothing and no record refers to it.                  *)
LEMMA StartInv == ASSUME KeysInv, NEW r \in Run, Start(r) PROVE KeysInv'
  <1>1. PICK v \in Version, records \in [Node -> SUBSET Key] : Set(r, Started(v, records))
    BY DEF Start
  <1> DEFINE new == Started(v, records)
  <1>2. new \in RunRecord
    BY StartedType
  <1>3. new.at = "nodes" /\ \A n \in Node : new.existing[n] = {} /\ new.node[n] = "idle"
    BY DEF Started
  <1> HIDE DEF new
  <1>4. /\ run' \in [Run -> {Unused} \cup RunRecord]
        /\ run'[r] = new /\ \A o \in Run \ {r} : run'[o] = run[o]
    BY <1>1, <1>2, SetType DEF KeysInv, new
  <1>5. keys' = keys /\ sent' = sent /\ dropped' = dropped /\ At(r, "unused")
    BY DEF Start
  <1>6. \A o \in Run : ~ At(o, "unused") => run'[o] = run[o]
    BY <1>4, <1>5
  <1>7. TypeOK'
    BY <1>4, <1>5 DEF KeysInv, TypeOK
  <1>8. Read'
    BY <1>3, <1>4, <1>5 DEF KeysInv, Read, At
  <1>9. Written'
    BY <1>3, <1>4, <1>5 DEF KeysInv, Written, At
  <1>10. CommitsSucceeded'
    BY <1>3, <1>4, <1>5 DEF KeysInv, CommitsSucceeded, At, Succeeded
  <1>11. Backed'
    <2> SUFFICES ASSUME NEW w \in Version, NEW n \in Node, NEW k \in Key, <<w, n, k>> \in keys
                 PROVE  \E o \in Run : <<o, n, k>> \in sent /\ Succeeded(o)' /\ run'[o].version = w
      BY <1>5 DEF Backed
    <2>1. PICK o \in Run : <<o, n, k>> \in sent /\ Succeeded(o) /\ run[o].version = w
      BY DEF KeysInv, Backed
    <2> QED BY <2>1, <1>6 DEF Succeeded, At
  <1>12. DroppedIsKey'
    BY <1>5, <1>6 DEF KeysInv, DroppedIsKey, At
  <1> QED BY <1>7, <1>8, <1>9, <1>10, <1>11, <1>12 DEF KeysInv

(* A node reads what is in the table, or a part of it.                     *)
LEMMA FilterReadsInv == ASSUME KeysInv, NEW r \in Run, NEW n \in Node, FilterReads(r, n) PROVE KeysInv'
  <1>0. PICK rest \in SUBSET ExistingKeys(r, n) :
            Set(r, [run[r] EXCEPT !.node[n] = "read", !.existing[n] = ExistingKeys(r, n) \ rest,
                                  !.missed[n] = rest, !.after[n] = {o \in Run : At(o, "completed")}])
    BY DEF FilterReads
  <1> DEFINE found == ExistingKeys(r, n) \ rest
             new == [run[r] EXCEPT !.node[n] = "read", !.existing[n] = found,
                                   !.missed[n] = rest, !.after[n] = {o \in Run : At(o, "completed")}]
  <1>1. run[r] \in RunRecord /\ run[r].at = "nodes" /\ run[r].node[n] = "idle" /\ ~ At(r, "unused")
    BY StartedIsRecord DEF KeysInv, FilterReads, NodeAt, At
  <1>2. found \in SUBSET Key /\ rest \in SUBSET Key /\ \A k \in found : <<run[r].version, n, k>> \in keys
    BY <1>1 DEF ExistingKeys, RunRecord
  <1> HIDE DEF found
  <1>3. new \in RunRecord
    BY <1>1, <1>2 DEF RunRecord
  <1>4. Set(r, new) /\ keys' = keys /\ sent' = sent /\ dropped' = dropped
    BY <1>0 DEF FilterReads, found
  <1>5. /\ new.version = run[r].version /\ new.at = "nodes"
        /\ \A m \in Node : new.node[m] = "success" => run[r].node[m] = "success"
        /\ \A m \in Node : run[r].node[m] = "success" => new.node[m] = "success"
        /\ \A m \in Node : new.fresh[m] = run[r].fresh[m]
        /\ \A m \in Node : m # n => new.existing[m] = run[r].existing[m]
        /\ new.existing[n] = found
    BY <1>1 DEF RunRecord
  <1> HIDE DEF new
  <1>6. Advances(r, new)
    BY <1>1, <1>4, <1>5 DEF Advances
  <1>7. \A m \in Node : \A k \in new.existing[m] : <<new.version, m, k>> \in keys'
    BY <1>1, <1>2, <1>4, <1>5 DEF KeysInv, Read
  <1>8. \A m \in Node : new.node[m] = "success" => \A k \in new.fresh[m] : <<r, m, k>> \in sent'
    BY <1>1, <1>4, <1>5 DEF KeysInv, Written
  <1> QED BY <1>3, <1>4, <1>5, <1>6, <1>7, <1>8, Step DEF KeysInv, TypeOK

(* A node drops what it has read.                                          *)
LEMMA FilterAnswersInv == ASSUME KeysInv, NEW r \in Run, NEW n \in Node, FilterAnswers(r, n) PROVE KeysInv'
  <1> DEFINE new == [run[r] EXCEPT !.node[n] = "filtered", !.fresh[n] = run[r].rows[n] \ run[r].existing[n]]
  <1>1. run[r] \in RunRecord /\ run[r].at = "nodes" /\ run[r].node[n] = "read" /\ ~ At(r, "unused")
    BY StartedIsRecord DEF KeysInv, FilterAnswers, NodeAt, At
  <1>2. new \in RunRecord
    BY <1>1 DEF RunRecord
  <1>3. Set(r, new) /\ keys' = keys /\ sent' = sent
    BY DEF FilterAnswers
  <1>4. dropped' = dropped \cup {<<r, n, k>> : k \in run[r].existing[n]}
    BY DEF FilterAnswers
  <1>5. /\ new.version = run[r].version /\ new.at = "nodes" /\ new.existing = run[r].existing
        /\ \A m \in Node : new.node[m] = "success" => run[r].node[m] = "success"
        /\ \A m \in Node : run[r].node[m] = "success" => new.node[m] = "success"
        /\ \A m \in Node : run[r].node[m] = "success" => new.fresh[m] = run[r].fresh[m]
    BY <1>1 DEF RunRecord
  <1> HIDE DEF new
  <1>6. Advances(r, new)
    BY <1>1, <1>3, <1>5 DEF Advances
  <1>7. \A m \in Node : \A k \in new.existing[m] : <<new.version, m, k>> \in keys'
    BY <1>1, <1>3, <1>5 DEF KeysInv, Read
  <1>8. \A m \in Node : new.node[m] = "success" => \A k \in new.fresh[m] : <<r, m, k>> \in sent'
    BY <1>1, <1>3, <1>5 DEF KeysInv, Written
  <1>9. run[r].existing[n] \subseteq Key
    BY <1>1 DEF RunRecord
  <1>10. dropped' \subseteq dropped \cup {<<r, m, k>> : m \in Node, k \in Key}
    BY <1>4, <1>9
  <1>11. \A m \in Node, k \in Key : <<r, m, k>> \in dropped' \ dropped => <<new.version, m, k>> \in keys'
    BY <1>4, <1>5, <1>7
  <1> QED BY <1>2, <1>3, <1>5, <1>6, <1>7, <1>8, <1>10, <1>11, Step DEF KeysInv, TypeOK

(* A node that succeeds has written what it let through.                   *)
LEMMA SinkWritesInv == ASSUME KeysInv, NEW r \in Run, NEW n \in Node, SinkWrites(r, n) PROVE KeysInv'
  <1> DEFINE new == [run[r] EXCEPT !.node[n] = "success"]
  <1>1. run[r] \in RunRecord /\ run[r].at = "nodes" /\ run[r].node[n] = "filtered" /\ ~ At(r, "unused")
    BY StartedIsRecord DEF KeysInv, SinkWrites, NodeAt, At
  <1>2. new \in RunRecord
    BY <1>1 DEF RunRecord
  <1>3. Set(r, new) /\ keys' = keys /\ dropped' = dropped
    BY DEF SinkWrites
  <1>4. sent' = sent \cup {<<r, n, k>> : k \in run[r].fresh[n]}
    BY DEF SinkWrites
  <1>5. /\ new.version = run[r].version /\ new.at = "nodes" /\ new.existing = run[r].existing
        /\ new.fresh = run[r].fresh
        /\ \A m \in Node : new.node[m] = "success" => m = n \/ run[r].node[m] = "success"
        /\ \A m \in Node : run[r].node[m] = "success" => new.node[m] = "success"
    BY <1>1 DEF RunRecord
  <1> HIDE DEF new
  <1>6. Advances(r, new)
    BY <1>1, <1>3, <1>4, <1>5 DEF Advances
  <1>7. \A m \in Node : \A k \in new.existing[m] : <<new.version, m, k>> \in keys'
    BY <1>1, <1>3, <1>5 DEF KeysInv, Read
  <1>8. \A m \in Node : new.node[m] = "success" => \A k \in new.fresh[m] : <<r, m, k>> \in sent'
    BY <1>1, <1>4, <1>5 DEF KeysInv, Written
  <1>9. sent' \subseteq Run \X Node \X Key
    <2>1. run[r].fresh[n] \subseteq Key
      BY <1>1 DEF RunRecord
    <2> QED BY <2>1, <1>4 DEF KeysInv, TypeOK
  <1> QED BY <1>2, <1>3, <1>5, <1>6, <1>7, <1>8, <1>9, Step DEF KeysInv, TypeOK

(* A failed node was not among those that had succeeded.                   *)
LEMMA NodeFailsInv == ASSUME KeysInv, NEW r \in Run, NEW n \in Node, NodeFails(r, n) PROVE KeysInv'
  <1> DEFINE new == [run[r] EXCEPT !.node[n] = "failed"]
  <1>1. run[r] \in RunRecord /\ run[r].at = "nodes" /\ run[r].node[n] # "success" /\ ~ At(r, "unused")
    BY StartedIsRecord DEF KeysInv, NodeFails, At
  <1>2. new \in RunRecord
    BY <1>1 DEF RunRecord
  <1>3. Set(r, new) /\ keys' = keys /\ sent' = sent /\ dropped' = dropped
    BY DEF NodeFails
  <1>4. /\ new.version = run[r].version /\ new.at = "nodes" /\ new.existing = run[r].existing
        /\ new.fresh = run[r].fresh
        /\ \A m \in Node : new.node[m] = "success" <=> run[r].node[m] = "success"
    BY <1>1 DEF RunRecord
  <1> HIDE DEF new
  <1>5. Advances(r, new)
    BY <1>1, <1>3, <1>4 DEF Advances
  <1>6. \A m \in Node : \A k \in new.existing[m] : <<new.version, m, k>> \in keys'
    BY <1>1, <1>3, <1>4 DEF KeysInv, Read
  <1>7. \A m \in Node : new.node[m] = "success" => \A k \in new.fresh[m] : <<r, m, k>> \in sent'
    BY <1>1, <1>3, <1>4 DEF KeysInv, Written
  <1> QED BY <1>2, <1>3, <1>4, <1>5, <1>6, <1>7, Step DEF KeysInv, TypeOK

(* A step of the workflow that leaves the nodes and the tables alone.      *)
LEMMA OnlyPosition ==
  ASSUME KeysInv, NEW r \in Run, NEW new \in RunRecord, ~ At(r, "unused"), Set(r, new),
         UNCHANGED <<keys, sent, dropped>>,
         new.version = run[r].version, new.node = run[r].node,
         new.existing = run[r].existing, new.fresh = run[r].fresh,
         new.at = "commit" => \A n \in Node : run[r].node[n] = "success"
  PROVE  KeysInv'
  <1>1. Advances(r, new)
    BY DEF Advances
  <1>2. \A m \in Node : \A k \in new.existing[m] : <<new.version, m, k>> \in keys'
    BY DEF KeysInv, Read
  <1>3. \A m \in Node : new.node[m] = "success" => \A k \in new.fresh[m] : <<r, m, k>> \in sent'
    BY DEF KeysInv, Written
  <1> QED BY <1>1, <1>2, <1>3, Step DEF KeysInv, TypeOK

(* The commit begins only when no node has failed.                         *)
LEMMA DagEndsInv == ASSUME KeysInv, NEW r \in Run, DagEnds(r) PROVE KeysInv'
  <1>1. run[r] \in RunRecord /\ ~ At(r, "unused")
    BY StartedIsRecord DEF KeysInv, DagEnds, Ended, At
  <1>2. CASE \E n \in Node : run[r].node[n] = "failed"
    <2> DEFINE new == [run[r] EXCEPT !.at = "failed"]
    <2>1. new \in RunRecord /\ new.at = "failed" /\ new.version = run[r].version /\ new.node = run[r].node
          /\ new.existing = run[r].existing /\ new.fresh = run[r].fresh
      BY <1>1 DEF RunRecord
    <2>2. Set(r, new) /\ UNCHANGED <<keys, sent, dropped>>
      BY <1>2 DEF DagEnds
    <2> QED BY <1>1, <2>1, <2>2, OnlyPosition
  <1>3. CASE ~ \E n \in Node : run[r].node[n] = "failed"
    <2>1. PICK perm \in SetToSeqs(Node) : Set(r, [run[r] EXCEPT !.at = "commit", !.order = perm])
      BY <1>3 DEF DagEnds
    <2> DEFINE new == [run[r] EXCEPT !.at = "commit", !.order = perm]
    <2>2. new \in RunRecord /\ new.version = run[r].version /\ new.node = run[r].node
          /\ new.existing = run[r].existing /\ new.fresh = run[r].fresh
      BY <1>1, <2>1 DEF RunRecord
    <2>3. \A n \in Node : run[r].node[n] = "success"
      BY <1>3 DEF DagEnds, Ended
    <2> QED BY <1>1, <2>1, <2>2, <2>3, OnlyPosition DEF DagEnds
  <1> QED BY <1>2, <1>3

(* The answer of the commit ends the run.                                  *)
LEMMA CommitAnsweredInv == ASSUME KeysInv, NEW r \in Run, CommitAnswered(r) PROVE KeysInv'
  <1> DEFINE new == [run[r] EXCEPT !.at = "completed"]
  <1>1. run[r] \in RunRecord /\ ~ At(r, "unused")
    BY StartedIsRecord DEF KeysInv, CommitAnswered, At
  <1>2. new \in RunRecord /\ new.at = "completed" /\ new.version = run[r].version /\ new.node = run[r].node
        /\ new.existing = run[r].existing /\ new.fresh = run[r].fresh
    BY <1>1 DEF RunRecord
  <1>3. Set(r, new) /\ UNCHANGED <<keys, sent, dropped>>
    BY DEF CommitAnswered
  <1> QED BY <1>1, <1>2, <1>3, OnlyPosition

(* A commit that fails begins again or is given up.                        *)
LEMMA CommitFailsInv == ASSUME KeysInv, NEW r \in Run, CommitFails(r) PROVE KeysInv'
  <1>1. run[r] \in RunRecord /\ ~ At(r, "unused") /\ run[r].at = "commit"
    BY StartedIsRecord DEF KeysInv, CommitFails, At
  <1>2. \A n \in Node : run[r].node[n] = "success"
    BY <1>1 DEF KeysInv, CommitsSucceeded, Succeeded, At
  <1>3. CASE run[r].attempts + 1 < MaxAttempts
    <2> DEFINE new == [run[r] EXCEPT !.pos = 1, !.attempts = @ + 1]
    <2>0. 1 \in 1 .. Cardinality(Node) + 1 /\ run[r].attempts + 1 \in Nat
      <3>1. run[r].attempts \in Nat
        BY <1>1 DEF RunRecord
      <3> QED BY <3>1, NodeCount
    <2>1. new \in RunRecord /\ new.version = run[r].version /\ new.node = run[r].node
          /\ new.existing = run[r].existing /\ new.fresh = run[r].fresh
      BY <1>1, <2>0 DEF RunRecord
    <2>2. Set(r, new) /\ UNCHANGED <<keys, sent, dropped>>
      BY <1>3 DEF CommitFails
    <2> QED BY <1>1, <1>2, <2>1, <2>2, OnlyPosition
  <1>4. CASE ~ (run[r].attempts + 1 < MaxAttempts)
    <2> DEFINE new == [run[r] EXCEPT !.at = "failed"]
    <2>1. new \in RunRecord /\ new.at = "failed" /\ new.version = run[r].version /\ new.node = run[r].node
          /\ new.existing = run[r].existing /\ new.fresh = run[r].fresh
      BY <1>1 DEF RunRecord
    <2>2. Set(r, new) /\ UNCHANGED <<keys, sent, dropped>>
      BY <1>4 DEF CommitFails
    <2> QED BY <1>1, <2>1, <2>2, OnlyPosition
  <1> QED BY <1>3, <1>4

(* The keys a run inserts are of records it has written, and it has        *)
(* succeeded.                                                              *)
LEMMA CommitDedupeKeysInv == ASSUME KeysInv, NEW r \in Run, CommitDedupeKeys(r) PROVE KeysInv'
  <1> DEFINE n == run[r].order[run[r].pos]
             new == [run[r] EXCEPT !.pos = NextCheckpoint(r, n)]
  <1>1. run[r] \in RunRecord /\ ~ At(r, "unused") /\ run[r].at = "commit"
    BY StartedIsRecord DEF KeysInv, CommitDedupeKeys, At
  <1>2. n \in Node /\ run[r].pos \in 1 .. Cardinality(Node)
    <2>1. run[r].order \in {<<>>} \cup SetToSeqs(Node) /\ run[r].pos \in DOMAIN run[r].order
      BY <1>1 DEF RunRecord, CommitDedupeKeys
    <2> QED BY <2>1, OrderType
  <1>3. NextCheckpoint(r, n) \in 1 .. Cardinality(Node) + 1
    BY <1>2, NodeCount DEF NextCheckpoint
  <1>4. new \in RunRecord /\ new.at = "commit" /\ new.version = run[r].version /\ new.node = run[r].node
        /\ new.existing = run[r].existing /\ new.fresh = run[r].fresh
    BY <1>1, <1>3 DEF RunRecord
  <1>5. Set(r, new) /\ UNCHANGED <<sent, dropped>>
        /\ keys' = keys \cup {<<run[r].version, n, k>> : k \in run[r].fresh[n]}
    BY DEF CommitDedupeKeys
  <1>6. Succeeded(r)
    BY <1>1 DEF KeysInv, CommitsSucceeded, At
  <1>7. run[r].fresh[n] \subseteq Key /\ run[r].version \in Version
    BY <1>1, <1>2 DEF RunRecord
  <1> HIDE DEF new, n
  <1>8. Advances(r, new)
    BY <1>1, <1>4, <1>5 DEF Advances
  <1>9. Succeeded(r)' /\ run'[r].version = run[r].version
    BY <1>1, <1>4, <1>6, <1>8, Frame
  <1>10. ASSUME NEW v \in Version, NEW m \in Node, NEW k \in Key, <<v, m, k>> \in keys' \ keys
         PROVE  \E o \in Run : <<o, m, k>> \in sent' /\ Succeeded(o)' /\ run'[o].version = v
    <2>1. v = run[r].version /\ m = n /\ k \in run[r].fresh[n]
      BY <1>5, <1>10
    <2>2. <<r, m, k>> \in sent'
      BY <2>1, <1>2, <1>5, <1>6 DEF KeysInv, Written, Succeeded
    <2> QED BY <2>1, <2>2, <1>9
  <1>11. \A m \in Node : \A k \in new.existing[m] : <<new.version, m, k>> \in keys'
    BY <1>1, <1>4, <1>5 DEF KeysInv, Read
  <1>12. \A m \in Node : new.node[m] = "success" => \A k \in new.fresh[m] : <<r, m, k>> \in sent'
    BY <1>1, <1>4, <1>5 DEF KeysInv, Written
  <1>13. keys' \subseteq Version \X Node \X Key
    BY <1>2, <1>5, <1>7 DEF KeysInv, TypeOK
  <1>14. \A m \in Node : new.node[m] = "success"
    BY <1>4, <1>6 DEF Succeeded
  <1>15. sent' \subseteq Run \X Node \X Key /\ dropped' = dropped
    BY <1>5 DEF KeysInv, TypeOK
  <1>16. /\ dropped' \subseteq dropped \cup {<<r, m, k>> : m \in Node, k \in Key}
         /\ \A m \in Node, k \in Key : <<r, m, k>> \in dropped' \ dropped => <<new.version, m, k>> \in keys'
    BY <1>15
  <1> QED BY <1>4, <1>8, <1>10, <1>11, <1>12, <1>13, <1>14, <1>15, <1>16, Step

-----------------------------------------------------------------------------
(* A step that changes nothing.                                            *)
LEMMA StutterInv == KeysInv /\ UNCHANGED vars => KeysInv'
  BY DEF vars, KeysInv, TypeOK, Read, Written, CommitsSucceeded, Backed, DroppedIsKey, Succeeded, At

(* The invariant holds in every reachable state, whatever the runs, nodes, *)
(* keys, versions and attempts of commitDedupeKeys.                        *)
THEOREM DedupeInvariance == Spec => []KeysInv
  <1>1. KeysInv /\ [Next]_vars => KeysInv'
    <2> SUFFICES ASSUME KeysInv, [Next]_vars PROVE KeysInv'
      OBVIOUS
    <2>1. CASE UNCHANGED vars
      BY <2>1, StutterInv
    <2>2. ASSUME NEW r \in Run,
                 \/ Start(r) \/ DagEnds(r) \/ CommitDedupeKeys(r) \/ CommitAnswered(r) \/ CommitFails(r)
                 \/ \E n \in Node : FilterReads(r, n) \/ FilterAnswers(r, n) \/ SinkWrites(r, n) \/ NodeFails(r, n)
          PROVE  KeysInv'
      BY <2>2, StartInv, DagEndsInv, CommitDedupeKeysInv, CommitAnsweredInv, CommitFailsInv,
         FilterReadsInv, FilterAnswersInv, SinkWritesInv, NodeFailsInv
    <2> QED BY <2>1, <2>2 DEF Next
  <1> QED BY <1>1, InitInv, PTL DEF Spec

(* Every variable keeps its type; the position of a commit is one of the   *)
(* checkpoints or the end.                                                 *)
THEOREM DedupeTypes == Spec => []TypeOK
  <1>1. KeysInv => TypeOK
    BY DEF KeysInv
  <1> QED BY <1>1, DedupeInvariance, PTL

(* filterCrossRunDedupe drops only what a run of the same version, all of  *)
(* whose nodes succeeded, has written.                                     *)
THEOREM DroppedSafe == Spec => []DroppedWasDelivered
  <1>1. KeysInv => DroppedWasDelivered
    <2> SUFFICES ASSUME KeysInv, NEW d \in dropped
                 PROVE  \E r \in Run : /\ <<r, d[2], d[3]>> \in sent
                                       /\ run[r].version = run[d[1]].version
                                       /\ \A n \in Node : run[r].node[n] = "success"
      BY DEF DroppedWasDelivered
    <2>1. PICK o \in Run, n \in Node, k \in Key : d = <<o, n, k>>
      BY DEF KeysInv, TypeOK
    <2>2. ~ At(o, "unused") /\ <<run[o].version, n, k>> \in keys
      BY <2>1 DEF KeysInv, DroppedIsKey
    <2>3. run[o].version \in Version
      BY <2>2, StartedIsRecord DEF KeysInv, RunRecord
    <2>4. PICK r \in Run : <<r, n, k>> \in sent /\ Succeeded(r) /\ run[r].version = run[o].version
      BY <2>2, <2>3 DEF KeysInv, Backed
    <2> QED BY <2>1, <2>4 DEF Succeeded
  <1> QED BY <1>1, DedupeInvariance, PTL

-----------------------------------------------------------------------------
(* DeliveredOnce.  What the checkpoints of a run r before `pos` name is in *)
(* the table, all of it once the run is completed (Booked); a record that  *)
(* was sent is one its node let through (SentIsFresh); and a node that     *)
(* was filtered after a run of its version had completed has read every    *)
(* key of that run that it had itself, or lost it with a part of the       *)
(* answer (Seen).                                                          *)
Lets(new) == \A n \in Node : /\ new.fresh[n] \subseteq new.rows[n] \ new.existing[n]
                             /\ new.node[n] \in {"idle", "read"} => new.fresh[n] = {}
                             /\ new.node[n] = "idle" => new.after[n] = {}
Begins(new) == new.at = "nodes" => new.pos = 1

Books(new, table) == \A n \in Node : \A k \in new.fresh[n] :
    \/ new.at \in {"nodes", "failed"}
    \/ <<new.version, n, k>> \in table
    \/ new.at = "commit" /\ \E i \in DOMAIN new.order : new.order[i] = n /\ new.pos <= i

Booked == \A r \in Run : ~ At(r, "unused") => Begins(run[r]) /\ Lets(run[r]) /\ Books(run[r], keys)

SentIsFresh == \A r \in Run, n \in Node, k \in Key : <<r, n, k>> \in sent =>
    ~ At(r, "unused") /\ run[r].node[n] = "success" /\ k \in run[r].fresh[n]

SeenBy(new, r, n) ==
    /\ At(r, "completed")
    /\ run[r].version = new.version =>
           run[r].fresh[n] \cap new.rows[n] \subseteq new.existing[n] \cup new.missed[n]
Seen == \A o \in Run : ~ At(o, "unused") => \A n \in Node : \A r \in run[o].after[n] : SeenBy(run[o], r, n)

OnceInv == KeysInv /\ Booked /\ SentIsFresh /\ Seen

(* A step of one run that has not completed, which keeps the nodes that    *)
(* have succeeded: the other runs have seen nothing of it.                 *)
LEMMA OnceStep ==
  ASSUME OnceInv, NEW r \in Run, NEW new \in RunRecord, Set(r, new), ~ At(r, "completed"), keys \subseteq keys',
         Begins(new), Lets(new), Books(new, keys'),
         ~ At(r, "unused") => \A n \in Node : run[r].node[n] = "success" =>
                                  new.node[n] = "success" /\ new.fresh[n] = run[r].fresh[n],
         \A o \in Run, n \in Node, k \in Key : <<o, n, k>> \in sent' =>
             <<o, n, k>> \in sent \/ (o = r /\ k \in new.fresh[n] /\ new.node[n] = "success"),
         \A n \in Node : \A q \in new.after[n] : SeenBy(new, q, n)
  PROVE  Booked' /\ SentIsFresh' /\ Seen'
  <1>1. run'[r] = new /\ \A o \in Run \ {r} : run'[o] = run[o]
    BY SetType DEF OnceInv, KeysInv
  <1>2. new.at # "unused"
    BY DEF RunRecord
  <1>3. Booked'
    <2> SUFFICES ASSUME NEW o \in Run, ~ At(o, "unused")' PROVE Begins(run'[o]) /\ Lets(run'[o]) /\ Books(run'[o], keys')
      BY DEF Booked
    <2>1. CASE o = r
      BY <1>1, <2>1
    <2>2. CASE o # r
      BY <1>1, <2>2 DEF OnceInv, Booked, Books, At
    <2> QED BY <2>1, <2>2
  <1>4. SentIsFresh'
    BY <1>1, <1>2 DEF OnceInv, SentIsFresh, At
  <1>5. ASSUME NEW o \in Run, ~ At(o, "unused")', NEW n \in Node, NEW q \in run'[o].after[n]
        PROVE  SeenBy(run[o], q, n)' /\ run'[o] = run'[o]
    <2>1. SeenBy(run'[o], q, n)
      BY <1>1, <1>5 DEF OnceInv, Seen, At
    <2>2. q \in Run
      BY <1>1, <1>5, StartedIsRecord DEF OnceInv, KeysInv, At, RunRecord
    <2>3. run'[q] = run[q]
      BY <1>1, <2>1, <2>2 DEF SeenBy
    <2> QED BY <2>1, <2>3 DEF SeenBy, At
  <1>6. Seen'
    BY <1>5 DEF Seen
  <1> QED BY <1>3, <1>4, <1>6

(* The same for steps after the nodes, and for all that leave the nodes of *)
(* the run, what they were given and what they let through alone.          *)
LEMMA OnceMoves ==
  ASSUME OnceInv, NEW r \in Run, NEW new \in RunRecord, Set(r, new), ~ At(r, "completed"), ~ At(r, "unused"),
         new.version = run[r].version, new.rows = run[r].rows, new.existing = run[r].existing,
         new.fresh = run[r].fresh, new.node = run[r].node, new.after = run[r].after, new.missed = run[r].missed,
         new.at # "nodes", keys \subseteq keys', Books(new, keys'), UNCHANGED sent
  PROVE  Booked' /\ SentIsFresh' /\ Seen'
  <1>1. Lets(new)
    BY DEF OnceInv, Booked, Lets
  <1>2. \A n \in Node : \A q \in new.after[n] : SeenBy(new, q, n)
    BY DEF OnceInv, Seen, SeenBy
  <1>3. Begins(new)
    BY DEF Begins
  <1> QED BY <1>1, <1>2, <1>3, OnceStep

(* An order of the checkpoints has all of them.                            *)
LEMMA OrderHasAll ==
  ASSUME NEW perm \in SetToSeqs(Node), NEW n \in Node
  PROVE  \E i \in DOMAIN perm : perm[i] = n
  <1>1. perm \in Injection(1..Cardinality(Node), Node)
    BY DEF SetToSeqs, Injection, IsInjective
  <1>2. Cardinality(1..Cardinality(Node)) = Cardinality(Node)
    BY NodeCount, FS_Interval
  <1>3. perm \in Surjection(1..Cardinality(Node), Node)
    BY <1>1, <1>2, NodesAreFinite, FS_Injection
  <1> QED BY <1>1, <1>3 DEF Injection, Surjection

(* A run whose nodes have ended gives up or begins to commit.              *)
LEMMA OnceDagEnds ==
  ASSUME OnceInv, NEW r \in Run, DagEnds(r)
  PROVE  Booked' /\ SentIsFresh' /\ Seen'
  <1>1. run[r] \in RunRecord /\ ~ At(r, "unused") /\ ~ At(r, "completed") /\ run[r].pos = 1
    BY StartedIsRecord DEF OnceInv, KeysInv, Booked, Begins, DagEnds, Ended, At
  <1>2. ASSUME Set(r, [run[r] EXCEPT !.at = "failed"]), keys' = keys, sent' = sent
        PROVE  Booked' /\ SentIsFresh' /\ Seen'
    <2> DEFINE new == [run[r] EXCEPT !.at = "failed"]
    <2>1. /\ new \in RunRecord /\ new.version = run[r].version /\ new.rows = run[r].rows /\ new.existing = run[r].existing
          /\ new.fresh = run[r].fresh /\ new.node = run[r].node /\ new.after = run[r].after
          /\ new.missed = run[r].missed /\ new.at = "failed"
      BY <1>1 DEF RunRecord
    <2>2. Set(r, new)
      BY <1>2
    <2> HIDE DEF new
    <2>3. Books(new, keys')
      BY <2>1 DEF Books
    <2> QED BY <1>1, <1>2, <2>1, <2>2, <2>3, OnceMoves
  <1>3. ASSUME NEW perm \in SetToSeqs(Node), Set(r, [run[r] EXCEPT !.at = "commit", !.order = perm]),
               keys' = keys, sent' = sent
        PROVE  Booked' /\ SentIsFresh' /\ Seen'
    <2> DEFINE new == [run[r] EXCEPT !.at = "commit", !.order = perm]
    <2>1. /\ new \in RunRecord /\ new.version = run[r].version /\ new.rows = run[r].rows /\ new.existing = run[r].existing
          /\ new.fresh = run[r].fresh /\ new.node = run[r].node /\ new.after = run[r].after
          /\ new.missed = run[r].missed /\ new.at = "commit"
          /\ new.order = perm /\ new.pos = 1
      BY <1>1 DEF RunRecord
    <2>2. Set(r, new)
      BY <1>3
    <2> HIDE DEF new
    <2>3. \A i \in DOMAIN perm : 1 <= i
      BY DEF SetToSeqs
    <2>4. Books(new, keys')
      BY <2>1, <2>3, OrderHasAll DEF Books
    <2> QED BY <1>1, <1>3, <2>1, <2>2, <2>4, OnceMoves
  <1> QED BY <1>2, <1>3 DEF DagEnds

(* The commit inserts the keys of one node after the other; an answer      *)
(* comes only when it has inserted all, and a repetition begins at once.   *)
LEMMA OnceCommits ==
  ASSUME OnceInv, NEW r \in Run, CommitDedupeKeys(r) \/ CommitAnswered(r) \/ CommitFails(r)
  PROVE  Booked' /\ SentIsFresh' /\ Seen'
  <1>1. /\ run[r] \in RunRecord /\ ~ At(r, "unused") /\ ~ At(r, "completed") /\ run[r].at = "commit"
        /\ run[r].pos \in Nat
    BY StartedIsRecord, NodeCount DEF OnceInv, KeysInv, CommitDedupeKeys, CommitAnswered, CommitFails, At, RunRecord
  <1>2. ASSUME NEW n \in Node, NEW k \in run[r].fresh[n]
        PROVE  <<run[r].version, n, k>> \in keys \/ \E i \in DOMAIN run[r].order : run[r].order[i] = n /\ run[r].pos <= i
    BY <1>1 DEF OnceInv, Booked, Books
  <1>3. ASSUME CommitDedupeKeys(r) PROVE Booked' /\ SentIsFresh' /\ Seen'
    <2> DEFINE n == run[r].order[run[r].pos]
               new == [run[r] EXCEPT !.pos = NextCheckpoint(r, n)]
    <2>1. NextCheckpoint(r, n) = run[r].pos + 1 /\ run[r].pos + 1 \in 1 .. Cardinality(Node) + 1
      <3>1. run[r].order \in {<<>>} \cup SetToSeqs(Node) /\ run[r].pos \in DOMAIN run[r].order
        BY <1>1, <1>3 DEF RunRecord, CommitDedupeKeys
      <3>2. run[r].pos \in 1 .. Cardinality(Node)
        BY <3>1, OrderType
      <3> QED BY <3>2, NodeCount DEF NextCheckpoint
    <2>2. /\ new \in RunRecord /\ new.version = run[r].version /\ new.rows = run[r].rows /\ new.existing = run[r].existing
          /\ new.fresh = run[r].fresh /\ new.node = run[r].node /\ new.after = run[r].after
          /\ new.missed = run[r].missed /\ new.at = "commit"
          /\ new.order = run[r].order /\ new.pos = run[r].pos + 1
      BY <1>1, <2>1 DEF RunRecord
    <2>3. Set(r, new) /\ sent' = sent /\ keys' = keys \cup {<<run[r].version, n, k>> : k \in run[r].fresh[n]}
      BY <1>3 DEF CommitDedupeKeys
    <2>4. DOMAIN run[r].order \subseteq Nat
      BY <1>1, OrderType, NodeCount DEF RunRecord
    <2>5. ASSUME NEW m \in Node, NEW k \in run[r].fresh[m]
          PROVE  <<run[r].version, m, k>> \in keys'
                 \/ \E i \in DOMAIN run[r].order : run[r].order[i] = m /\ run[r].pos + 1 <= i
      <3>1. CASE <<run[r].version, m, k>> \in keys
        BY <2>3, <3>1
      <3>2. ASSUME NEW i \in DOMAIN run[r].order, run[r].order[i] = m, run[r].pos <= i
            PROVE  <<run[r].version, m, k>> \in keys' \/ (run[r].order[i] = m /\ run[r].pos + 1 <= i)
        <4>1. CASE i = run[r].pos
          BY <2>3, <3>2, <4>1
        <4>2. CASE i # run[r].pos
          BY <1>1, <2>4, <3>2, <4>2
        <4> QED BY <4>1, <4>2
      <3> QED BY <1>2, <3>1, <3>2
    <2> HIDE DEF new, n
    <2>6. Books(new, keys')
      BY <2>2, <2>5 DEF Books
    <2> QED BY <1>1, <2>2, <2>3, <2>6, OnceMoves
  <1>4. ASSUME CommitAnswered(r) PROVE Booked' /\ SentIsFresh' /\ Seen'
    <2> DEFINE new == [run[r] EXCEPT !.at = "completed"]
    <2>1. /\ new \in RunRecord /\ new.version = run[r].version /\ new.rows = run[r].rows /\ new.existing = run[r].existing
          /\ new.fresh = run[r].fresh /\ new.node = run[r].node /\ new.after = run[r].after
          /\ new.missed = run[r].missed /\ new.at = "completed"
      BY <1>1 DEF RunRecord
    <2>2. Set(r, new) /\ sent' = sent /\ keys' = keys
      BY <1>4 DEF CommitAnswered
    <2>3. \A i \in DOMAIN run[r].order : ~ (run[r].pos <= i)
      <3>1. run[r].pos > Len(run[r].order) /\ run[r].order \in {<<>>} \cup SetToSeqs(Node)
        BY <1>1, <1>4 DEF CommitAnswered, RunRecord
      <3>2. CASE run[r].order = <<>>
        BY <3>2
      <3>3. CASE run[r].order \in SetToSeqs(Node)
        <4>1. run[r].order \in [1..Cardinality(Node) -> Node]
          BY <3>3 DEF SetToSeqs
        <4>2. run[r].order \in Seq(Node) /\ Len(run[r].order) = Cardinality(Node)
          BY <4>1, NodeCount
        <4> QED BY <1>1, <3>1, <4>1, <4>2, NodeCount
      <3> QED BY <3>1, <3>2, <3>3
    <2> HIDE DEF new
    <2>4. Books(new, keys')
      BY <1>2, <2>1, <2>2, <2>3 DEF Books
    <2> QED BY <1>1, <2>1, <2>2, <2>4, OnceMoves
  <1>5. ASSUME CommitFails(r) PROVE Booked' /\ SentIsFresh' /\ Seen'
    <2>1. CASE run[r].attempts + 1 < MaxAttempts
      <3> DEFINE new == [run[r] EXCEPT !.pos = 1, !.attempts = @ + 1]
      <3>0. 1 \in 1 .. Cardinality(Node) + 1 /\ run[r].attempts + 1 \in Nat
        <4>1. run[r].attempts \in Nat
          BY <1>1 DEF RunRecord
        <4> QED BY <4>1, NodeCount
      <3>1. /\ new \in RunRecord /\ new.version = run[r].version /\ new.rows = run[r].rows /\ new.existing = run[r].existing
            /\ new.fresh = run[r].fresh /\ new.node = run[r].node /\ new.after = run[r].after
            /\ new.missed = run[r].missed /\ new.at = "commit"
            /\ new.order = run[r].order /\ new.pos = 1
        BY <1>1, <3>0 DEF RunRecord
      <3>2. Set(r, new) /\ sent' = sent /\ keys' = keys
        BY <1>5, <2>1 DEF CommitFails
      <3>3. \A i \in DOMAIN run[r].order : 1 <= i
        BY <1>1, OrderType, NodeCount DEF RunRecord
      <3> HIDE DEF new
      <3>4. Books(new, keys')
        BY <1>2, <3>1, <3>2, <3>3 DEF Books
      <3> QED BY <1>1, <3>1, <3>2, <3>4, OnceMoves
    <2>2. CASE ~ (run[r].attempts + 1 < MaxAttempts)
      <3> DEFINE new == [run[r] EXCEPT !.at = "failed"]
      <3>1. /\ new \in RunRecord /\ new.version = run[r].version /\ new.rows = run[r].rows /\ new.existing = run[r].existing
            /\ new.fresh = run[r].fresh /\ new.node = run[r].node /\ new.after = run[r].after
            /\ new.missed = run[r].missed /\ new.at = "failed"
        BY <1>1 DEF RunRecord
      <3>2. Set(r, new) /\ sent' = sent /\ keys' = keys
        BY <1>5, <2>2 DEF CommitFails
      <3> HIDE DEF new
      <3>3. Books(new, keys')
        BY <3>1 DEF Books
      <3> QED BY <1>1, <3>1, <3>2, <3>3, OnceMoves
    <2> QED BY <2>1, <2>2
  <1> QED BY <1>3, <1>4, <1>5

(* A run starts with nothing seen and nothing let through.                 *)
LEMMA OnceStarts ==
  ASSUME OnceInv, NEW r \in Run, Start(r)
  PROVE  Booked' /\ SentIsFresh' /\ Seen'
  <1>1. PICK v \in Version, records \in [Node -> SUBSET Key] : Set(r, Started(v, records))
    BY DEF Start
  <1> DEFINE new == Started(v, records)
  <1>2. new \in RunRecord
    BY StartedType
  <1>3. /\ new.at = "nodes" /\ new.pos = 1 /\ new.rows = records
        /\ \A n \in Node : new.existing[n] = {} /\ new.fresh[n] = {} /\ new.after[n] = {}
    BY DEF Started
  <1>4. Begins(new) /\ Lets(new) /\ Books(new, keys')
    BY <1>3 DEF Begins, Lets, Books
  <1>5. At(r, "unused") /\ ~ At(r, "completed") /\ keys' = keys /\ sent' = sent
    BY DEF Start, At
  <1> HIDE DEF new
  <1>6. Set(r, new)
    BY <1>1 DEF new
  <1> QED BY <1>2, <1>3, <1>4, <1>5, <1>6, OnceStep

(* A node reads: every key of its rows that a completed run of its version *)
(* let through is in the table, and so it is read or in the rest that is   *)
(* lost.                                                                   *)
LEMMA OnceReads ==
  ASSUME OnceInv, NEW r \in Run, NEW n \in Node, FilterReads(r, n)
  PROVE  Booked' /\ SentIsFresh' /\ Seen'
  <1>0. PICK rest \in SUBSET ExistingKeys(r, n) :
            Set(r, [run[r] EXCEPT !.node[n] = "read", !.existing[n] = ExistingKeys(r, n) \ rest,
                                  !.missed[n] = rest, !.after[n] = {o \in Run : At(o, "completed")}])
    BY DEF FilterReads
  <1> DEFINE ended == {o \in Run : At(o, "completed")}
             found == ExistingKeys(r, n) \ rest
             new == [run[r] EXCEPT !.node[n] = "read", !.existing[n] = found, !.missed[n] = rest, !.after[n] = ended]
  <1>1. /\ run[r] \in RunRecord /\ run[r].at = "nodes" /\ run[r].node[n] = "idle"
        /\ ~ At(r, "unused") /\ ~ At(r, "completed")
    BY StartedIsRecord DEF OnceInv, KeysInv, FilterReads, NodeAt, At
  <1>2. found \in SUBSET Key /\ rest \in SUBSET Key /\ ended \in SUBSET Run
    BY <1>1 DEF ExistingKeys, RunRecord
  <1>3. new \in RunRecord
    BY <1>1, <1>2 DEF RunRecord
  <1>4. Set(r, new) /\ keys' = keys /\ sent' = sent
    BY <1>0 DEF FilterReads
  <1>5. /\ new.version = run[r].version /\ new.at = "nodes" /\ new.pos = run[r].pos /\ new.rows = run[r].rows
        /\ new.fresh = run[r].fresh
        /\ new.node[n] = "read" /\ new.existing[n] = found /\ new.missed[n] = rest
        /\ new.after[n] = ended
        /\ \A m \in Node \ {n} : /\ new.node[m] = run[r].node[m] /\ new.existing[m] = run[r].existing[m]
                                 /\ new.after[m] = run[r].after[m] /\ new.missed[m] = run[r].missed[m]
    BY <1>1 DEF RunRecord
  <1>9. found \cup rest = ExistingKeys(r, n)
    OBVIOUS
  <1> HIDE DEF new, ended, found
  <1>6. Begins(new) /\ Lets(new) /\ Books(new, keys')
    BY <1>1, <1>5 DEF OnceInv, Booked, Begins, Lets, Books
  <1>7. ASSUME NEW q \in ended PROVE SeenBy(new, q, n)
    <2>1. q \in Run /\ At(q, "completed") /\ ~ At(q, "unused") /\ run[q].at = "completed"
      BY DEF ended, At
    <2>2. \A k \in run[q].fresh[n] : <<run[q].version, n, k>> \in keys
      BY <2>1 DEF OnceInv, Booked, Books
    <2>3. run[q].version = run[r].version => run[q].fresh[n] \cap run[r].rows[n] \subseteq ExistingKeys(r, n)
      BY <2>2 DEF ExistingKeys
    <2> QED BY <1>5, <1>9, <2>1, <2>3 DEF SeenBy
  <1>8. \A m \in Node : \A q \in new.after[m] : SeenBy(new, q, m)
    <2>1. \A m \in Node \ {n} : \A q \in new.after[m] : SeenBy(new, q, m)
      BY <1>1, <1>5 DEF OnceInv, Seen, SeenBy
    <2> QED BY <1>5, <1>7, <2>1
  <1> QED BY <1>1, <1>3, <1>4, <1>5, <1>6, <1>8, OnceStep

(* A node lets through what it did not find, writes it, or fails.          *)
LEMMA OnceNodes ==
  ASSUME OnceInv, NEW r \in Run, NEW n \in Node, FilterAnswers(r, n) \/ SinkWrites(r, n) \/ NodeFails(r, n)
  PROVE  Booked' /\ SentIsFresh' /\ Seen'
  <1>1. /\ run[r] \in RunRecord /\ run[r].at = "nodes" /\ ~ At(r, "unused") /\ ~ At(r, "completed")
        /\ Begins(run[r]) /\ Lets(run[r]) /\ \A m \in Node : \A q \in run[r].after[m] : SeenBy(run[r], q, m)
    BY StartedIsRecord DEF OnceInv, KeysInv, Booked, Seen, FilterAnswers, SinkWrites, NodeFails, NodeAt, At
  <1>2. ASSUME FilterAnswers(r, n) PROVE Booked' /\ SentIsFresh' /\ Seen'
    <2> DEFINE new == [run[r] EXCEPT !.node[n] = "filtered", !.fresh[n] = run[r].rows[n] \ run[r].existing[n]]
    <2>1. new \in RunRecord
      BY <1>1 DEF RunRecord
    <2>2. Set(r, new) /\ keys' = keys /\ sent' = sent /\ run[r].node[n] = "read"
      BY <1>2 DEF FilterAnswers, NodeAt
    <2>3. /\ new.version = run[r].version /\ new.at = "nodes" /\ new.pos = run[r].pos /\ new.rows = run[r].rows
          /\ new.existing = run[r].existing /\ new.missed = run[r].missed /\ new.after = run[r].after
          /\ new.node[n] = "filtered" /\ new.fresh[n] = run[r].rows[n] \ run[r].existing[n]
          /\ \A m \in Node \ {n} : new.node[m] = run[r].node[m] /\ new.fresh[m] = run[r].fresh[m]
      BY <1>1 DEF RunRecord
    <2> HIDE DEF new
    <2>4. Begins(new) /\ Books(new, keys') /\ \A m \in Node : \A q \in new.after[m] : SeenBy(new, q, m)
      BY <1>1, <2>3 DEF Begins, Books, SeenBy
    <2>5. Lets(new)
      BY <1>1, <2>3 DEF Lets
    <2> QED BY <1>1, <2>1, <2>2, <2>3, <2>4, <2>5, OnceStep
  <1>3. ASSUME SinkWrites(r, n) \/ NodeFails(r, n) PROVE Booked' /\ SentIsFresh' /\ Seen'
    <2> PICK s \in {"success", "failed"} : /\ s = "success" <=> SinkWrites(r, n)
                                           /\ s = "failed" <=> ~ SinkWrites(r, n)
      OBVIOUS
    <2> DEFINE new == [run[r] EXCEPT !.node[n] = s]
    <2>1. new \in RunRecord
      BY <1>1 DEF RunRecord
    <2>2. Set(r, new) /\ keys' = keys
      BY <1>3 DEF SinkWrites, NodeFails
    <2>3. run[r].node[n] # "success" /\ (s = "success" => run[r].node[n] = "filtered")
      BY <1>3 DEF SinkWrites, NodeFails, NodeAt
    <2>4. \/ sent' = sent
          \/ s = "success" /\ sent' = sent \cup {<<r, n, k>> : k \in run[r].fresh[n]}
      BY <1>3 DEF SinkWrites, NodeFails
    <2>5. /\ new.version = run[r].version /\ new.at = "nodes" /\ new.pos = run[r].pos /\ new.rows = run[r].rows
          /\ new.existing = run[r].existing /\ new.missed = run[r].missed
          /\ new.after = run[r].after /\ new.fresh = run[r].fresh
          /\ new.node[n] = s /\ \A m \in Node \ {n} : new.node[m] = run[r].node[m]
      BY <1>1 DEF RunRecord
    <2> HIDE DEF new
    <2>6. Begins(new) /\ Books(new, keys') /\ \A m \in Node : \A q \in new.after[m] : SeenBy(new, q, m)
      BY <1>1, <2>5 DEF Begins, Books, SeenBy
    <2>7. Lets(new)
      BY <1>1, <2>5 DEF Lets
    <2>8. \A o \in Run, m \in Node, k \in Key : <<o, m, k>> \in sent' =>
             <<o, m, k>> \in sent \/ (o = r /\ k \in new.fresh[m] /\ new.node[m] = "success")
      BY <2>4, <2>5
    <2> QED BY <1>1, <2>1, <2>2, <2>3, <2>5, <2>6, <2>7, <2>8, OnceStep
  <1> QED BY <1>2, <1>3

(* A record is written again only by a run that did not begin to filter    *)
(* after the first had completed, or that lost its key with a part of the  *)
(* answer, for any number of runs, nodes and keys.                         *)
THEOREM DeliveredSafe == Spec => []DeliveredOnce
  <1>1. Init => Booked /\ SentIsFresh /\ Seen
    BY DEF Init, Booked, SentIsFresh, Seen, At, Unused
  <1>2. OnceInv /\ [Next]_vars => Booked' /\ SentIsFresh' /\ Seen'
    <2> SUFFICES ASSUME OnceInv, [Next]_vars PROVE Booked' /\ SentIsFresh' /\ Seen'
      OBVIOUS
    <2>1. CASE UNCHANGED vars
      BY <2>1 DEF vars, OnceInv, Booked, SentIsFresh, Seen, SeenBy, At
    <2>2. ASSUME NEW r \in Run,
                 \/ Start(r) \/ DagEnds(r) \/ CommitDedupeKeys(r) \/ CommitAnswered(r) \/ CommitFails(r)
                 \/ \E n \in Node : FilterReads(r, n) \/ FilterAnswers(r, n) \/ SinkWrites(r, n) \/ NodeFails(r, n)
          PROVE  Booked' /\ SentIsFresh' /\ Seen'
      BY <2>2, OnceStarts, OnceDagEnds, OnceCommits, OnceReads, OnceNodes
    <2> QED BY <2>1, <2>2 DEF Next
  <1>3. OnceInv => DeliveredOnce
    <2> SUFFICES ASSUME OnceInv, NEW r \in Run, NEW o \in Run, NEW n \in Node, NEW k \in Key,
                        <<r, n, k>> \in sent, <<o, n, k>> \in sent, run[r].version = run[o].version,
                        r \in run[o].after[n], k \notin run[o].missed[n]
                 PROVE  FALSE
      BY DEF DeliveredOnce
    <2>1. ~ At(o, "unused") /\ k \in run[o].fresh[n] /\ k \in run[r].fresh[n]
      BY DEF OnceInv, SentIsFresh
    <2>2. k \in run[o].rows[n] /\ k \notin run[o].existing[n]
      BY <2>1 DEF OnceInv, Booked, Lets
    <2>3. SeenBy(run[o], r, n)
      BY <2>1 DEF OnceInv, Seen
    <2> QED BY <2>1, <2>2, <2>3 DEF SeenBy
  <1> QED BY <1>1, <1>2, <1>3, DedupeInvariance, PTL DEF Spec, OnceInv

-----------------------------------------------------------------------------
Clean == INSTANCE TriggerProofs WITH
    keys <- hookKeys, row <- outboxRow, tries <- outboxTries,
    Delivery <- Deliveries, SignatureOf <- Signatures, KeyOf <- IdempotencyKeys, SignedAt <- Times,
    Window <- 2, MaxClock <- 6, FaultKinds <- {"crash"}, MaxHookFaults <- 1,
    Alert <- {"a1", "a2"}, PipelineOf <- Pipelines, Queued <- {"a1", "a2"},
    Dispatcher <- {"d1", "d2"}, MaxAttempts <- 2, Base <- 1, Cap <- 1, Limit <- 2,
    MaxRetries <- 0, MaxOutboxFaults <- 1,
    Execution <- {"q1", "q2", "q3"}, Order <- {"o1", "o2"}, Free <- 1, PerUnit <- 1,
    Billing <- TRUE, Faults <- {}, MaxMonth <- 0, MaxPrepares <- 1,
    Event <- {"e1", "e2"}, Subscriber <- {"p", "broken"}, Undecodable <- {"broken"},
    Failing <- {}, Replica <- {"api"}, MaxFaults <- 1
Faulty == INSTANCE TriggerProofs WITH
    keys <- hookKeys, row <- outboxRow, tries <- outboxTries,
    Delivery <- Deliveries, SignatureOf <- Signatures, KeyOf <- IdempotencyKeys, SignedAt <- Times,
    Window <- 2, MaxClock <- 6, FaultKinds <- {"crash", "redis", "answer"}, MaxHookFaults <- 1,
    Alert <- {"a1", "a3"}, PipelineOf <- Pipelines, Queued <- {"a1"},
    Dispatcher <- {"d1", "d2"}, MaxAttempts <- 3, Base <- 1, Cap <- 2, Limit <- 1,
    MaxRetries <- 1, MaxOutboxFaults <- 2,
    Execution <- {"q1", "q2"}, Order <- {"o1"}, Free <- 1, PerUnit <- 1,
    Billing <- TRUE, MaxMonth <- 1, MaxPrepares <- 2,
    Faults <- {"consume", "start", "insert", "terminate", "release", "process", "prepare"},
    Event <- {"e1"}, Subscriber <- {"p", "q"}, Undecodable <- {},
    Failing <- {"q"}, Replica <- {"api1", "api2"}, MaxFaults <- 1

-----------------------------------------------------------------------------
(* The components of MCTriggers are those of TriggerProofs: their          *)
(* definitions, expanded, are the same formulas.                           *)

LEMMA EventsSame ==
  /\ Events!Init <=> Clean!Events!Init
  /\ [Events!Next]_(Events!vars) <=> [Clean!Events!Next]_(Clean!Events!vars)
  /\ Events!TypeOK <=> Clean!Events!TypeOK
  /\ Events!PublishedIsStreamed <=> Clean!Events!PublishedIsStreamed
  /\ Events!LaunchedOnce <=> Clean!Events!LaunchedOnce
  <1>1. Events!Init <=> Clean!Events!Init
    BY Zenon DEF
      Events!Init, Clean!Events!Init, Events!Key, Clean!Events!Key
  <1>2. [Events!Next]_(Events!vars) <=> [Clean!Events!Next]_(Clean!Events!vars)
    BY Zenon DEF
      Events!Next, Clean!Events!Next, Events!WithEntry, Clean!Events!WithEntry, Events!Publisher, Clean!Events!Publisher, Events!PublishRollback,
      Clean!Events!PublishRollback, Events!XAddFails, Clean!Events!XAddFails, Events!Consume,
      Clean!Events!Consume, Events!GroupFails, Clean!Events!GroupFails, Events!ReadLost, Clean!Events!ReadLost,
      Events!FindFails, Clean!Events!FindFails, Events!MarkFails, Clean!Events!MarkFails, Events!Crash,
      Clean!Events!Crash, Events!CheckDoneFails, Clean!Events!CheckDoneFails, Events!Key, Clean!Events!Key,
      Events!LockExpires, Clean!Events!LockExpires, Events!PublishBegin, Clean!Events!PublishBegin, Events!XAdd,
      Clean!Events!XAdd, Events!PublishCommit, Clean!Events!PublishCommit, Events!Fault, Clean!Events!Fault,
      Events!publishOthers, Clean!Events!publishOthers, Events!CreateGroup, Clean!Events!CreateGroup,
      Events!ReadGroup, Clean!Events!ReadGroup, Events!ReadNothing, Clean!Events!ReadNothing,
      Events!FindSubscribers, Clean!Events!FindSubscribers, Events!CheckDone, Clean!Events!CheckDone,
      Events!Lock, Clean!Events!Lock, Events!LockRefused, Clean!Events!LockRefused, Events!Fire,
      Clean!Events!Fire, Events!FireFails, Clean!Events!FireFails, Events!MarkDone, Clean!Events!MarkDone,
      Events!Unlock, Clean!Events!Unlock, Events!Settle, Clean!Events!Settle, Events!loopStart,
      Clean!Events!loopStart, Events!Entries, Clean!Events!Entries, Events!NewRead, Clean!Events!NewRead,
      Events!outboxVars, Clean!Events!outboxVars, Events!keyVars, Clean!Events!keyVars, Events!loopVars,
      Clean!Events!loopVars, Events!GoTo, Clean!Events!GoTo, Events!loopRest, Clean!Events!loopRest,
      Events!history, Clean!Events!history, Events!Current, Clean!Events!Current, Events!First,
      Clean!Events!First, Events!Marks, Clean!Events!Marks, Events!Wanted, Clean!Events!Wanted, Events!DoneKey,
      Clean!Events!DoneKey, Events!Acks, Clean!Events!Acks, Events!Min, Clean!Events!Min, Events!vars,
      Clean!Events!vars
  <1>3. Events!TypeOK <=> Clean!Events!TypeOK
    BY Zenon DEF
      Events!TypeOK, Clean!Events!TypeOK, Events!EntryState, Clean!Events!EntryState, Events!Key,
      Clean!Events!Key, Events!Stages, Clean!Events!Stages
  <1>4. Events!PublishedIsStreamed <=> Clean!Events!PublishedIsStreamed
    BY Zenon DEF
      Events!PublishedIsStreamed, Clean!Events!PublishedIsStreamed
  <1>5. Events!LaunchedOnce <=> Clean!Events!LaunchedOnce
    BY Zenon DEF
      Events!LaunchedOnce, Clean!Events!LaunchedOnce, Events!Key, Clean!Events!Key
  <1> QED BY <1>1, <1>2, <1>3, <1>4, <1>5

LEMMA ReplicasSame ==
  /\ EventReplicas!Init <=> Faulty!Events!Init
  /\ [EventReplicas!Next]_(EventReplicas!vars) <=> [Faulty!Events!Next]_(Faulty!Events!vars)
  /\ EventReplicas!AckedIsHandled <=> Faulty!Events!AckedIsHandled
  <1>1. EventReplicas!Init <=> Faulty!Events!Init
    BY Zenon DEF
      EventReplicas!Init, Faulty!Events!Init, EventReplicas!Key, Faulty!Events!Key
  <1>2. [EventReplicas!Next]_(EventReplicas!vars) <=> [Faulty!Events!Next]_(Faulty!Events!vars)
    BY Zenon DEF
      EventReplicas!Next, Faulty!Events!Next, EventReplicas!WithEntry, Faulty!Events!WithEntry, EventReplicas!Publisher, Faulty!Events!Publisher,
      EventReplicas!PublishRollback, Faulty!Events!PublishRollback, EventReplicas!XAddFails,
      Faulty!Events!XAddFails, EventReplicas!Consume, Faulty!Events!Consume, EventReplicas!GroupFails,
      Faulty!Events!GroupFails, EventReplicas!ReadLost, Faulty!Events!ReadLost, EventReplicas!FindFails,
      Faulty!Events!FindFails, EventReplicas!MarkFails, Faulty!Events!MarkFails, EventReplicas!Crash,
      Faulty!Events!Crash, EventReplicas!CheckDoneFails, Faulty!Events!CheckDoneFails, EventReplicas!Key,
      Faulty!Events!Key, EventReplicas!LockExpires, Faulty!Events!LockExpires, EventReplicas!PublishBegin,
      Faulty!Events!PublishBegin, EventReplicas!XAdd, Faulty!Events!XAdd, EventReplicas!PublishCommit,
      Faulty!Events!PublishCommit, EventReplicas!Fault, Faulty!Events!Fault, EventReplicas!publishOthers,
      Faulty!Events!publishOthers, EventReplicas!CreateGroup, Faulty!Events!CreateGroup,
      EventReplicas!ReadGroup, Faulty!Events!ReadGroup, EventReplicas!ReadNothing, Faulty!Events!ReadNothing,
      EventReplicas!FindSubscribers, Faulty!Events!FindSubscribers, EventReplicas!CheckDone,
      Faulty!Events!CheckDone, EventReplicas!Lock, Faulty!Events!Lock, EventReplicas!LockRefused,
      Faulty!Events!LockRefused, EventReplicas!Fire, Faulty!Events!Fire, EventReplicas!FireFails,
      Faulty!Events!FireFails, EventReplicas!MarkDone, Faulty!Events!MarkDone, EventReplicas!Unlock,
      Faulty!Events!Unlock, EventReplicas!Settle, Faulty!Events!Settle, EventReplicas!loopStart,
      Faulty!Events!loopStart, EventReplicas!Entries, Faulty!Events!Entries, EventReplicas!NewRead,
      Faulty!Events!NewRead, EventReplicas!outboxVars, Faulty!Events!outboxVars, EventReplicas!keyVars,
      Faulty!Events!keyVars, EventReplicas!loopVars, Faulty!Events!loopVars, EventReplicas!GoTo,
      Faulty!Events!GoTo, EventReplicas!loopRest, Faulty!Events!loopRest, EventReplicas!history,
      Faulty!Events!history, EventReplicas!Current, Faulty!Events!Current, EventReplicas!First,
      Faulty!Events!First, EventReplicas!Marks, Faulty!Events!Marks, EventReplicas!Wanted, Faulty!Events!Wanted,
      EventReplicas!DoneKey, Faulty!Events!DoneKey, EventReplicas!Acks, Faulty!Events!Acks, EventReplicas!Min,
      Faulty!Events!Min, EventReplicas!vars, Faulty!Events!vars
  <1>3. EventReplicas!AckedIsHandled <=> Faulty!Events!AckedIsHandled
    BY Zenon DEF
      EventReplicas!AckedIsHandled, Faulty!Events!AckedIsHandled
  <1> QED BY <1>1, <1>2, <1>3

LEMMA WebhooksSame ==
  /\ Webhooks!Init <=> Clean!Hooks!Init
  /\ [Webhooks!Next]_(Webhooks!vars) <=> [Clean!Hooks!Next]_(Clean!Hooks!vars)
  /\ Webhooks!OneRunPerSignature <=> Clean!Hooks!OneRunPerSignature
  /\ Webhooks!OneRunPerKey <=> Clean!Hooks!OneRunPerKey
  <1>1. Webhooks!Init <=> Clean!Hooks!Init
    BY Zenon DEF
      Webhooks!Init, Clean!Hooks!Init, Webhooks!Signature, Clean!Hooks!Signature, Webhooks!IdempotencyKey,
      Clean!Hooks!IdempotencyKey, Webhooks!NoKey, Clean!Hooks!NoKey
  <1>2. [Webhooks!Next]_(Webhooks!vars) <=> [Clean!Hooks!Next]_(Clean!Hooks!vars)
    BY Zenon DEF
      Webhooks!Next, Clean!Hooks!Next, Webhooks!Tick, Clean!Hooks!Tick, Webhooks!Handle, Clean!Hooks!Handle,
      Webhooks!Refused, Clean!Hooks!Refused, Webhooks!Verify, Clean!Hooks!Verify, Webhooks!ClaimSignature,
      Clean!Hooks!ClaimSignature, Webhooks!Repeated, Clean!Hooks!Repeated, Webhooks!ClaimSkipped,
      Clean!Hooks!ClaimSkipped, Webhooks!ClaimKey, Clean!Hooks!ClaimKey, Webhooks!KeyTaken,
      Clean!Hooks!KeyTaken, Webhooks!GetKey, Clean!Hooks!GetKey, Webhooks!Fire, Clean!Hooks!Fire,
      Webhooks!FireFails, Clean!Hooks!FireFails, Webhooks!FireUnknown, Clean!Hooks!FireUnknown,
      Webhooks!Complete, Clean!Hooks!Complete, Webhooks!Release, Clean!Hooks!Release, Webhooks!Crash,
      Clean!Hooks!Crash, Webhooks!InWindow, Clean!Hooks!InWindow, Webhooks!GoTo, Clean!Hooks!GoTo,
      Webhooks!Present, Clean!Hooks!Present, Webhooks!SeenTTL, Clean!Hooks!SeenTTL, Webhooks!AfterSignature,
      Clean!Hooks!AfterSignature, Webhooks!MaySet, Clean!Hooks!MaySet, Webhooks!Fault, Clean!Hooks!Fault,
      Webhooks!Free, Clean!Hooks!Free, Webhooks!DeletedSeen, Clean!Hooks!DeletedSeen, Webhooks!Known,
      Clean!Hooks!Known, Webhooks!RunValue, Clean!Hooks!RunValue, Webhooks!DeletedIdem, Clean!Hooks!DeletedIdem,
      Webhooks!Working, Clean!Hooks!Working, Webhooks!NoKey, Clean!Hooks!NoKey, Webhooks!vars, Clean!Hooks!vars
  <1>3. Webhooks!OneRunPerSignature <=> Clean!Hooks!OneRunPerSignature
    BY Zenon DEF
      Webhooks!OneRunPerSignature, Clean!Hooks!OneRunPerSignature, Webhooks!Signature, Clean!Hooks!Signature,
      Webhooks!RunsOf, Clean!Hooks!RunsOf, Webhooks!Cardinality, Clean!Hooks!Cardinality
  <1>4. Webhooks!OneRunPerKey <=> Clean!Hooks!OneRunPerKey
    BY Zenon DEF
      Webhooks!OneRunPerKey, Clean!Hooks!OneRunPerKey, Webhooks!IdempotencyKey, Clean!Hooks!IdempotencyKey,
      Webhooks!RunsOf, Clean!Hooks!RunsOf, Webhooks!NoKey, Clean!Hooks!NoKey, Webhooks!Cardinality,
      Clean!Hooks!Cardinality
  <1> QED BY <1>1, <1>2, <1>3, <1>4

LEMMA HookFaultsSame ==
  /\ HookFaults!Init <=> Faulty!Hooks!Init
  /\ [HookFaults!Next]_(HookFaults!vars) <=> [Faulty!Hooks!Next]_(Faulty!Hooks!vars)
  /\ HookFaults!TypeOK <=> Faulty!Hooks!TypeOK
  /\ HookFaults!DuplicateNamesItsRun <=> Faulty!Hooks!DuplicateNamesItsRun
  /\ HookFaults!KeySettlesWithoutFaults <=> Faulty!Hooks!KeySettlesWithoutFaults
  <1>1. HookFaults!Init <=> Faulty!Hooks!Init
    BY Zenon DEF
      HookFaults!Init, Faulty!Hooks!Init, HookFaults!Signature, Faulty!Hooks!Signature,
      HookFaults!IdempotencyKey, Faulty!Hooks!IdempotencyKey, HookFaults!NoKey, Faulty!Hooks!NoKey
  <1>2. [HookFaults!Next]_(HookFaults!vars) <=> [Faulty!Hooks!Next]_(Faulty!Hooks!vars)
    BY Zenon DEF
      HookFaults!Next, Faulty!Hooks!Next, HookFaults!Tick, Faulty!Hooks!Tick, HookFaults!Handle,
      Faulty!Hooks!Handle, HookFaults!Refused, Faulty!Hooks!Refused, HookFaults!Verify, Faulty!Hooks!Verify,
      HookFaults!ClaimSignature, Faulty!Hooks!ClaimSignature, HookFaults!Repeated, Faulty!Hooks!Repeated,
      HookFaults!ClaimSkipped, Faulty!Hooks!ClaimSkipped, HookFaults!ClaimKey, Faulty!Hooks!ClaimKey,
      HookFaults!KeyTaken, Faulty!Hooks!KeyTaken, HookFaults!GetKey, Faulty!Hooks!GetKey, HookFaults!Fire,
      Faulty!Hooks!Fire, HookFaults!FireFails, Faulty!Hooks!FireFails, HookFaults!FireUnknown,
      Faulty!Hooks!FireUnknown, HookFaults!Complete, Faulty!Hooks!Complete, HookFaults!Release,
      Faulty!Hooks!Release, HookFaults!Crash, Faulty!Hooks!Crash, HookFaults!InWindow, Faulty!Hooks!InWindow,
      HookFaults!GoTo, Faulty!Hooks!GoTo, HookFaults!Present, Faulty!Hooks!Present, HookFaults!SeenTTL,
      Faulty!Hooks!SeenTTL, HookFaults!AfterSignature, Faulty!Hooks!AfterSignature, HookFaults!MaySet,
      Faulty!Hooks!MaySet, HookFaults!Fault, Faulty!Hooks!Fault, HookFaults!Free, Faulty!Hooks!Free,
      HookFaults!DeletedSeen, Faulty!Hooks!DeletedSeen, HookFaults!Known, Faulty!Hooks!Known,
      HookFaults!RunValue, Faulty!Hooks!RunValue, HookFaults!DeletedIdem, Faulty!Hooks!DeletedIdem,
      HookFaults!Working, Faulty!Hooks!Working, HookFaults!NoKey, Faulty!Hooks!NoKey, HookFaults!vars,
      Faulty!Hooks!vars
  <1>3. HookFaults!TypeOK <=> Faulty!Hooks!TypeOK
    BY Zenon DEF
      HookFaults!TypeOK, Faulty!Hooks!TypeOK, HookFaults!Signature, Faulty!Hooks!Signature,
      HookFaults!IdempotencyKey, Faulty!Hooks!IdempotencyKey, HookFaults!Working, Faulty!Hooks!Working,
      HookFaults!Over, Faulty!Hooks!Over, HookFaults!NoKey, Faulty!Hooks!NoKey
  <1>4. HookFaults!DuplicateNamesItsRun <=> Faulty!Hooks!DuplicateNamesItsRun
    BY Zenon DEF
      HookFaults!DuplicateNamesItsRun, Faulty!Hooks!DuplicateNamesItsRun
  <1>5. HookFaults!KeySettlesWithoutFaults <=> Faulty!Hooks!KeySettlesWithoutFaults
    BY Zenon DEF
      HookFaults!KeySettlesWithoutFaults, Faulty!Hooks!KeySettlesWithoutFaults, HookFaults!KeySettles,
      Faulty!Hooks!KeySettles, HookFaults!IdempotencyKey, Faulty!Hooks!IdempotencyKey, HookFaults!InProgress,
      Faulty!Hooks!InProgress, HookFaults!RunOf, Faulty!Hooks!RunOf, HookFaults!NoKey, Faulty!Hooks!NoKey,
      HookFaults!Working, Faulty!Hooks!Working
  <1> QED BY <1>1, <1>2, <1>3, <1>4, <1>5

LEMMA AlertsSame ==
  /\ Alerts!Init <=> Clean!Outbox!Init
  /\ [Alerts!Next]_(Alerts!vars) <=> [Clean!Outbox!Next]_(Clean!Outbox!vars)
  /\ Alerts!TypeOK <=> Clean!Outbox!TypeOK
  /\ Alerts!AcceptedOnce <=> Clean!Outbox!AcceptedOnce
  /\ Alerts!BudgetKept <=> Clean!Outbox!BudgetKept
  <1>1. Alerts!Init <=> Clean!Outbox!Init
    BY Zenon DEF
      Alerts!Init, Clean!Outbox!Init, Alerts!NonePosted, Clean!Outbox!NonePosted
  <1>2. [Alerts!Next]_(Alerts!vars) <=> [Clean!Outbox!Next]_(Clean!Outbox!vars)
    BY Zenon DEF
      Alerts!Next, Clean!Outbox!Next, Alerts!RaiseAlert, Clean!Outbox!RaiseAlert, Alerts!UpdateAlert,
      Clean!Outbox!UpdateAlert, Alerts!AlertRetryNotification, Clean!Outbox!AlertRetryNotification,
      Alerts!Dispatch, Clean!Outbox!Dispatch, Alerts!Rollback, Clean!Outbox!Rollback, Alerts!Disconnect,
      Clean!Outbox!Disconnect, Alerts!Tick, Clean!Outbox!Tick, Alerts!Active, Clean!Outbox!Active,
      Alerts!Unlocked, Clean!Outbox!Unlocked, Alerts!Claim, Clean!Outbox!Claim, Alerts!Post, Clean!Outbox!Post,
      Alerts!Commit, Clean!Outbox!Commit, Alerts!PostUnlocked, Clean!Outbox!PostUnlocked, Alerts!Undone,
      Clean!Outbox!Undone, Alerts!Passing, Clean!Outbox!Passing, Alerts!Greatest, Clean!Outbox!Greatest,
      Alerts!Idle, Clean!Outbox!Idle, Alerts!Least, Clean!Outbox!Least, Alerts!Locked, Clean!Outbox!Locked,
      Alerts!Candidates, Clean!Outbox!Candidates, Alerts!Cardinality, Clean!Outbox!Cardinality,
      Alerts!PostResult, Clean!Outbox!PostResult, Alerts!Heard, Clean!Outbox!Heard, Alerts!TakenByReceiver,
      Clean!Outbox!TakenByReceiver, Alerts!Outcome, Clean!Outbox!Outcome, Alerts!NonePosted,
      Clean!Outbox!NonePosted, Alerts!Due, Clean!Outbox!Due, Alerts!retryDelay, Clean!Outbox!retryDelay,
      Alerts!ShiftedBy, Clean!Outbox!ShiftedBy, Alerts!vars, Clean!Outbox!vars
  <1>3. Alerts!TypeOK <=> Clean!Outbox!TypeOK
    BY Zenon DEF
      Alerts!TypeOK, Clean!Outbox!TypeOK, Alerts!Active, Clean!Outbox!Active
  <1>4. Alerts!AcceptedOnce <=> Clean!Outbox!AcceptedOnce
    BY Zenon DEF
      Alerts!AcceptedOnce, Clean!Outbox!AcceptedOnce
  <1>5. Alerts!BudgetKept <=> Clean!Outbox!BudgetKept
    BY Zenon DEF
      Alerts!BudgetKept, Clean!Outbox!BudgetKept
  <1> QED BY <1>1, <1>2, <1>3, <1>4, <1>5

LEMMA AlertRetriesSame ==
  /\ AlertRetries!Init <=> Faulty!Outbox!Init
  /\ [AlertRetries!Next]_(AlertRetries!vars) <=> [Faulty!Outbox!Next]_(Faulty!Outbox!vars)
  /\ AlertRetries!TypeOK <=> Faulty!Outbox!TypeOK
  /\ AlertRetries!AcceptedOnce <=> Faulty!Outbox!AcceptedOnce
  /\ AlertRetries!BudgetKept <=> Faulty!Outbox!BudgetKept
  <1>1. AlertRetries!Init <=> Faulty!Outbox!Init
    BY Zenon DEF
      AlertRetries!Init, Faulty!Outbox!Init, AlertRetries!NonePosted, Faulty!Outbox!NonePosted
  <1>2. [AlertRetries!Next]_(AlertRetries!vars) <=> [Faulty!Outbox!Next]_(Faulty!Outbox!vars)
    BY Zenon DEF
      AlertRetries!Next, Faulty!Outbox!Next, AlertRetries!RaiseAlert, Faulty!Outbox!RaiseAlert,
      AlertRetries!UpdateAlert, Faulty!Outbox!UpdateAlert, AlertRetries!AlertRetryNotification,
      Faulty!Outbox!AlertRetryNotification, AlertRetries!Dispatch, Faulty!Outbox!Dispatch,
      AlertRetries!Rollback, Faulty!Outbox!Rollback, AlertRetries!Disconnect, Faulty!Outbox!Disconnect,
      AlertRetries!Tick, Faulty!Outbox!Tick, AlertRetries!Active, Faulty!Outbox!Active, AlertRetries!Unlocked,
      Faulty!Outbox!Unlocked, AlertRetries!Claim, Faulty!Outbox!Claim, AlertRetries!Post, Faulty!Outbox!Post,
      AlertRetries!Commit, Faulty!Outbox!Commit, AlertRetries!PostUnlocked, Faulty!Outbox!PostUnlocked,
      AlertRetries!Undone, Faulty!Outbox!Undone, AlertRetries!Passing, Faulty!Outbox!Passing,
      AlertRetries!Greatest, Faulty!Outbox!Greatest, AlertRetries!Idle, Faulty!Outbox!Idle, AlertRetries!Least,
      Faulty!Outbox!Least, AlertRetries!Locked, Faulty!Outbox!Locked, AlertRetries!Candidates,
      Faulty!Outbox!Candidates, AlertRetries!Cardinality, Faulty!Outbox!Cardinality, AlertRetries!PostResult,
      Faulty!Outbox!PostResult, AlertRetries!Heard, Faulty!Outbox!Heard, AlertRetries!TakenByReceiver,
      Faulty!Outbox!TakenByReceiver, AlertRetries!Outcome, Faulty!Outbox!Outcome, AlertRetries!NonePosted,
      Faulty!Outbox!NonePosted, AlertRetries!Due, Faulty!Outbox!Due, AlertRetries!retryDelay,
      Faulty!Outbox!retryDelay, AlertRetries!ShiftedBy, Faulty!Outbox!ShiftedBy, AlertRetries!vars,
      Faulty!Outbox!vars
  <1>3. AlertRetries!TypeOK <=> Faulty!Outbox!TypeOK
    BY Zenon DEF
      AlertRetries!TypeOK, Faulty!Outbox!TypeOK, AlertRetries!Active, Faulty!Outbox!Active
  <1>4. AlertRetries!AcceptedOnce <=> Faulty!Outbox!AcceptedOnce
    BY Zenon DEF
      AlertRetries!AcceptedOnce, Faulty!Outbox!AcceptedOnce
  <1>5. AlertRetries!BudgetKept <=> Faulty!Outbox!BudgetKept
    BY Zenon DEF
      AlertRetries!BudgetKept, Faulty!Outbox!BudgetKept
  <1> QED BY <1>1, <1>2, <1>3, <1>4, <1>5

LEMMA LaunchesSame ==
  /\ Launches!Init <=> Clean!Quota!Init
  /\ [Launches!Next]_(Launches!vars) <=> [Clean!Quota!Next]_(Clean!Quota!vars)
  /\ Launches!TypeOK <=> Clean!Quota!TypeOK
  /\ Launches!WithinQuota <=> Clean!Quota!WithinQuota
  /\ Launches!OneActiveRetry <=> Clean!Quota!OneActiveRetry
  /\ Launches!PaidOnce <=> Clean!Quota!PaidOnce
  /\ Launches!Compensated <=> Clean!Quota!Compensated
  /\ Launches!UsageIsCounted <=> Clean!Quota!UsageIsCounted
  /\ Launches!Settled <=> Clean!Quota!Settled
  <1>1. Launches!Init <=> Clean!Quota!Init
    BY Zenon DEF
      Launches!Init, Clean!Quota!Init, Launches!Month, Clean!Quota!Month
  <1>2. [Launches!Next]_(Launches!vars) <=> [Clean!Quota!Next]_(Clean!Quota!vars)
    BY Zenon DEF
      Launches!Next, Clean!Quota!Next, Launches!Launch, Clean!Quota!Launch, Launches!Crash, Clean!Quota!Crash,
      Launches!WorkflowEnds, Clean!Quota!WorkflowEnds, Launches!BillingOrder, Clean!Quota!BillingOrder,
      Launches!PaymentCaptured, Clean!Quota!PaymentCaptured, Launches!PaymentFailed, Clean!Quota!PaymentFailed,
      Launches!MonthEnds, Clean!Quota!MonthEnds, Launches!PipelineRun, Clean!Quota!PipelineRun,
      Launches!ExecutionRetry, Clean!Quota!ExecutionRetry, Launches!ConsumeQuota, Clean!Quota!ConsumeQuota,
      Launches!ConsumeRefused, Clean!Quota!ConsumeRefused, Launches!ConsumeUnknown, Clean!Quota!ConsumeUnknown,
      Launches!StartWorkflow, Clean!Quota!StartWorkflow, Launches!StartFails, Clean!Quota!StartFails,
      Launches!InsertRow, Clean!Quota!InsertRow, Launches!InsertFails, Clean!Quota!InsertFails,
      Launches!TerminateWorkflow, Clean!Quota!TerminateWorkflow, Launches!ReleaseQuota,
      Clean!Quota!ReleaseQuota, Launches!ScheduleFires, Clean!Quota!ScheduleFires,
      Launches!PrepareScheduledExecution, Clean!Quota!PrepareScheduledExecution, Launches!PrepareFails,
      Clean!Quota!PrepareFails, Launches!PrepareRefused, Clean!Quota!PrepareRefused, Launches!Fault,
      Clean!Quota!Fault, Launches!money, Clean!Quota!money, Launches!request, Clean!Quota!request,
      Launches!runs, Clean!Quota!runs, Launches!Pay, Clean!Quota!Pay, Launches!Payable, Clean!Quota!Payable,
      Launches!Go, Clean!Quota!Go, Launches!ActiveRetry, Clean!Quota!ActiveRetry, Launches!HasQuota,
      Clean!Quota!HasQuota, Launches!Count, Clean!Quota!Count, Launches!Insertable, Clean!Quota!Insertable,
      Launches!AfterInsert, Clean!Quota!AfterInsert, Launches!AfterFailedInsert, Clean!Quota!AfterFailedInsert,
      Launches!Released, Clean!Quota!Released, Launches!Hit, Clean!Quota!Hit, Launches!Prepared,
      Clean!Quota!Prepared, Launches!vars, Clean!Quota!vars
  <1>3. Launches!TypeOK <=> Clean!Quota!TypeOK
    BY Zenon DEF
      Launches!TypeOK, Clean!Quota!TypeOK, Launches!Month, Clean!Quota!Month, Launches!Stages,
      Clean!Quota!Stages, Launches!FaultKinds, Clean!Quota!FaultKinds
  <1>4. Launches!WithinQuota <=> Clean!Quota!WithinQuota
    BY Zenon DEF
      Launches!WithinQuota, Clean!Quota!WithinQuota, Launches!Month, Clean!Quota!Month
  <1>5. Launches!OneActiveRetry <=> Clean!Quota!OneActiveRetry
    BY Zenon DEF
      Launches!OneActiveRetry, Clean!Quota!OneActiveRetry, Launches!Cardinality, Clean!Quota!Cardinality
  <1>6. Launches!PaidOnce <=> Clean!Quota!PaidOnce
    BY Zenon DEF
      Launches!PaidOnce, Clean!Quota!PaidOnce, Launches!Cardinality, Clean!Quota!Cardinality
  <1>7. Launches!Compensated <=> Clean!Quota!Compensated
    BY Zenon DEF
      Launches!Compensated, Clean!Quota!Compensated, Launches!HitBy, Clean!Quota!HitBy
  <1>8. Launches!UsageIsCounted <=> Clean!Quota!UsageIsCounted
    BY Zenon DEF
      Launches!UsageIsCounted, Clean!Quota!UsageIsCounted, Launches!Month, Clean!Quota!Month,
      Launches!Cardinality, Clean!Quota!Cardinality, Launches!InMonth, Clean!Quota!InMonth, Launches!HitBy,
      Clean!Quota!HitBy
  <1>9. Launches!Settled <=> Clean!Quota!Settled
    BY Zenon DEF
      Launches!Settled, Clean!Quota!Settled, Launches!Month, Clean!Quota!Month, Launches!Cardinality,
      Clean!Quota!Cardinality, Launches!InMonth, Clean!Quota!InMonth, Launches!HitBy, Clean!Quota!HitBy
  <1> QED BY <1>1, <1>2, <1>3, <1>4, <1>5, <1>6, <1>7, <1>8, <1>9

LEMMA LaunchFaultsSame ==
  /\ LaunchFaults!Init <=> Faulty!Quota!Init
  /\ [LaunchFaults!Next]_(LaunchFaults!vars) <=> [Faulty!Quota!Next]_(Faulty!Quota!vars)
  /\ LaunchFaults!TypeOK <=> Faulty!Quota!TypeOK
  /\ LaunchFaults!WithinQuota <=> Faulty!Quota!WithinQuota
  /\ LaunchFaults!OneActiveRetry <=> Faulty!Quota!OneActiveRetry
  /\ LaunchFaults!PaidOnce <=> Faulty!Quota!PaidOnce
  /\ LaunchFaults!Compensated <=> Faulty!Quota!Compensated
  /\ LaunchFaults!UsageIsCounted <=> Faulty!Quota!UsageIsCounted
  /\ LaunchFaults!Settled <=> Faulty!Quota!Settled
  <1>1. LaunchFaults!Init <=> Faulty!Quota!Init
    BY Zenon DEF
      LaunchFaults!Init, Faulty!Quota!Init, LaunchFaults!Month, Faulty!Quota!Month
  <1>2. [LaunchFaults!Next]_(LaunchFaults!vars) <=> [Faulty!Quota!Next]_(Faulty!Quota!vars)
    BY Zenon DEF
      LaunchFaults!Next, Faulty!Quota!Next, LaunchFaults!Launch, Faulty!Quota!Launch, LaunchFaults!Crash,
      Faulty!Quota!Crash, LaunchFaults!WorkflowEnds, Faulty!Quota!WorkflowEnds, LaunchFaults!BillingOrder,
      Faulty!Quota!BillingOrder, LaunchFaults!PaymentCaptured, Faulty!Quota!PaymentCaptured,
      LaunchFaults!PaymentFailed, Faulty!Quota!PaymentFailed, LaunchFaults!MonthEnds, Faulty!Quota!MonthEnds,
      LaunchFaults!PipelineRun, Faulty!Quota!PipelineRun, LaunchFaults!ExecutionRetry,
      Faulty!Quota!ExecutionRetry, LaunchFaults!ConsumeQuota, Faulty!Quota!ConsumeQuota,
      LaunchFaults!ConsumeRefused, Faulty!Quota!ConsumeRefused, LaunchFaults!ConsumeUnknown,
      Faulty!Quota!ConsumeUnknown, LaunchFaults!StartWorkflow, Faulty!Quota!StartWorkflow,
      LaunchFaults!StartFails, Faulty!Quota!StartFails, LaunchFaults!InsertRow, Faulty!Quota!InsertRow,
      LaunchFaults!InsertFails, Faulty!Quota!InsertFails, LaunchFaults!TerminateWorkflow,
      Faulty!Quota!TerminateWorkflow, LaunchFaults!ReleaseQuota, Faulty!Quota!ReleaseQuota,
      LaunchFaults!ScheduleFires, Faulty!Quota!ScheduleFires, LaunchFaults!PrepareScheduledExecution,
      Faulty!Quota!PrepareScheduledExecution, LaunchFaults!PrepareFails, Faulty!Quota!PrepareFails,
      LaunchFaults!PrepareRefused, Faulty!Quota!PrepareRefused, LaunchFaults!Fault, Faulty!Quota!Fault,
      LaunchFaults!money, Faulty!Quota!money, LaunchFaults!request, Faulty!Quota!request, LaunchFaults!runs,
      Faulty!Quota!runs, LaunchFaults!Pay, Faulty!Quota!Pay, LaunchFaults!Payable, Faulty!Quota!Payable,
      LaunchFaults!Go, Faulty!Quota!Go, LaunchFaults!ActiveRetry, Faulty!Quota!ActiveRetry,
      LaunchFaults!HasQuota, Faulty!Quota!HasQuota, LaunchFaults!Count, Faulty!Quota!Count,
      LaunchFaults!Insertable, Faulty!Quota!Insertable, LaunchFaults!AfterInsert, Faulty!Quota!AfterInsert,
      LaunchFaults!AfterFailedInsert, Faulty!Quota!AfterFailedInsert, LaunchFaults!Released,
      Faulty!Quota!Released, LaunchFaults!Hit, Faulty!Quota!Hit, LaunchFaults!Prepared, Faulty!Quota!Prepared,
      LaunchFaults!vars, Faulty!Quota!vars
  <1>3. LaunchFaults!TypeOK <=> Faulty!Quota!TypeOK
    BY Zenon DEF
      LaunchFaults!TypeOK, Faulty!Quota!TypeOK, LaunchFaults!Month, Faulty!Quota!Month, LaunchFaults!Stages,
      Faulty!Quota!Stages, LaunchFaults!FaultKinds, Faulty!Quota!FaultKinds
  <1>4. LaunchFaults!WithinQuota <=> Faulty!Quota!WithinQuota
    BY Zenon DEF
      LaunchFaults!WithinQuota, Faulty!Quota!WithinQuota, LaunchFaults!Month, Faulty!Quota!Month
  <1>5. LaunchFaults!OneActiveRetry <=> Faulty!Quota!OneActiveRetry
    BY Zenon DEF
      LaunchFaults!OneActiveRetry, Faulty!Quota!OneActiveRetry, LaunchFaults!Cardinality,
      Faulty!Quota!Cardinality
  <1>6. LaunchFaults!PaidOnce <=> Faulty!Quota!PaidOnce
    BY Zenon DEF
      LaunchFaults!PaidOnce, Faulty!Quota!PaidOnce, LaunchFaults!Cardinality, Faulty!Quota!Cardinality
  <1>7. LaunchFaults!Compensated <=> Faulty!Quota!Compensated
    BY Zenon DEF
      LaunchFaults!Compensated, Faulty!Quota!Compensated, LaunchFaults!HitBy, Faulty!Quota!HitBy
  <1>8. LaunchFaults!UsageIsCounted <=> Faulty!Quota!UsageIsCounted
    BY Zenon DEF
      LaunchFaults!UsageIsCounted, Faulty!Quota!UsageIsCounted, LaunchFaults!Month, Faulty!Quota!Month,
      LaunchFaults!Cardinality, Faulty!Quota!Cardinality, LaunchFaults!InMonth, Faulty!Quota!InMonth,
      LaunchFaults!HitBy, Faulty!Quota!HitBy
  <1>9. LaunchFaults!Settled <=> Faulty!Quota!Settled
    BY Zenon DEF
      LaunchFaults!Settled, Faulty!Quota!Settled, LaunchFaults!Month, Faulty!Quota!Month,
      LaunchFaults!Cardinality, Faulty!Quota!Cardinality, LaunchFaults!InMonth, Faulty!Quota!InMonth,
      LaunchFaults!HitBy, Faulty!Quota!HitBy
  <1> QED BY <1>1, <1>2, <1>3, <1>4, <1>5, <1>6, <1>7, <1>8, <1>9

-----------------------------------------------------------------------------
(* A step of the suite is a step of the component its behaviour is about.  *)
LEMMA TriggerSteps ==
  ASSUME [TriggerNext]_triggerVars
  PROVE  /\ trigger' = trigger
         /\ trigger = "events" => [Events!Next]_(Events!vars)
         /\ trigger = "event replicas" => [EventReplicas!Next]_(EventReplicas!vars)
         /\ trigger = "webhooks" => [Webhooks!Next]_(Webhooks!vars)
         /\ trigger = "webhook faults" => [HookFaults!Next]_(HookFaults!vars)
         /\ trigger = "alerts" => [Alerts!Next]_(Alerts!vars)
         /\ trigger = "alert retries" => [AlertRetries!Next]_(AlertRetries!vars)
         /\ trigger = "launches" => [Launches!Next]_(Launches!vars)
         /\ trigger = "launch faults" => [LaunchFaults!Next]_(LaunchFaults!vars)
  <1> USE DEF TriggerNext, triggerVars, EventStep, WebhookStep, AlertStep, LaunchStep, eventVars, hookVars, outboxVars, launchVars
  <1>1. trigger' = trigger
    OBVIOUS
  <1>2. trigger = "events" => [Events!Next]_(Events!vars)
    BY DEF Events!vars, Events!outboxVars, Events!loopVars, Events!keyVars, Events!history
  <1>3. trigger = "event replicas" => [EventReplicas!Next]_(EventReplicas!vars)
    BY DEF EventReplicas!vars, EventReplicas!outboxVars, EventReplicas!loopVars, EventReplicas!keyVars, EventReplicas!history
  <1>4. trigger = "webhooks" => [Webhooks!Next]_(Webhooks!vars)
    BY DEF Webhooks!vars
  <1>5. trigger = "webhook faults" => [HookFaults!Next]_(HookFaults!vars)
    BY DEF HookFaults!vars
  <1>6. trigger = "alerts" => [Alerts!Next]_(Alerts!vars)
    BY DEF Alerts!vars
  <1>9. trigger = "alert retries" => [AlertRetries!Next]_(AlertRetries!vars)
    BY DEF AlertRetries!vars
  <1>7. trigger = "launches" => [Launches!Next]_(Launches!vars)
    BY DEF Launches!vars, Launches!money, Launches!request, Launches!runs
  <1>8. trigger = "launch faults" => [LaunchFaults!Next]_(LaunchFaults!vars)
    BY DEF LaunchFaults!vars, LaunchFaults!money, LaunchFaults!request, LaunchFaults!runs
  <1> QED BY <1>1, <1>2, <1>3, <1>4, <1>5, <1>6, <1>7, <1>8, <1>9

(* The parameters satisfy what the components assume.                      *)
LEMMA TriggerParameters ==
  /\ Clean!EventAssumption /\ Faulty!EventAssumption
  /\ Clean!HookAssumption /\ Faulty!HookAssumption
  /\ Clean!Outbox!OutboxAssumption /\ Faulty!Outbox!OutboxAssumption
  /\ Clean!LaunchAssumption /\ Faulty!LaunchAssumption
  <1>1. Clean!EventAssumption /\ Faulty!EventAssumption
    BY DEF Clean!EventAssumption, Clean!Events!SubscriberAssumption, Clean!Events!FaultAssumption,
           Faulty!EventAssumption, Faulty!Events!SubscriberAssumption, Faulty!Events!FaultAssumption
  <1>2. Clean!HookAssumption /\ Faulty!HookAssumption
    BY TriggerAssumption
       DEF Clean!HookAssumption, Clean!Hooks!ClockAssumption, Clean!Hooks!SignedAssumption, Clean!Hooks!RunAssumption,
           Faulty!HookAssumption, Faulty!Hooks!ClockAssumption, Faulty!Hooks!SignedAssumption, Faulty!Hooks!RunAssumption,
           TriggerAssumption, Webhooks!ClockAssumption, Webhooks!SignedAssumption, Webhooks!RunAssumption,
           HookFaults!ClockAssumption, HookFaults!SignedAssumption, HookFaults!RunAssumption
  <1>3. Clean!Outbox!OutboxAssumption /\ Faulty!Outbox!OutboxAssumption
    BY DEF Clean!Outbox!OutboxAssumption, Faulty!Outbox!OutboxAssumption
  <1>4. Clean!LaunchAssumption /\ Faulty!LaunchAssumption
    BY DEF Clean!LaunchAssumption, Clean!Quota!QuotaAssumption, Clean!Quota!SwitchAssumption,
           Faulty!LaunchAssumption, Faulty!Quota!QuotaAssumption, Faulty!Quota!SwitchAssumption, Faulty!Quota!FaultKinds
  <1> QED BY <1>1, <1>2, <1>3, <1>4

(* dispatchEvents, deliverEvent and consumePipelineEventStream: nothing is *)
(* lost between outbox and stream, a subscriber runs once per event, and   *)
(* entries are acknowledged only when they are handled.                    *)
THEOREM EventsAlwaysHandled == TriggerSpec => []EventsHandled
  <1> DEFINE Inv == /\ trigger = "events" => Clean!EventInv /\ Clean!LaunchCounted
                    /\ trigger = "event replicas" => Faulty!EventInv
  <1>1. TriggerInit => Inv
    BY TriggerParameters, EventsSame, ReplicasSame, Clean!EventsStart, Faulty!EventsStart DEF TriggerInit
  <1>2. Inv /\ [TriggerNext]_triggerVars => Inv'
    <2> SUFFICES ASSUME Inv, [TriggerNext]_triggerVars PROVE Inv'
      OBVIOUS
    <2>1. CASE trigger = "events"
      <3>1. [Clean!Events!Next]_(Clean!Events!vars)
        BY <2>1, TriggerSteps, EventsSame
      <3> QED BY <2>1, <3>1, TriggerSteps, TriggerParameters, Clean!EventsStep, Clean!CountedStep
    <2>2. CASE trigger = "event replicas"
      <3>1. [Faulty!Events!Next]_(Faulty!Events!vars)
        BY <2>2, TriggerSteps, ReplicasSame
      <3> QED BY <2>2, <3>1, TriggerSteps, TriggerParameters, Faulty!EventsStep
    <2> QED BY <2>1, <2>2, TriggerSteps
  <1>3. Inv => EventsHandled
    BY EventsSame, ReplicasSame, Clean!CountedBound, Clean!EventInvStreams, Faulty!EventInvStreams DEF EventsHandled
  <1> QED BY <1>1, <1>2, <1>3, PTL DEF TriggerSpec

(* claimWebhook: a signature, and an Idempotency-Key, starts one run; and  *)
(* after failed or unanswered calls a duplicate names the run of its key,  *)
(* and nobody's key names its run or is free.                              *)
THEOREM WebhooksAlwaysExact == TriggerSpec => []WebhooksExact
  <1> DEFINE Inv == /\ trigger = "webhooks" => Clean!HookInv
                    /\ trigger = "webhook faults" => Faulty!HookInv
  <1>1. TriggerInit => Inv
    BY TriggerParameters, WebhooksSame, HookFaultsSame, Clean!HookStarts, Faulty!HookStarts DEF TriggerInit
  <1>2. Inv /\ [TriggerNext]_triggerVars => Inv'
    <2> SUFFICES ASSUME Inv, [TriggerNext]_triggerVars PROVE Inv'
      OBVIOUS
    <2>1. CASE trigger = "webhooks"
      <3>1. [Clean!Hooks!Next]_(Clean!Hooks!vars)
        BY <2>1, TriggerSteps, WebhooksSame
      <3> QED BY <2>1, <3>1, TriggerSteps, TriggerParameters, Clean!HookStep
    <2>2. CASE trigger = "webhook faults"
      <3>1. [Faulty!Hooks!Next]_(Faulty!Hooks!vars)
        BY <2>2, TriggerSteps, HookFaultsSame
      <3> QED BY <2>2, <3>1, TriggerSteps, TriggerParameters, Faulty!HookStep
    <2> QED BY <2>1, <2>2, TriggerSteps
  <1>3. Inv => WebhooksExact
    <2>1. Clean!Answered
      BY DEF Clean!Answered
    <2>2. Clean!HookInv => Webhooks!OneRunPerSignature /\ Webhooks!OneRunPerKey
      BY <2>1, WebhooksSame, Clean!HookInvOneRun
    <2>3. Faulty!HookInv => HookFaults!TypeOK /\ HookFaults!DuplicateNamesItsRun /\ HookFaults!KeySettlesWithoutFaults
      BY TriggerParameters, HookFaultsSame, Faulty!HookInvSettles DEF Faulty!HookInv
    <2> QED BY <2>2, <2>3 DEF WebhooksExact
  <1> QED BY <1>1, <1>2, <1>3, PTL DEF TriggerSpec

(* dispatchAlerts: a notification is accepted twice only if an answer was  *)
(* lost or an outcome rolled back, and posted at most MaxAttempts times    *)
(* per manual retry, but for outcomes rolled back.                         *)
THEOREM NotificationsAlwaysBounded == TriggerSpec => []NotificationsBounded
  <1> DEFINE Inv == /\ trigger = "alerts" => Clean!OutboxInv
                    /\ trigger = "alert retries" => Faulty!OutboxInv
  <1>1. TriggerInit => Inv
    BY TriggerParameters, AlertsSame, AlertRetriesSame, Clean!OutboxStarts, Faulty!OutboxStarts DEF TriggerInit
  <1>2. Inv /\ [TriggerNext]_triggerVars => Inv'
    <2> SUFFICES ASSUME Inv, [TriggerNext]_triggerVars PROVE Inv'
      OBVIOUS
    <2>1. CASE trigger = "alerts"
      <3>1. [Clean!Outbox!Next]_(Clean!Outbox!vars)
        BY <2>1, TriggerSteps, AlertsSame
      <3> QED BY <2>1, <3>1, TriggerSteps, TriggerParameters, Clean!OutboxStep
    <2>2. CASE trigger = "alert retries"
      <3>1. [Faulty!Outbox!Next]_(Faulty!Outbox!vars)
        BY <2>2, TriggerSteps, AlertRetriesSame
      <3> QED BY <2>2, <3>1, TriggerSteps, TriggerParameters, Faulty!OutboxStep
    <2> QED BY <2>1, <2>2, TriggerSteps
  <1>3. Inv => NotificationsBounded
    BY TriggerParameters, AlertsSame, AlertRetriesSame, Clean!OutboxInvBounds, Faulty!OutboxInvBounds
       DEF NotificationsBounded, Clean!OutboxInv, Faulty!OutboxInv
  <1> QED BY <1>1, <1>2, <1>3, PTL DEF TriggerSpec

(* consumeQuota, releaseQuota, PrepareScheduledExecution: quota, counter,  *)
(* the index on active retries and the compensation fit together in every  *)
(* order of steps, but for the launches that a named failure hits.         *)
THEOREM LaunchesAlwaysAccounted == TriggerSpec => []LaunchesAccounted
  <1> DEFINE Inv == /\ trigger = "launches" => Clean!LaunchInv /\ Clean!Quota!PaidOnce /\ Clean!Balance
                    /\ trigger = "launch faults" => Faulty!LaunchInv /\ Faulty!Quota!PaidOnce /\ Faulty!Balance
  <1>1. /\ Clean!IsFiniteSet({"q1", "q2", "q3"}) /\ Clean!IsFiniteSet({"o1", "o2"})
        /\ Faulty!IsFiniteSet({"q1", "q2"}) /\ Faulty!IsFiniteSet({"o1"})
    <2>1. IsFiniteSet({"q1"}) /\ IsFiniteSet({"o1"})
      BY FS_Singleton
    <2>2. IsFiniteSet({"q1"} \cup {"q2"}) /\ IsFiniteSet({"o1"} \cup {"o2"})
      BY <2>1, FS_AddElement
    <2>3. IsFiniteSet(({"q1"} \cup {"q2"}) \cup {"q3"})
      BY <2>2, FS_AddElement
    <2>4. /\ ({"q1"} \cup {"q2"}) \cup {"q3"} = {"q1", "q2", "q3"}
          /\ {"q1"} \cup {"q2"} = {"q1", "q2"} /\ {"o1"} \cup {"o2"} = {"o1", "o2"}
      OBVIOUS
    <2>5. /\ IsFiniteSet({"q1", "q2", "q3"}) /\ IsFiniteSet({"o1", "o2"})
          /\ IsFiniteSet({"q1", "q2"}) /\ IsFiniteSet({"o1"})
      BY <2>1, <2>2, <2>3, <2>4
    <2> QED BY <2>5 DEF IsFiniteSet, Clean!IsFiniteSet, Faulty!IsFiniteSet
  <1>2. TriggerInit => Inv
    BY TriggerParameters, LaunchesSame, LaunchFaultsSame, Clean!LaunchStarts, Faulty!LaunchStarts DEF TriggerInit
  <1>3. Inv /\ [TriggerNext]_triggerVars => Inv'
    <2> SUFFICES ASSUME Inv, [TriggerNext]_triggerVars PROVE Inv'
      OBVIOUS
    <2>1. CASE trigger = "launches"
      <3>1. [Clean!Quota!Next]_(Clean!Quota!vars)
        BY <2>1, TriggerSteps, LaunchesSame
      <3>2. Clean!LaunchInv'
        BY <2>1, <3>1, TriggerParameters, Clean!LaunchStep
      <3>3. Clean!Quota!PaidOnce'
        BY <1>1, <2>1, <3>1, TriggerParameters, Clean!PaidStep
      <3>4. Clean!Balance'
        BY <1>1, <2>1, <3>1, TriggerParameters, Clean!BalanceStep
      <3> QED BY <2>1, <3>2, <3>3, <3>4, TriggerSteps
    <2>2. CASE trigger = "launch faults"
      <3>1. [Faulty!Quota!Next]_(Faulty!Quota!vars)
        BY <2>2, TriggerSteps, LaunchFaultsSame
      <3>2. Faulty!LaunchInv'
        BY <2>2, <3>1, TriggerParameters, Faulty!LaunchStep
      <3>3. Faulty!Quota!PaidOnce'
        BY <1>1, <2>2, <3>1, TriggerParameters, Faulty!PaidStep
      <3>4. Faulty!Balance'
        BY <1>1, <2>2, <3>1, TriggerParameters, Faulty!BalanceStep
      <3> QED BY <2>2, <3>2, <3>3, <3>4, TriggerSteps
    <2> QED BY <2>1, <2>2, TriggerSteps
  <1>4. Inv => LaunchesAccounted
    <2>1. Clean!LaunchInv /\ Clean!Balance =>
            /\ Clean!Quota!TypeOK /\ Clean!Quota!WithinQuota /\ Clean!Quota!OneActiveRetry
            /\ Clean!Quota!Compensated /\ Clean!Quota!UsageIsCounted /\ Clean!Quota!Settled
      BY <1>1, TriggerParameters, Clean!LaunchInvRetry, Clean!LaunchInvUsage DEF Clean!LaunchInv
    <2>2. Faulty!LaunchInv /\ Faulty!Balance =>
            /\ Faulty!Quota!TypeOK /\ Faulty!Quota!WithinQuota /\ Faulty!Quota!OneActiveRetry
            /\ Faulty!Quota!Compensated /\ Faulty!Quota!UsageIsCounted /\ Faulty!Quota!Settled
      BY <1>1, TriggerParameters, Faulty!LaunchInvRetry, Faulty!LaunchInvUsage DEF Faulty!LaunchInv
    <2> QED BY <2>1, <2>2, LaunchesSame, LaunchFaultsSame DEF LaunchesAccounted
  <1> QED BY <1>2, <1>3, <1>4, PTL DEF TriggerSpec

-----------------------------------------------------------------------------
(* The components of MCIdentity are those of IdentityProofs.               *)
Who == INSTANCE IdentityProofs WITH
    Kid <- {"k1", "k2", "odd"}, Odd <- {"odd"}, MaxAge <- 3, Backoff <- 2, JwksEnd <- 4,
    Email <- {"e1"}, AccountRequest <- {"q1", "q2", "q3"}, Alone <- FALSE,
    SessionRequest <- {"q1", "q2"}, Token <- {"t1", "t2", "t3"}, Link <- {"k1"}, Grace <- 1, TokenTTL <- 2,
    LinkTTL <- 2, LinkPause <- 1, SessionEnd <- 2,
    User <- {"u1", "u2"}, Provider <- {"google", "microsoft", "zendesk"},
    Nonce <- {"n1", "n2"}, OAuthRequest <- {"q1", "q2"}, MaxGrant <- 2, MaxId <- 2,
    RateRequest <- {"q1", "q2", "q3"}, Replica <- {"r1", "r2"}, Limit <- 1, Window <- 2, MaxTime <- 3
Again == INSTANCE IdentityProofs WITH
    Kid <- {"k1", "k2", "odd"}, Odd <- {"odd"}, MaxAge <- 3, Backoff <- 2, JwksEnd <- 4,
    Email <- {"e1"}, AccountRequest <- {"q1", "q2", "q3"}, Alone <- FALSE,
    SessionRequest <- {"q1", "q2"}, Token <- {"t1"}, Link <- {"k1", "k2"}, Grace <- 1, TokenTTL <- 2,
    LinkTTL <- 2, LinkPause <- 1, SessionEnd <- 2,
    User <- {"u1"}, Provider <- {"google"},
    Nonce <- {"n1", "n2", "n3"}, OAuthRequest <- {"q1", "q2"}, MaxGrant <- 3, MaxId <- 2,
    RateRequest <- {"q1", "q2", "q3"}, Replica <- {"r1", "r2"}, Limit <- 1, Window <- 2, MaxTime <- 3

LEMMA TokensSame ==
  /\ Tokens!Init <=> Who!Ses!Init
  /\ [Tokens!Next]_(Tokens!vars) <=> [Who!Ses!Next]_(Who!Ses!vars)
  /\ Tokens!TypeOK <=> Who!Ses!TypeOK
  /\ Tokens!RedeemedOnce <=> Who!Ses!RedeemedOnce
  /\ Tokens!ResetEndsSessions <=> Who!Ses!ResetEndsSessions
  /\ Tokens!LinkUsedOnce <=> Who!Ses!LinkUsedOnce
  <1>1. Tokens!Init <=> Who!Ses!Init
    BY Zenon DEF
      Tokens!Init, Who!Ses!Init, Tokens!Free, Who!Ses!Free, Tokens!NoLink, Who!Ses!NoLink, Tokens!Idle, Who!Ses!Idle,
      Tokens!None, Who!Ses!None, Tokens!Cardinality, Who!Ses!Cardinality
  <1>2. [Tokens!Next]_(Tokens!vars) <=> [Who!Ses!Next]_(Who!Ses!vars)
    BY Zenon DEF
      Tokens!Next, Who!Ses!Next, Tokens!vars, Who!Ses!vars, Tokens!Tick, Who!Ses!Tick, Tokens!LoginCheck,
      Who!Ses!LoginCheck, Tokens!LoginIssue, Who!Ses!LoginIssue, Tokens!RefreshBegin, Who!Ses!RefreshBegin,
      Tokens!ReuseDetected, Who!Ses!ReuseDetected, Tokens!RefreshCommit, Who!Ses!RefreshCommit,
      Tokens!RefreshRollback, Who!Ses!RefreshRollback, Tokens!RevokeCommit, Who!Ses!RevokeCommit, Tokens!ForgotBegin,
      Who!Ses!ForgotBegin, Tokens!ForgotEnd, Who!Ses!ForgotEnd, Tokens!ResetBegin, Who!Ses!ResetBegin,
      Tokens!ResetCommit, Who!Ses!ResetCommit, Tokens!RolledBack, Who!Ses!RolledBack, Tokens!Logout, Who!Ses!Logout,
      Tokens!Enter, Who!Ses!Enter, Tokens!Idle, Who!Ses!Idle, Tokens!Revoking, Who!Ses!Revoking, Tokens!With,
      Who!Ses!With, Tokens!Fresh, Who!Ses!Fresh, Tokens!Leave, Who!Ses!Leave, Tokens!Issued, Who!Ses!Issued,
      Tokens!Redeemable, Who!Ses!Redeemable, Tokens!Overlap, Who!Ses!Overlap, Tokens!Live, Who!Ses!Live, Tokens!Free,
      Who!Ses!Free, Tokens!Unblocked, Who!Ses!Unblocked, Tokens!Revoked, Who!Ses!Revoked, Tokens!Sent, Who!Ses!Sent,
      Tokens!Recent, Who!Ses!Recent, Tokens!Locked, Who!Ses!Locked, Tokens!Valid, Who!Ses!Valid, Tokens!Ends,
      Who!Ses!Ends, Tokens!UsedUp, Who!Ses!UsedUp, Tokens!None, Who!Ses!None, Tokens!Expired, Who!Ses!Expired,
      Tokens!Cardinality, Who!Ses!Cardinality
  <1>3. Tokens!TypeOK <=> Who!Ses!TypeOK
    BY Zenon DEF
      Tokens!TypeOK, Who!Ses!TypeOK, Tokens!Stage, Who!Ses!Stage, Tokens!None, Who!Ses!None, Tokens!Cardinality,
      Who!Ses!Cardinality
  <1>4. Tokens!RedeemedOnce <=> Who!Ses!RedeemedOnce
    BY Zenon DEF
      Tokens!RedeemedOnce, Who!Ses!RedeemedOnce, Tokens!Cardinality, Who!Ses!Cardinality
  <1>5. Tokens!ResetEndsSessions <=> Who!Ses!ResetEndsSessions
    BY Zenon DEF
      Tokens!ResetEndsSessions, Who!Ses!ResetEndsSessions, Tokens!Live, Who!Ses!Live, Tokens!With, Who!Ses!With,
      Tokens!Cardinality, Who!Ses!Cardinality
  <1>6. Tokens!LinkUsedOnce <=> Who!Ses!LinkUsedOnce
    BY Zenon DEF
      Tokens!LinkUsedOnce, Who!Ses!LinkUsedOnce, Tokens!Cardinality, Who!Ses!Cardinality
  <1> QED BY <1>1, <1>2, <1>3, <1>4, <1>5, <1>6

LEMMA ResetsSame ==
  /\ Resets!Init <=> Again!Ses!Init
  /\ [Resets!Next]_(Resets!vars) <=> [Again!Ses!Next]_(Again!Ses!vars)
  /\ Resets!ResetEndsSessions <=> Again!Ses!ResetEndsSessions
  /\ Resets!LinkUsedOnce <=> Again!Ses!LinkUsedOnce
  <1>1. Resets!Init <=> Again!Ses!Init
    BY Zenon DEF
      Resets!Init, Again!Ses!Init, Resets!Free, Again!Ses!Free, Resets!NoLink, Again!Ses!NoLink, Resets!Idle,
      Again!Ses!Idle, Resets!None, Again!Ses!None, Resets!Cardinality, Again!Ses!Cardinality
  <1>2. [Resets!Next]_(Resets!vars) <=> [Again!Ses!Next]_(Again!Ses!vars)
    BY Zenon DEF
      Resets!Next, Again!Ses!Next, Resets!vars, Again!Ses!vars, Resets!Tick, Again!Ses!Tick, Resets!LoginCheck,
      Again!Ses!LoginCheck, Resets!LoginIssue, Again!Ses!LoginIssue, Resets!RefreshBegin, Again!Ses!RefreshBegin,
      Resets!ReuseDetected, Again!Ses!ReuseDetected, Resets!RefreshCommit, Again!Ses!RefreshCommit,
      Resets!RefreshRollback, Again!Ses!RefreshRollback, Resets!RevokeCommit, Again!Ses!RevokeCommit,
      Resets!ForgotBegin, Again!Ses!ForgotBegin, Resets!ForgotEnd, Again!Ses!ForgotEnd, Resets!ResetBegin,
      Again!Ses!ResetBegin, Resets!ResetCommit, Again!Ses!ResetCommit, Resets!RolledBack, Again!Ses!RolledBack,
      Resets!Logout, Again!Ses!Logout, Resets!Enter, Again!Ses!Enter, Resets!Idle, Again!Ses!Idle, Resets!Revoking,
      Again!Ses!Revoking, Resets!With, Again!Ses!With, Resets!Fresh, Again!Ses!Fresh, Resets!Leave, Again!Ses!Leave,
      Resets!Issued, Again!Ses!Issued, Resets!Redeemable, Again!Ses!Redeemable, Resets!Overlap, Again!Ses!Overlap,
      Resets!Live, Again!Ses!Live, Resets!Free, Again!Ses!Free, Resets!Unblocked, Again!Ses!Unblocked,
      Resets!Revoked, Again!Ses!Revoked, Resets!Sent, Again!Ses!Sent, Resets!Recent, Again!Ses!Recent, Resets!Locked,
      Again!Ses!Locked, Resets!Valid, Again!Ses!Valid, Resets!Ends, Again!Ses!Ends, Resets!UsedUp, Again!Ses!UsedUp,
      Resets!None, Again!Ses!None, Resets!Expired, Again!Ses!Expired, Resets!Cardinality, Again!Ses!Cardinality
  <1>3. Resets!ResetEndsSessions <=> Again!Ses!ResetEndsSessions
    BY Zenon DEF
      Resets!ResetEndsSessions, Again!Ses!ResetEndsSessions, Resets!Live, Again!Ses!Live, Resets!With,
      Again!Ses!With, Resets!Cardinality, Again!Ses!Cardinality
  <1>4. Resets!LinkUsedOnce <=> Again!Ses!LinkUsedOnce
    BY Zenon DEF
      Resets!LinkUsedOnce, Again!Ses!LinkUsedOnce, Resets!Cardinality, Again!Ses!Cardinality
  <1> QED BY <1>1, <1>2, <1>3, <1>4

LEMMA AddressSame ==
  /\ Address!Init <=> Who!Acc!Init
  /\ [Address!Next]_(Address!vars) <=> [Who!Acc!Next]_(Who!Acc!vars)
  /\ Address!TypeOK <=> Who!Acc!TypeOK
  /\ Address!UnconfirmedHasNoSession <=> Who!Acc!UnconfirmedHasNoSession
  /\ Address!AcceptedHasAccount <=> Who!Acc!AcceptedHasAccount
  /\ Address!KeepsPassword <=> Who!Acc!KeepsPassword
  <1>1. Address!Init <=> Who!Acc!Init
    BY Zenon DEF
      Address!Init, Who!Acc!Init, Address!None, Who!Acc!None, Address!New, Who!Acc!New
  <1>2. [Address!Next]_(Address!vars) <=> [Who!Acc!Next]_(Who!Acc!vars)
    BY Zenon DEF
      Address!Next, Who!Acc!Next, Address!vars, Who!Acc!vars, Address!Handle, Who!Acc!Handle, Address!Invite,
      Who!Acc!Invite, Address!RegisterReplace, Who!Acc!RegisterReplace, Address!RegisterCreate,
      Who!Acc!RegisterCreate, Address!Login, Who!Acc!Login, Address!GoogleStart, Who!Acc!GoogleStart,
      Address!OidcStart, Who!Acc!OidcStart, Address!GoogleCallback, Who!Acc!GoogleCallback, Address!OidcCallback,
      Who!Acc!OidcCallback, Address!CreateCommit, Who!Acc!CreateCommit, Address!CreateFails, Who!Acc!CreateFails,
      Address!ReplacePassword, Who!Acc!ReplacePassword, Address!EndSessions, Who!Acc!EndSessions,
      Address!SendEmailVerification, Who!Acc!SendEmailVerification, Address!VerifyEmail, Who!Acc!VerifyEmail,
      Address!IssueRefreshToken, Who!Acc!IssueRefreshToken, Address!Join, Who!Acc!Join, Address!Claim, Who!Acc!Claim,
      Address!DropLinks, Who!Acc!DropLinks, Address!LinkExpires, Who!Acc!LinkExpires, Address!rows, Who!Acc!rows,
      Address!Pending, Who!Acc!Pending, Address!Start, Who!Acc!Start, Address!New, Who!Acc!New, Address!None,
      Who!Acc!None, Address!Admits, Who!Acc!Admits, Address!At, Who!Acc!At, Address!Refused, Who!Acc!Refused,
      Address!ResolveIdentity, Who!Acc!ResolveIdentity, Address!Mine, Who!Acc!Mine, Address!Accept, Who!Acc!Accept,
      Address!Go, Who!Acc!Go, Address!InviteAfterFailure, Who!Acc!InviteAfterFailure, Address!Replaceable,
      Who!Acc!Replaceable, Address!LinksOver, Who!Acc!LinksOver
  <1>3. Address!TypeOK <=> Who!Acc!TypeOK
    BY Zenon DEF
      Address!TypeOK, Who!Acc!TypeOK, Address!None, Who!Acc!None, Address!Stages, Who!Acc!Stages
  <1>4. Address!UnconfirmedHasNoSession <=> Who!Acc!UnconfirmedHasNoSession
    BY Zenon DEF
      Address!UnconfirmedHasNoSession, Who!Acc!UnconfirmedHasNoSession
  <1>5. Address!AcceptedHasAccount <=> Who!Acc!AcceptedHasAccount
    BY Zenon DEF
      Address!AcceptedHasAccount, Who!Acc!AcceptedHasAccount
  <1>6. Address!KeepsPassword <=> Who!Acc!KeepsPassword
    BY Zenon DEF
      Address!KeepsPassword, Who!Acc!KeepsPassword
  <1> QED BY <1>1, <1>2, <1>3, <1>4, <1>5, <1>6

LEMMA IssuerSame ==
  /\ Issuer!Init <=> Who!Jwks!Init
  /\ [Issuer!Next]_(Issuer!vars) <=> [Who!Jwks!Next]_(Who!Jwks!vars)
  /\ Issuer!TypeOK <=> Who!Jwks!TypeOK
  /\ Issuer!RetiredKeysEnd <=> Who!Jwks!RetiredKeysEnd
  /\ Issuer!NewKeysWork <=> Who!Jwks!NewKeysWork
  /\ Issuer!GoodFetchesSpaced <=> Who!Jwks!GoodFetchesSpaced
  <1>1. Issuer!Init <=> Who!Jwks!Init
    BY Zenon DEF
      Issuer!Init, Who!Jwks!Init, Issuer!Nobody, Who!Jwks!Nobody, Issuer!Nothing, Who!Jwks!Nothing,
      Issuer!NoKid, Who!Jwks!NoKid
  <1>2. [Issuer!Next]_(Issuer!vars) <=> [Who!Jwks!Next]_(Who!Jwks!vars)
    BY Zenon DEF
      Issuer!Next, Who!Jwks!Next, Issuer!Tick, Who!Jwks!Tick, Issuer!Rotate, Who!Jwks!Rotate, Issuer!NoKid,
      Who!Jwks!NoKid, Issuer!VerifyOIDCIDToken, Who!Jwks!VerifyOIDCIDToken, Issuer!Serve, Who!Jwks!Serve,
      Issuer!StoreKeys, Who!Jwks!StoreKeys, Issuer!FetchFails, Who!Jwks!FetchFails, Issuer!Nothing,
      Who!Jwks!Nothing, Issuer!FromCache, Who!Jwks!FromCache, Issuer!FetchJWKS, Who!Jwks!FetchJWKS,
      Issuer!Nobody, Who!Jwks!Nobody, Issuer!Usable, Who!Jwks!Usable, Issuer!Age, Who!Jwks!Age, Issuer!Answer,
      Who!Jwks!Answer, Issuer!Decided, Who!Jwks!Decided, Issuer!Lookup, Who!Jwks!Lookup, Issuer!Fresh,
      Who!Jwks!Fresh, Issuer!BacksOff, Who!Jwks!BacksOff, Issuer!Cardinality, Who!Jwks!Cardinality, Issuer!vars,
      Who!Jwks!vars
  <1>3. Issuer!TypeOK <=> Who!Jwks!TypeOK
    BY Zenon DEF
      Issuer!TypeOK, Who!Jwks!TypeOK, Issuer!NoKid, Who!Jwks!NoKid, Issuer!Nobody, Who!Jwks!Nobody
  <1>4. Issuer!RetiredKeysEnd <=> Who!Jwks!RetiredKeysEnd
    BY Zenon DEF
      Issuer!RetiredKeysEnd, Who!Jwks!RetiredKeysEnd, Issuer!NoKid, Who!Jwks!NoKid, Issuer!Latency,
      Who!Jwks!Latency
  <1>5. Issuer!NewKeysWork <=> Who!Jwks!NewKeysWork
    BY Zenon DEF
      Issuer!NewKeysWork, Who!Jwks!NewKeysWork, Issuer!Usable, Who!Jwks!Usable, Issuer!Latency, Who!Jwks!Latency
  <1>6. Issuer!GoodFetchesSpaced <=> Who!Jwks!GoodFetchesSpaced
    BY Zenon DEF
      Issuer!GoodFetchesSpaced, Who!Jwks!GoodFetchesSpaced
  <1> QED BY <1>1, <1>2, <1>3, <1>4, <1>5, <1>6

LEMMA ConnectSame ==
  /\ Connect!Init <=> Who!Con!Init
  /\ [Connect!Next]_(Connect!vars) <=> [Who!Con!Next]_(Who!Con!vars)
  /\ Connect!TypeOK <=> Who!Con!TypeOK
  /\ Connect!StateSpentOnce <=> Who!Con!StateSpentOnce
  /\ Connect!ConnectedByOwner <=> Who!Con!ConnectedByOwner
  <1>1. Connect!Init <=> Who!Con!Init
    BY Zenon DEF
      Connect!Init, Who!Con!Init, Connect!None, Who!Con!None, Connect!Idle, Who!Con!Idle, Connect!Grant,
      Who!Con!Grant
  <1>2. [Connect!Next]_(Connect!vars) <=> [Who!Con!Next]_(Who!Con!vars)
    BY Zenon DEF
      Connect!Next, Who!Con!Next, Connect!vars, Who!Con!vars, Connect!GoogleConnectorStart,
      Who!Con!GoogleConnectorStart, Connect!MicrosoftConnectorStart, Who!Con!MicrosoftConnectorStart,
      Connect!ZendeskStart, Who!Con!ZendeskStart, Connect!StateExpires, Who!Con!StateExpires,
      Connect!GoogleConnectorCallback, Who!Con!GoogleConnectorCallback, Connect!MicrosoftConnectorCallback,
      Who!Con!MicrosoftConnectorCallback, Connect!ZendeskCallback, Who!Con!ZendeskCallback, Connect!GoogleExchange,
      Who!Con!GoogleExchange, Connect!MicrosoftExchange, Who!Con!MicrosoftExchange, Connect!ZendeskExchange,
      Who!Con!ZendeskExchange, Connect!ExchangeFails, Who!Con!ExchangeFails, Connect!UpsertOAuth,
      Who!Con!UpsertOAuth, Connect!LiveToken, Who!Con!LiveToken, Connect!Unauthorized, Who!Con!Unauthorized,
      Connect!RefreshAnswered, Who!Con!RefreshAnswered, Connect!RefreshRefused, Who!Con!RefreshRefused,
      Connect!StoreRefreshed, Who!Con!StoreRefreshed, Connect!TokenExpires, Who!Con!TokenExpires,
      Connect!ConnectorDelete, Who!Con!ConnectorDelete, Connect!MintOAuthState, Who!Con!MintOAuthState, Connect!Held,
      Who!Con!Held, Connect!None, Who!Con!None, Connect!ConsumeOAuthState, Who!Con!ConsumeOAuthState,
      Connect!Exchanged, Who!Con!Exchanged, Connect!At, Who!Con!At, Connect!Goto, Who!Con!Goto, Connect!Idle,
      Who!Con!Idle, Connect!Same, Who!Con!Same, Connect!Enter, Who!Con!Enter, Connect!Updated, Who!Con!Updated,
      Connect!Written, Who!Con!Written, Connect!Left, Who!Con!Left, Connect!ValidFor, Who!Con!ValidFor
  <1>3. Connect!TypeOK <=> Who!Con!TypeOK
    BY Zenon DEF
      Connect!TypeOK, Who!Con!TypeOK, Connect!Held, Who!Con!Held, Connect!None, Who!Con!None
  <1>4. Connect!StateSpentOnce <=> Who!Con!StateSpentOnce
    BY Zenon DEF
      Connect!StateSpentOnce, Who!Con!StateSpentOnce
  <1>5. Connect!ConnectedByOwner <=> Who!Con!ConnectedByOwner
    BY Zenon DEF
      Connect!ConnectedByOwner, Who!Con!ConnectedByOwner
  <1> QED BY <1>1, <1>2, <1>3, <1>4, <1>5

LEMMA RefreshSame ==
  /\ Refresh!Init <=> Again!Con!Init
  /\ [Refresh!Next]_(Refresh!vars) <=> [Again!Con!Next]_(Again!Con!vars)
  /\ Refresh!TokensOfTheRow <=> Again!Con!TokensOfTheRow
  /\ Refresh!ReconnectSurvives <=> Again!Con!ReconnectSurvives
  <1>1. Refresh!Init <=> Again!Con!Init
    BY Zenon DEF
      Refresh!Init, Again!Con!Init, Refresh!None, Again!Con!None, Refresh!Idle, Again!Con!Idle, Refresh!Grant,
      Again!Con!Grant
  <1>2. [Refresh!Next]_(Refresh!vars) <=> [Again!Con!Next]_(Again!Con!vars)
    BY Zenon DEF
      Refresh!Next, Again!Con!Next, Refresh!vars, Again!Con!vars, Refresh!GoogleConnectorStart,
      Again!Con!GoogleConnectorStart, Refresh!MicrosoftConnectorStart, Again!Con!MicrosoftConnectorStart,
      Refresh!ZendeskStart, Again!Con!ZendeskStart, Refresh!StateExpires, Again!Con!StateExpires,
      Refresh!GoogleConnectorCallback, Again!Con!GoogleConnectorCallback, Refresh!MicrosoftConnectorCallback,
      Again!Con!MicrosoftConnectorCallback, Refresh!ZendeskCallback, Again!Con!ZendeskCallback,
      Refresh!GoogleExchange, Again!Con!GoogleExchange, Refresh!MicrosoftExchange, Again!Con!MicrosoftExchange,
      Refresh!ZendeskExchange, Again!Con!ZendeskExchange, Refresh!ExchangeFails, Again!Con!ExchangeFails,
      Refresh!UpsertOAuth, Again!Con!UpsertOAuth, Refresh!LiveToken, Again!Con!LiveToken, Refresh!Unauthorized,
      Again!Con!Unauthorized, Refresh!RefreshAnswered, Again!Con!RefreshAnswered, Refresh!RefreshRefused,
      Again!Con!RefreshRefused, Refresh!StoreRefreshed, Again!Con!StoreRefreshed, Refresh!TokenExpires,
      Again!Con!TokenExpires, Refresh!ConnectorDelete, Again!Con!ConnectorDelete, Refresh!MintOAuthState,
      Again!Con!MintOAuthState, Refresh!Held, Again!Con!Held, Refresh!None, Again!Con!None,
      Refresh!ConsumeOAuthState, Again!Con!ConsumeOAuthState, Refresh!Exchanged, Again!Con!Exchanged, Refresh!At,
      Again!Con!At, Refresh!Goto, Again!Con!Goto, Refresh!Idle, Again!Con!Idle, Refresh!Same, Again!Con!Same,
      Refresh!Enter, Again!Con!Enter, Refresh!Updated, Again!Con!Updated, Refresh!Written, Again!Con!Written,
      Refresh!Left, Again!Con!Left, Refresh!ValidFor, Again!Con!ValidFor
  <1>3. Refresh!TokensOfTheRow <=> Again!Con!TokensOfTheRow
    BY Zenon DEF
      Refresh!TokensOfTheRow, Again!Con!TokensOfTheRow
  <1>4. Refresh!ReconnectSurvives <=> Again!Con!ReconnectSurvives
    BY Zenon DEF
      Refresh!ReconnectSurvives, Again!Con!ReconnectSurvives
  <1> QED BY <1>1, <1>2, <1>3, <1>4

LEMMA LimiterSame ==
  /\ Limiter!Init <=> Who!Rate!Init
  /\ [Limiter!Next]_(Limiter!vars) <=> [Who!Rate!Next]_(Who!Rate!vars)
  /\ Limiter!TypeOK <=> Who!Rate!TypeOK
  /\ Limiter!LimitPerCounter <=> Who!Rate!LimitPerCounter
  <1>1. Limiter!Init <=> Who!Rate!Init
    BY Zenon DEF
      Limiter!Init, Who!Rate!Init, Limiter!Bucket, Who!Rate!Bucket, Limiter!Fresh, Who!Rate!Fresh,
      Limiter!Cardinality, Who!Rate!Cardinality
  <1>2. [Limiter!Next]_(Limiter!vars) <=> [Who!Rate!Next]_(Who!Rate!vars)
    BY Zenon DEF
      Limiter!Next, Who!Rate!Next, Limiter!vars, Who!Rate!vars, Limiter!Tick, Who!Rate!Tick, Limiter!Arrive,
      Who!Rate!Arrive, Limiter!CountInRedis, Who!Rate!CountInRedis, Limiter!RedisFails, Who!Rate!RedisFails,
      Limiter!CountLocally, Who!Rate!CountLocally, Limiter!Sweep, Who!Rate!Sweep, Limiter!RedisIncr,
      Who!Rate!RedisIncr, Limiter!Decide, Who!Rate!Decide, Limiter!LocalIncr, Who!Rate!LocalIncr, Limiter!Bucket,
      Who!Rate!Bucket, Limiter!Swept, Who!Rate!Swept, Limiter!Fresh, Who!Rate!Fresh, Limiter!Cardinality,
      Who!Rate!Cardinality
  <1>3. Limiter!TypeOK <=> Who!Rate!TypeOK
    BY Zenon DEF
      Limiter!TypeOK, Who!Rate!TypeOK, Limiter!Bounded, Who!Rate!Bounded, Limiter!Bucket, Who!Rate!Bucket, Limiter!Cardinality, Who!Rate!Cardinality
  <1>4. Limiter!LimitPerCounter <=> Who!Rate!LimitPerCounter
    BY Zenon DEF
      Limiter!LimitPerCounter, Who!Rate!LimitPerCounter, Limiter!Bucket, Who!Rate!Bucket, Limiter!Counted,
      Who!Rate!Counted, Limiter!Cardinality, Who!Rate!Cardinality
  <1> QED BY <1>1, <1>2, <1>3, <1>4

-----------------------------------------------------------------------------
(* A step of the suite is a step of the component its behaviour is about.  *)
LEMMA IdentitySteps ==
  ASSUME [IdentityNext]_identityVars
  PROVE  /\ concern' = concern
         /\ concern = "sessions" => [Tokens!Next]_(Tokens!vars)
         /\ concern = "resets" => [Resets!Next]_(Resets!vars)
         /\ concern = "accounts" => [Address!Next]_(Address!vars)
         /\ concern = "issuer" => [Issuer!Next]_(Issuer!vars)
         /\ concern = "connect" => [Connect!Next]_(Connect!vars)
         /\ concern = "refresh" => [Refresh!Next]_(Refresh!vars)
         /\ concern = "limiter" => [Limiter!Next]_(Limiter!vars)
  <1> USE DEF IdentityNext, identityVars, SessionStep, AccountStep, IssuerStep, OAuthStep, LimiterStep,
              sessionVars, accountVars, jwksVars, oauthVars, rateVars
  <1>1. concern' = concern
    OBVIOUS
  <1>2. concern = "sessions" => [Tokens!Next]_(Tokens!vars)
    BY DEF Tokens!vars
  <1>3. concern = "resets" => [Resets!Next]_(Resets!vars)
    BY DEF Resets!vars
  <1>4. concern = "accounts" => [Address!Next]_(Address!vars)
    BY DEF Address!vars
  <1>5. concern = "issuer" => [Issuer!Next]_(Issuer!vars)
    BY DEF Issuer!vars
  <1>6. concern = "connect" => [Connect!Next]_(Connect!vars)
    BY DEF Connect!vars
  <1>7. concern = "refresh" => [Refresh!Next]_(Refresh!vars)
    BY DEF Refresh!vars
  <1>8. concern = "limiter" => [Limiter!Next]_(Limiter!vars)
    BY DEF Limiter!vars
  <1> QED BY <1>1, <1>2, <1>3, <1>4, <1>5, <1>6, <1>7, <1>8

(* The parameters satisfy what the components assume.                      *)
LEMMA IdentityParameters ==
  /\ Who!Ses!SessionsAssumption /\ Again!Ses!SessionsAssumption
  /\ Who!Acc!FreshAssumption /\ Who!Jwks!JwksAssumption
  /\ Who!Con!OAuthAssumption /\ Again!Con!OAuthAssumption
  /\ Who!Rate!RateAssumption
  <1>1. Who!Ses!SessionsAssumption /\ Again!Ses!SessionsAssumption
    BY DEF Who!Ses!SessionsAssumption, Again!Ses!SessionsAssumption
  <1>2. Who!Acc!FreshAssumption
    BY DEF Who!Acc!FreshAssumption
  <1>3. Who!Jwks!JwksAssumption
    BY IdentityAssumption
       DEF IdentityAssumption, Issuer!JwksAssumption, Who!Jwks!JwksAssumption, Issuer!NoKid, Who!Jwks!NoKid,
           Issuer!Nobody, Who!Jwks!Nobody
  <1>4. Who!Con!OAuthAssumption /\ Again!Con!OAuthAssumption
    BY DEF Who!Con!OAuthAssumption, Again!Con!OAuthAssumption
  <1>5. Who!Rate!RateAssumption
    BY DEF Who!Rate!RateAssumption
  <1> QED BY <1>1, <1>2, <1>3, <1>4, <1>5

LEMMA IdentityFinite ==
  Who!IsFiniteSet({"k1"}) /\ Again!IsFiniteSet({"k1", "k2"}) /\ Who!IsFiniteSet({"q1", "q2", "q3"})
  <1>1. IsFiniteSet({"k1"}) /\ IsFiniteSet({"q1"})
    BY FS_Singleton
  <1>2. IsFiniteSet({"k1"} \cup {"k2"}) /\ IsFiniteSet({"q1"} \cup {"q2"})
    BY <1>1, FS_AddElement
  <1>3. IsFiniteSet(({"q1"} \cup {"q2"}) \cup {"q3"})
    BY <1>2, FS_AddElement
  <1>4. {"k1"} \cup {"k2"} = {"k1", "k2"} /\ ({"q1"} \cup {"q2"}) \cup {"q3"} = {"q1", "q2", "q3"}
    OBVIOUS
  <1>5. IsFiniteSet({"k1"}) /\ IsFiniteSet({"k1", "k2"}) /\ IsFiniteSet({"q1", "q2", "q3"})
    BY <1>1, <1>2, <1>3, <1>4
  <1> QED BY <1>5 DEF IsFiniteSet, Who!IsFiniteSet, Again!IsFiniteSet

(* authRefresh, resetPassword: a token is redeemed once, a link sets one   *)
(* password, and a reset ends every older session but for the tokens that  *)
(* were being issued at that time.                                         *)
THEOREM SessionsAlwaysEnd == IdentitySpec => []SessionsEnd
  <1> DEFINE Inv == /\ concern = "sessions" => Who!SessionInv
                    /\ concern = "resets" => Again!SessionInv
  <1>1. IdentityInit => Inv
    BY IdentityParameters, IdentityFinite, TokensSame, ResetsSame, Who!SessionsStart, Again!SessionsStart DEF IdentityInit
  <1>2. Inv /\ [IdentityNext]_identityVars => Inv'
    <2> SUFFICES ASSUME Inv, [IdentityNext]_identityVars PROVE Inv'
      OBVIOUS
    <2>1. CASE concern = "sessions"
      <3>1. [Who!Ses!Next]_(Who!Ses!vars)
        BY <2>1, IdentitySteps, TokensSame
      <3> QED BY <2>1, <3>1, IdentitySteps, IdentityParameters, IdentityFinite, Who!SessionStep
    <2>2. CASE concern = "resets"
      <3>1. [Again!Ses!Next]_(Again!Ses!vars)
        BY <2>2, IdentitySteps, ResetsSame
      <3> QED BY <2>2, <3>1, IdentitySteps, IdentityParameters, IdentityFinite, Again!SessionStep
    <2> QED BY <2>1, <2>2, IdentitySteps
  <1>3. Inv => SessionsEnd
    BY IdentityParameters, IdentityFinite, TokensSame, ResetsSame, Who!SessionInvImplies, Again!SessionInvImplies
       DEF SessionsEnd
  <1> QED BY <1>1, <1>2, <1>3, PTL DEF IdentitySpec

(* authRegister, authVerifyEmail, resolveIdentity: no session without a    *)
(* confirmation, no invitation used up without its account, and nobody     *)
(* replaces the password of a confirmed account.                           *)
THEOREM AccountsAlwaysProtected == IdentitySpec => AccountsProtected
  <1> DEFINE Inv == concern = "accounts" => Who!AccountInv
             Kept == concern = "accounts" =>
                        /\ Address!KeepsPassword
                        /\ (Address!TypeOK /\ Address!UnconfirmedHasNoSession /\ Address!AcceptedHasAccount)'
  <1>1. IdentityInit => Inv
    BY AddressSame, Who!AccountsStart DEF IdentityInit
  <1>2. Inv /\ [IdentityNext]_identityVars => Inv' /\ Kept
    <2> SUFFICES ASSUME Inv, [IdentityNext]_identityVars, concern = "accounts"
                 PROVE  Who!AccountInv' /\ Kept
      BY IdentitySteps
    <2>1. [Who!Acc!Next]_(Who!Acc!vars)
      BY IdentitySteps, AddressSame
    <2>2. Who!AccountInv' /\ Who!Acc!KeepsPassword
      BY <2>1, IdentityParameters, Who!AccountStep
    <2>3. (Who!AccountInv => Who!Acc!TypeOK /\ Who!Acc!UnconfirmedHasNoSession /\ Who!Acc!AcceptedHasAccount)'
      BY DEF Who!AccountInv
    <2>4. (/\ Address!TypeOK <=> Who!Acc!TypeOK
           /\ Address!UnconfirmedHasNoSession <=> Who!Acc!UnconfirmedHasNoSession
           /\ Address!AcceptedHasAccount <=> Who!Acc!AcceptedHasAccount)'
      BY AddressSame, PTL
    <2> QED BY <2>2, <2>3, <2>4, AddressSame
  <1>3. Inv /\ [IdentityNext]_identityVars => Inv' /\ [Kept]_identityVars
    BY <1>2
  <1> QED BY <1>1, <1>3, PTL DEF IdentitySpec, AccountsProtected

(* jwksCache.key: a withdrawn key ends within jwksMaxAge, a new one works  *)
(* after the backoff, each but for the time that the cached document was   *)
(* on its way, and sets are cached at least the backoff apart.             *)
THEOREM KeysAlwaysFollow == IdentitySpec => []KeysFollowIssuer
  <1> DEFINE Inv == concern = "issuer" => Who!JwksInv
  <1>1. IdentityInit => Inv
    BY IdentityParameters, IssuerSame, Who!JwksStarts DEF IdentityInit
  <1>2. Inv /\ [IdentityNext]_identityVars => Inv'
    <2> SUFFICES ASSUME Inv, [IdentityNext]_identityVars, concern = "issuer" PROVE Who!JwksInv'
      BY IdentitySteps
    <2>1. [Who!Jwks!Next]_(Who!Jwks!vars)
      BY IdentitySteps, IssuerSame
    <2> QED BY <2>1, IdentityParameters, Who!JwksStep
  <1>3. Inv => KeysFollowIssuer
    BY IssuerSame DEF KeysFollowIssuer, Who!JwksInv
  <1> QED BY <1>1, <1>2, <1>3, PTL DEF IdentitySpec

(* OAuth callbacks and refreshes: a state is spent once, a connection      *)
(* holds what its own user's redirect brought, and a late refresh touches  *)
(* no connection that was made again.                                      *)
THEOREM ConnectionsAlwaysKept == IdentitySpec => []ConnectionsKept
  <1> DEFINE Inv == /\ concern = "connect" => Who!OAuthInv
                    /\ concern = "refresh" => Again!OAuthInv
  <1>1. IdentityInit => Inv
    BY IdentityParameters, ConnectSame, RefreshSame, Who!OAuthStarts, Again!OAuthStarts DEF IdentityInit
  <1>2. Inv /\ [IdentityNext]_identityVars => Inv'
    <2> SUFFICES ASSUME Inv, [IdentityNext]_identityVars PROVE Inv'
      OBVIOUS
    <2>1. CASE concern = "connect"
      <3>1. [Who!Con!Next]_(Who!Con!vars)
        BY <2>1, IdentitySteps, ConnectSame
      <3> QED BY <2>1, <3>1, IdentitySteps, IdentityParameters, Who!OAuthMoves
    <2>2. CASE concern = "refresh"
      <3>1. [Again!Con!Next]_(Again!Con!vars)
        BY <2>2, IdentitySteps, RefreshSame
      <3> QED BY <2>2, <3>1, IdentitySteps, IdentityParameters, Again!OAuthMoves
    <2> QED BY <2>1, <2>2, IdentitySteps
  <1>3. Inv => ConnectionsKept
    BY IdentityParameters, ConnectSame, RefreshSame, Who!OAuthKept, Again!OAuthKept DEF ConnectionsKept
  <1> QED BY <1>1, <1>2, <1>3, PTL DEF IdentitySpec

(* rateLimit: no counter lets more than the limit through in the window of *)
(* its bucket, nor, but for one new beginning, in any of that length.      *)
THEOREM LimitAlwaysKept == IdentitySpec => []LimitPerCounter
  <1> DEFINE Inv == concern = "limiter" => Who!RateInv
  <1>1. IdentityInit => Inv
    BY IdentityParameters, IdentityFinite, LimiterSame, Who!RateStarts DEF IdentityInit
  <1>2. Inv /\ [IdentityNext]_identityVars => Inv'
    <2> SUFFICES ASSUME Inv, [IdentityNext]_identityVars PROVE Inv'
      OBVIOUS
    <2>1. CASE concern = "limiter"
      <3>1. [Who!Rate!Next]_(Who!Rate!vars)
        BY <2>1, IdentitySteps, LimiterSame
      <3> QED BY <2>1, <3>1, IdentitySteps, IdentityParameters, IdentityFinite, Who!RateMoves
    <2> QED BY <2>1, IdentitySteps
  <1>3. Inv => LimitPerCounter
    BY IdentityParameters, IdentityFinite, LimiterSame, Who!RateBounds DEF LimitPerCounter
  <1> QED BY <1>1, <1>2, <1>3, PTL DEF IdentitySpec

=============================================================================
