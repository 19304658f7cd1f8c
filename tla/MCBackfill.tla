----------------------------- MODULE MCBackfill -----------------------------
(* Instances of Backfill: the replicas are strings.                         *)
EXTENDS Backfill

OneReplica == {"api"}
AllFaults == {"crash", "commit", "update", "mark", "repeat", "run"}

=============================================================================
