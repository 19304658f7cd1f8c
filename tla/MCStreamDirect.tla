--------------------------- MODULE MCStreamDirect ---------------------------
(* One stream execution of two partitions with two records each.           *)
EXTENDS StreamDirect

TwoRecords == [p \in Partition |-> 2]

=============================================================================
