---------------------------- MODULE BackfillPlan ----------------------------
(***************************************************************************)
(* planBackfill: how a date range is cut into partitions.  The loop is     *)
(* kept, one step per partition.  Instants are numbers of hours; the       *)
(* calendar's AddDate(0, 0, n) is n days of DayHours, the offset of an     *)
(* RFC 3339 timestamp being fixed.                                         *)
(***************************************************************************)
EXTENDS Integers, Sequences

CONSTANTS
    Instant,        \* the instants of the requests
    DaysRequested,  \* the values of partitionDays in the requests
    DayHours,       \* length of a day
    MaxDays,        \* 31
    MaxPartitions   \* 366

PlanAssumption ==
    /\ Instant \subseteq Nat /\ DaysRequested \subseteq Int
    /\ DayHours \in Nat \ {0} /\ MaxDays \in Nat \ {0} /\ MaxPartitions \in Nat \ {0}

VARIABLES from, to, partitionDays, cursor, partitions, outcome

request == <<from, to, partitionDays>>
vars == <<request, cursor, partitions, outcome>>

Range == [from : Nat, to : Nat]

TypeOK ==
    /\ from \in Instant /\ to \in Instant /\ partitionDays \in DaysRequested
    /\ cursor \in Nat
    /\ partitions \in Seq(Range)
    /\ outcome \in {"received", "planning", "planned", "invalid", "too many"}

Init ==
    /\ from \in Instant /\ to \in Instant /\ partitionDays \in DaysRequested
    /\ cursor = from
    /\ partitions = <<>>
    /\ outcome = "received"

Valid == from < to /\ 1 <= partitionDays /\ partitionDays <= MaxDays

Validate ==
    /\ outcome = "received"
    /\ outcome' = IF Valid THEN "planning" ELSE "invalid"
    /\ UNCHANGED <<request, cursor, partitions>>

AddDays(t) == t + partitionDays * DayHours

UncutEnd == AddDays(cursor)
PartitionEnd == IF AddDays(cursor) > to THEN to ELSE AddDays(cursor)

(* The limit is looked at after the partition has been appended.           *)
TooManyAtLimit == Len(partitions) + 1 >= MaxPartitions
TooMany == Len(partitions) + 1 > MaxPartitions

AppendPartition ==
    /\ outcome = "planning" /\ cursor < to
    /\ partitions' = Append(partitions, [from |-> cursor, to |-> PartitionEnd])
    /\ cursor' = AddDays(cursor)
    /\ outcome' = IF TooMany THEN "too many" ELSE "planning"
    /\ UNCHANGED request

Return ==
    /\ outcome = "planning" /\ ~(cursor < to)
    /\ outcome' = "planned"
    /\ UNCHANGED <<request, cursor, partitions>>

Next == Validate \/ AppendPartition \/ Return

Spec == Init /\ [][Next]_vars

-----------------------------------------------------------------------------

(* The partitions of a plan cover the requested range without a gap and    *)
(* without an overlap, and nothing else: a row of the source falls into    *)
(* exactly one of them if it is in the range, and into none otherwise.     *)
Holds(i, t) == partitions[i].from <= t /\ t < partitions[i].to
PlanCoversRange ==
    outcome = "planned" =>
        /\ \A i \in 1..Len(partitions) : from <= partitions[i].from /\ partitions[i].to <= to
        /\ \A t \in from..(to - 1) :
             \E i \in 1..Len(partitions) :
                Holds(i, t) /\ \A j \in 1..Len(partitions) : Holds(j, t) => j = i

(* A plan is refused for its size exactly when the range needs more than   *)
(* MaxPartitions partitions (the reference is the rounded-up quotient),    *)
(* and has exactly as many as it needs when it is not.                     *)
Needed == ((to - from) + partitionDays * DayHours - 1) \div (partitionDays * DayHours)
PlanSizeExact ==
    /\ outcome = "planned" => Len(partitions) = Needed /\ Needed <= MaxPartitions
    /\ outcome = "too many" => Needed > MaxPartitions

=============================================================================
