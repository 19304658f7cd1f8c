------------------------------ MODULE Backfill ------------------------------
(***************************************************************************)
(* One partitioned backfill job: the API that creates, cancels and retries *)
(* it, the dispatchers of the API replicas that claim partitions and       *)
(* launch their executions, and the activity worker that records how each  *)
(* execution ended.                                                        *)
(*                                                                         *)
(* Abstractions:                                                           *)
(*  - a job; others only compete for the 20 claims of a tick;              *)
(*  - the execution of a partition is its `executions` row, whether its    *)
(*    workflow still runs, and the MarkExecution call that follows; how    *)
(*    the workflow gets there is module ExecutionControl;                  *)
(*  - a workflow without a row gives up by itself and moves no data, so    *)
(*    it is left out;                                                      *)
(*  - every SQL statement is one step, except the claim: its count of      *)
(*    active partitions comes from a snapshot older than its row locks.    *)
(***************************************************************************)
EXTENDS Integers, FiniteSets

CONSTANTS
    PartitionCount,   \* how many partitions planBackfill returned
    MaxConcurrency,   \* backfill_jobs.max_concurrency
    Dispatcher,       \* the API replicas, each runs one backfillDispatcher
    FaultKinds,       \* the failures that may happen
    MaxFaults,        \* bound on them
    MaxRetries        \* bound on the accepted backfillRetry requests

ASSUME CountsAssumption ==
    /\ PartitionCount \in Nat \ {0}
    /\ MaxConcurrency \in Nat \ {0}
    /\ MaxFaults \in Nat
    /\ MaxRetries \in Nat
ASSUME FaultsAssumption == FaultKinds \subseteq {"crash", "commit", "update", "mark", "repeat", "run"}

Partition == 1..PartitionCount
OpenJob == {"queued", "running"}
Active == {"starting", "running"}
Terminal == {"completed", "failed", "cancelled"}

VARIABLES
    job,      \* backfill_jobs.status
    part,     \* part[p]: backfill_partitions.status
    old,      \* partitions that have been 'starting' for five minutes
    row,      \* row[p]: phase of the execution row of p, or "none"
    alive,    \* partitions whose recorded execution has a running workflow
    mark,     \* mark[p]: MarkExecution's backfill statement for that row
    disp,     \* disp[d]: what the dispatcher d is doing
    faults,   \* failures that happened
    retries,  \* accepted retries
    unknown   \* history: partitions whose INSERT committed without an answer

vars == <<job, part, old, row, alive, mark, disp, faults, retries, unknown>>
runVars == <<row, alive, mark>>
bounds == <<faults, retries>>

Stages == {"idle", "claim", "fire", "insert", "fail"}
DispatcherState == [stage : Stages, part : Partition,
                    pending : SUBSET Partition, active : SUBSET Partition]
At(stage, p) == [stage |-> stage, part |-> p, pending |-> {}, active |-> {}]
Idle == At("idle", 1)

TypeOK ==
    /\ job \in OpenJob \cup Terminal
    /\ part \in [Partition -> {"pending"} \cup Active \cup Terminal]
    /\ old \subseteq Partition
    /\ row \in [Partition -> {"none", "running"} \cup Terminal]
    /\ alive \subseteq Partition
    /\ mark \in [Partition -> {"none", "due", "done", "again"}]
    /\ disp \in [Dispatcher -> DispatcherState]
    /\ faults \in 0..MaxFaults
    /\ retries \in 0..MaxRetries
    /\ unknown \subseteq Partition

(* backfillCreate has inserted the job and its partitions.                 *)
Init ==
    /\ job = "queued"
    /\ part = [p \in Partition |-> "pending"]
    /\ old = {}
    /\ row = [p \in Partition |-> "none"]
    /\ alive = {}
    /\ mark = [p \in Partition |-> "none"]
    /\ disp = [d \in Dispatcher |-> Idle]
    /\ faults = 0 /\ retries = 0
    /\ unknown = {}

Fault(kind) ==
    /\ kind \in FaultKinds
    /\ faults < MaxFaults
    /\ faults' = faults + 1
    /\ UNCHANGED retries

InStatus(S) == {p \in Partition : part[p] \in S}

-----------------------------------------------------------------------------
(* claim_next_backfill_partition.                                          *)

(* started_at passes the five minutes.                                     *)
Ages(p) ==
    /\ part[p] = "starting" /\ p \notin old
    /\ old' = old \cup {p}
    /\ UNCHANGED <<job, part, runVars, disp, bounds, unknown>>

NeverExpired(p) == FALSE
Expired(p) == part[p] = "starting" /\ p \in old
Reset(p) == IF Expired(p) THEN "pending" ELSE part[p]

(* The first statement, and the snapshot of the second.                    *)
ClaimSnapshot(d) ==
    /\ disp[d].stage = "idle"
    /\ part' = [p \in Partition |-> Reset(p)]
    /\ old' = {p \in old : part'[p] = "starting"}
    /\ disp' = [disp EXCEPT ![d] =
                  [stage |-> "claim", part |-> 1,
                   pending |-> {p \in Partition : part'[p] = "pending"},
                   active |-> {p \in Partition : part'[p] \in Active}]]
    /\ UNCHANGED <<job, runVars, bounds, unknown>>

CountAtMost(d) == Cardinality(disp[d].active) <= MaxConcurrency
FreeSlot(d) == Cardinality(disp[d].active) < MaxConcurrency

(* The locks recheck the columns of the locked rows, not the count.        *)
NotRechecked(p) == TRUE
Rechecked(p) == part[p] = "pending" /\ job \in OpenJob
Candidates(d) == {p \in disp[d].pending : FreeSlot(d) /\ Rechecked(p)}

ClaimLock(d) ==
    /\ disp[d].stage = "claim"
    /\ \E p \in Candidates(d) :
         /\ \A q \in Candidates(d) : p <= q
         /\ part' = [part EXCEPT ![p] = "starting"]
         /\ old' = old \ {p}
         /\ disp' = [disp EXCEPT ![d] = At("fire", p)]
    /\ job' = IF job = "queued" THEN "running" ELSE job
    /\ UNCHANGED <<runVars, bounds, unknown>>

ClaimNothing(d) ==
    /\ disp[d].stage = "claim"
    /\ Candidates(d) = {}
    /\ disp' = [disp EXCEPT ![d] = Idle]
    /\ UNCHANGED <<job, part, old, runVars, bounds, unknown>>

-----------------------------------------------------------------------------
(* fireExecution for the claimed partition, and dispatchBackfills' answer  *)
(* to its error.                                                           *)

GoTo(d, stage) == disp' = [disp EXCEPT ![d] = At(stage, disp[d].part)]

(* The policies, the quota or Temporal refuse the execution.               *)
FireFails(d) ==
    /\ disp[d].stage = "fire"
    /\ GoTo(d, "fail")
    /\ UNCHANGED <<job, part, old, runVars, bounds, unknown>>

FireStarts(d) ==
    /\ disp[d].stage = "fire"
    /\ GoTo(d, "insert")
    /\ UNCHANGED <<job, part, old, runVars, bounds, unknown>>

(* idx_executions_backfill_partition: one row per partition, for ever.     *)
NoUniqueIndex(p) == TRUE
Unique(p) == row[p] = "none"

(* INSERT of the row and, in the same transaction, an UPDATE of the        *)
(* partition that does not look at its status.                             *)
Inserted(p) ==
    /\ Unique(p)
    /\ row' = [row EXCEPT ![p] = "running"]
    /\ part' = [part EXCEPT ![p] = "running"]
    /\ old' = old \ {p}
    /\ mark' = [mark EXCEPT ![p] = "none"]

InsertExecution(d) ==
    /\ disp[d].stage = "insert"
    /\ Inserted(disp[d].part)
    /\ alive' = alive \cup {disp[d].part}
    /\ disp' = [disp EXCEPT ![d] = Idle]
    /\ UNCHANGED <<job, bounds, unknown>>

(* The unique index, or the database, refuses the row: the new workflow,   *)
(* which has no row, is terminated.                                        *)
InsertRefused(d) ==
    /\ disp[d].stage = "insert"
    /\ IF Unique(disp[d].part) THEN Fault("commit") ELSE UNCHANGED bounds
    /\ GoTo(d, "fail")
    /\ UNCHANGED <<job, part, old, runVars, unknown>>

(* The commit took effect but its answer is lost: the workflow, which now  *)
(* has a row, is terminated unless that call fails too.                    *)
InsertUnknown(d) ==
    /\ disp[d].stage = "insert"
    /\ Fault("commit")
    /\ Inserted(disp[d].part)
    /\ alive' \in {alive, alive \cup {disp[d].part}}
    /\ unknown' = unknown \cup {disp[d].part}
    /\ GoTo(d, "fail")
    /\ UNCHANGED job

PartitionFailed(d) ==
    /\ disp[d].stage = "fail"
    /\ part' = [part EXCEPT ![disp[d].part] = "failed"]
    /\ old' = old \ {disp[d].part}
    /\ disp' = [disp EXCEPT ![d] = Idle]
    /\ UNCHANGED <<job, runVars, bounds, unknown>>

(* The error of that update is ignored.                                    *)
PartitionUpdateFails(d) ==
    /\ disp[d].stage = "fail"
    /\ Fault("update")
    /\ disp' = [disp EXCEPT ![d] = Idle]
    /\ UNCHANGED <<job, part, old, runVars, unknown>>

(* The API replica stops and its successor starts idle; a query that fails *)
(* or a definition that cannot be decoded ends the tick the same way.      *)
Crash(d) ==
    /\ disp[d].stage # "idle"
    /\ Fault("crash")
    /\ disp' = [disp EXCEPT ![d] = Idle]
    /\ UNCHANGED <<job, part, old, runVars, unknown>>

Dispatch(d) ==
    \/ ClaimSnapshot(d) \/ ClaimLock(d) \/ ClaimNothing(d)
    \/ FireFails(d) \/ FireStarts(d)
    \/ InsertExecution(d) \/ InsertRefused(d)
    \/ PartitionFailed(d)

-----------------------------------------------------------------------------
(* The execution of a partition.                                           *)

(* FinalizeExecutionControl records the phase; MarkExecution follows.      *)
RunEnds(p, phase) ==
    /\ p \in alive /\ row[p] = "running"
    /\ row' = [row EXCEPT ![p] = phase]
    /\ alive' = alive \ {p}
    /\ mark' = [mark EXCEPT ![p] = "due"]
    /\ UNCHANGED <<job, part, old, disp, bounds, unknown>>

(* Finalization does not reach the database in its 30 seconds.             *)
RunLost(p) ==
    /\ p \in alive /\ row[p] = "running"
    /\ Fault("run")
    /\ alive' = alive \ {p}
    /\ UNCHANGED <<job, part, old, row, mark, disp, unknown>>

OnlyRunning == {"running"}
Unfinished == {"pending"} \cup Active

Verdict ==
    IF \E p \in Partition : part[p] = "failed" THEN "failed"
    ELSE IF \E p \in Partition : part[p] = "cancelled" THEN "cancelled"
    ELSE "completed"

(* The phase that the first UPDATE of MarkExecution returns.               *)
RequestedPhase(p) == "completed"
MarkedPhase(p) == row[p]

(* The statement's two updates see the snapshot from before it: the job's  *)
(* one still reads the old status of p.                                    *)
MarkBackfill(p) ==
    /\ mark[p] \in {"due", "again"}
    /\ part' = [part EXCEPT ![p] = MarkedPhase(p)]
    /\ old' = old \ {p}
    /\ job' = IF InStatus(Unfinished) = {} THEN Verdict ELSE job
    /\ mark' = [mark EXCEPT ![p] = "done"]
    /\ UNCHANGED <<row, alive, disp, bounds, unknown>>

(* Its error is ignored.                                                   *)
MarkIgnored(p) ==
    /\ mark[p] \in {"due", "again"}
    /\ Fault("mark")
    /\ mark' = [mark EXCEPT ![p] = "done"]
    /\ UNCHANGED <<job, part, old, row, alive, disp, unknown>>

(* The answer of finalizeExecutionControl is lost: Temporal runs it again. *)
MarkRepeated(p) ==
    /\ mark[p] = "done"
    /\ Fault("repeat")
    /\ mark' = [mark EXCEPT ![p] = "again"]
    /\ UNCHANGED <<job, part, old, row, alive, disp, unknown>>

-----------------------------------------------------------------------------
(* The API requests.                                                       *)

BackfillCancel ==
    /\ job \in OpenJob
    /\ job' = "cancelled"
    /\ part' = [p \in Partition |-> IF part[p] \in {"pending", "starting"}
                                    THEN "cancelled" ELSE part[p]]
    /\ old' = {}
    /\ UNCHANGED <<runVars, disp, bounds, unknown>>

Retriable == {"failed"}

BackfillRetry ==
    /\ retries < MaxRetries
    /\ InStatus(Retriable) # {}
    /\ retries' = retries + 1
    /\ part' = [p \in Partition |-> IF part[p] \in Retriable THEN "pending" ELSE part[p]]
    /\ job' = "running"
    /\ UNCHANGED <<old, runVars, disp, faults, unknown>>

-----------------------------------------------------------------------------

Next ==
    \/ \E d \in Dispatcher :
         Dispatch(d) \/ InsertUnknown(d) \/ PartitionUpdateFails(d) \/ Crash(d)
    \/ \E p \in Partition :
         \/ Ages(p) \/ RunLost(p) \/ MarkBackfill(p) \/ MarkIgnored(p) \/ MarkRepeated(p)
         \/ \E phase \in Terminal : RunEnds(p, phase)
    \/ BackfillCancel
    \/ BackfillRetry

Spec == Init /\ [][Next]_vars

(* The ticker of every replica, the age of a claim, Temporal's retries of  *)
(* finalization, and runs that end.                                        *)
Fairness ==
    /\ \A d \in Dispatcher : WF_vars(Dispatch(d))
    /\ \A p \in Partition :
         /\ WF_vars(Ages(p))
         /\ WF_vars(MarkBackfill(p))
         /\ WF_vars(\E phase \in Terminal : RunEnds(p, phase))

FairSpec == Spec /\ Fairness

-----------------------------------------------------------------------------
(* Properties.                                                             *)

(* A partition is shown as completed only if an execution of it completed, *)
(* whatever claims expired, commits were lost or marks were repeated:      *)
(* MarkExecution writes the phase the row really has.                      *)
CompletedRangeIsReal == \A p \in Partition : part[p] = "completed" => row[p] = "completed"

(* A job is shown as completed only if every range of it was moved by a    *)
(* completed execution: the job's verdict may be computed from a stale     *)
(* snapshot, but never says more than the runs did.                        *)
JobCompletedIsWhole == job = "completed" => \A p \in Partition : row[p] = "completed"

(* "completed" is never a guess, for a partition or for the job.           *)
CompletedIsReal == CompletedRangeIsReal /\ JobCompletedIsWhole

(* A cancelled job has no partition left that a dispatcher could launch or *)
(* is entitled to launch: a claim that raced with backfillCancel rechecks  *)
(* the rows it locks, and no expired claim comes back.                     *)
CancelledJobIsDrained == job = "cancelled" => InStatus({"pending", "starting"}) = {}

(* No more than max_concurrency partitions of the job are being launched   *)
(* or run at a time.  A run whose INSERT was committed without an answer   *)
(* is not counted: dispatchBackfills frees its slot by mistake.            *)
ConcurrencyKept == Cardinality((InStatus(Active) \cup alive) \ unknown) <= MaxConcurrency

(* A range that was moved is never moved again: neither an expired claim   *)
(* nor a retry gives a partition a second execution.                       *)
CompletedRangeNotRerun ==
    [][\A p \in Partition : row[p] = "completed" => row'[p] = "completed" /\ p \notin alive']_vars

(* A pending partition of an open job is eventually claimed or cancelled,  *)
(* although dispatchers crash between their steps: the five minutes free   *)
(* the slots of their claims.                                              *)
PendingIsDispatched ==
    \A p \in Partition : (part[p] = "pending" /\ job \in OpenJob) ~> part[p] # "pending"

(* "Backfill [...] updates use the actual terminal phase": once every      *)
(* execution of a job has completed and been recorded, the job is closed.  *)
CompletedJobIsClosed ==
    (\A p \in Partition : part[p] = "completed" /\ mark[p] = "done") => job \notin OpenJob

=============================================================================
